-------------------------- MODULE PlaneInformation --------------------------
(***************************************************************************)
(* Class planeInformation: the loop task polls a web service for the one   *)
(* plane whose key is in `identifier`, and between two polls dead-reckons  *)
(* its position.  While update() runs, the handler of GET /update, on the  *)
(* task of the web server, may assign `identifier`: nothing protects the   *)
(* String, which update() reads once to build the JSON filter and once     *)
(* more for each of the seven values it takes out of the reply.            *)
(*                                                                         *)
(* What a value is does not matter here, but whose it is does: a field     *)
(* holds the plane it was reported for, Zero for the 0 that a missing key  *)
(* converts to, or Default for the constants set by init().  A position    *)
(* computed from several fields holds the set of their owners.             *)
(***************************************************************************)
EXTENDS Arduino, FiniteSets, Sequences

CONSTANTS
  Planes,         \* the keys that planes have in the reply
  Garbage,        \* a key no plane has
  Zero, Default,  \* owners of the values that belong to no plane
  Fields,         \* the fields update() reads out of the reply, in order
  Nobody,         \* no assignment of identifier is under way
  Width,          \* millis() counts modulo Width
  UpdateMillis,   \* updateSec*1000
  MaxGap,         \* bound: ms between two steps of the loop task, but for GET
  MaxRenames      \* bound: how often the user switches planes

ASSUME PlaneAssumption ==
  /\ Fields \in Seq(STRING) /\ Len(Fields) > 0
  /\ {"planeLat", "planeLon", "planeAlt", "planeSpeed"} \subseteq
       {Fields[i] : i \in 1..Len(Fields)}
  /\ Garbage \notin Planes /\ Nobody \notin Planes
  /\ Zero \notin Planes /\ Default \notin Planes /\ Zero # Default
  /\ Width \in Nat /\ UpdateMillis \in Nat /\ MaxGap \in Nat
  /\ MaxRenames \in Nat
  /\ 0 < UpdateMillis /\ UpdateMillis < Width

VARIABLES
  identifier,  \* the key of the plane to track
  renaming,    \* the key the web handler is assigning, or Nobody
  pc,          \* where update() is
  next,        \* the field to be read next
  body,        \* the planes in the reply
  filter,      \* the key the JSON document was filtered with
  doc,         \* the plane in the filtered document, or Zero if there is none
  field,       \* owners of the values update() stores
  fix,         \* owners of planeupdatedLat and planeupdatedLon
  aim,         \* owners of what setDirectionAltitude() was last given
  updateTime, millis,
  renames,     \* counts up to MaxRenames
  idle,        \* history: milliseconds since the loop task last moved
  sincePoll,   \* history: true time since the last successful poll
  failed,      \* history: the last poll failed
  raced,       \* history: identifier was being written since filter was read
  torn         \* history: raced, for the poll that `field` comes from

locals  == <<pc, next, body, filter, doc>>
store   == <<field, fix, aim>>
clock   == <<millis, sincePoll, idle>>
history == <<failed, raced, torn>>
vars    == <<identifier, renaming, pc, next, body, filter, doc, field, fix, aim,
             updateTime, millis, renames, idle, sincePoll, failed, raced, torn>>

FieldNames == {Fields[i] : i \in 1..Len(Fields)}

(* What the distance and the direction of travel are computed from. *)
MotionFields == FieldNames \ {"planeLat", "planeLon", "planeAlt"}

Owners == Planes \cup {Zero, Default}

(* Program points of update(): between two calls, waiting for the reply,    *)
(* about to read identifier for the filter, parsing, reading the fields.    *)
Points == {"idle", "get", "filter", "parse", "read"}

-----------------------------------------------------------------------------
(* The sketch's object is static, hence zero, until init() sets some of it; *)
(* the static updateTime is set by the first call of update().              *)
Init ==
  /\ identifier \in Planes
  /\ renaming = Nobody /\ renames = 0
  /\ pc = "idle" /\ next = 1 /\ body = {} /\ filter = Garbage /\ doc = Zero
  /\ field = [f \in FieldNames |->
                IF f \in {"planeLat", "planeLon", "planeAlt"} THEN {Default} ELSE {Zero}]
  /\ fix = [lat |-> {Zero}, lon |-> {Zero}]
  /\ aim = {}
  /\ millis \in 0..(Width - 1) /\ updateTime = millis
  /\ idle = 0 /\ sincePoll = 0
  /\ failed = FALSE /\ raced = FALSE /\ torn = FALSE

(* What a read of identifier may return: anything while it is written. *)
Readable == IF renaming = Nobody THEN {identifier} ELSE Planes \cup {Garbage}

(* planeInterpolation() on the fields f and the reported position p: with   *)
(* no speed the plane is where it was reported, otherwise its track, speed  *)
(* and the time of the report decide as well.                               *)
Interpolated(f, p) ==
  LET motion == IF f["planeSpeed"] = {Zero} THEN {}
                ELSE UNION {f[m] : m \in MotionFields}
  IN  [f EXCEPT !["planeLat"] = p.lat \cup motion,
                !["planeLon"] = p.lon \cup motion \cup (IF motion = {} THEN {} ELSE p.lat)]

(* planeInterpolation(), and setDirectionAltitude() with its outcome. *)
InterpolateAndAim(f, p) ==
  /\ field' = Interpolated(f, p)
  /\ aim' = field'["planeLat"] \cup field'["planeLon"] \cup field'["planeAlt"]

(* update() before the poll is due, lines 36-40. *)
Interpolate ==
  /\ pc = "idle"
  /\ NotYet(millis, updateTime, UpdateMillis, Width)
  /\ InterpolateAndAim(field, fix)
  /\ UNCHANGED <<locals, fix, updateTime, sincePoll, history>>

(* The poll is due: lines 44-46 send the request and wait. *)
StartPoll ==
  /\ pc = "idle"
  /\ ~NotYet(millis, updateTime, UpdateMillis, Width)
  /\ pc' = "get"
  /\ UNCHANGED <<next, body, filter, doc, store, updateTime, sincePoll, history>>

PollReturns ==
  /\ pc = "get"
  /\ pc' = "filter"
  /\ body' \in SUBSET Planes
  /\ UNCHANGED <<next, filter, doc, store, updateTime, sincePoll, history>>

(* filter[identifier] = true, line 62. *)
BuildFilter ==
  /\ pc = "filter"
  /\ pc' = "parse"
  /\ filter' \in Readable
  /\ raced' = (renaming # Nobody)
  /\ UNCHANGED <<next, body, doc, store, updateTime, sincePoll, failed, torn>>

Parse ==
  /\ pc = "parse"
  /\ pc' = "read"
  /\ doc' = IF filter \in body THEN filter ELSE Zero
  /\ body' = {} /\ filter' = Garbage
  /\ UNCHANGED <<next, store, updateTime, sincePoll, history>>

Return ==
  /\ pc' = "idle" /\ next' = 1
  /\ body' = {} /\ filter' = Garbage /\ doc' = Zero
  /\ raced' = FALSE

(* Mutant: a failed poll counts as one. *)
PollFailsAndWaits ==
  /\ pc \in {"get", "parse"}
  /\ Return
  /\ failed' = TRUE
  /\ updateTime' = millis
  /\ UNCHANGED <<store, sincePoll, torn>>

(* A code other than 200, lines 48-54, or a reply that does not parse,      *)
(* lines 64-71: update() returns and leaves everything as it was, the time  *)
(* of the next poll included.                                               *)
PollFails ==
  /\ pc \in {"get", "parse"}
  /\ Return
  /\ failed' = TRUE
  /\ UNCHANGED <<store, updateTime, sincePoll, torn>>

(* Mutants: the document is not filtered; a missing key keeps the old value. *)
FieldReadUnfiltered(key) ==
  [field EXCEPT ![Fields[next]] = {IF key \in Planes THEN key ELSE Zero}]

FieldReadIfPresent(key) ==
  IF key = doc THEN [field EXCEPT ![Fields[next]] = {doc}] ELSE field

(* doc_flight_data[identifier][i], one of lines 78-84: a key that is not in *)
(* the document yields null, which converts to 0.                           *)
FieldRead(key) ==
  [field EXCEPT ![Fields[next]] = {IF key = doc THEN doc ELSE Zero}]

ReadField ==
  /\ pc = "read" /\ next < Len(Fields)
  /\ \E key \in Readable : field' = FieldRead(key)
  /\ next' = next + 1
  /\ UNCHANGED <<pc, body, filter, doc, fix, aim, updateTime, sincePoll, history>>

(* The last field, and lines 103-109. *)
ReadLastField ==
  /\ pc = "read" /\ next = Len(Fields)
  /\ \E key \in Readable :
       /\ fix' = [lat |-> FieldRead(key)["planeLat"], lon |-> FieldRead(key)["planeLon"]]
       /\ InterpolateAndAim(FieldRead(key), fix')
  /\ updateTime' = millis
  /\ Return
  /\ sincePoll' = 0
  /\ failed' = FALSE
  /\ torn' = raced

Update ==
  /\ \/ Interpolate \/ StartPoll \/ PollReturns \/ PollFails
     \/ BuildFilter \/ Parse \/ ReadField \/ ReadLastField
  /\ idle' = 0
  /\ UNCHANGED <<identifier, renaming, renames, millis>>

Count == renames < MaxRenames /\ renames' = renames + 1

(* loop() after update(): a line from the serial port sets identifier.  Two *)
(* assignments at once may leave anything in it.                            *)
SerialRename(p) ==
  /\ pc = "idle"
  /\ Count
  /\ identifier' = p
  /\ renaming' \in IF renaming = Nobody THEN {Nobody} ELSE Planes \cup {Garbage}
  /\ UNCHANGED <<locals, store, updateTime, clock, history>>

(* GET /update?output=identifier&state=p, on the task of the web server. *)
WebRenameBegin(p) ==
  /\ renaming = Nobody
  /\ Count
  /\ renaming' = p
  /\ raced' = (raced \/ pc \in {"parse", "read"})
  /\ UNCHANGED <<identifier, locals, store, updateTime, clock, failed, torn>>

WebRenameEnd ==
  /\ renaming # Nobody
  /\ identifier' = renaming
  /\ renaming' = Nobody
  /\ UNCHANGED <<renames, locals, store, updateTime, clock, history>>

(* A millisecond passes; the loop task may be blocked in GET for long.      *)
(* update() reads the clock at its entry and after the last field: the time *)
(* it needs between the reply and there counts as part of the waiting.      *)
Tick ==
  /\ (pc = "idle" /\ idle < MaxGap) \/ pc = "get"
  /\ millis' = NextMillis(millis, Width)
  /\ sincePoll' = IF sincePoll < Width THEN sincePoll + 1 ELSE Width
  /\ idle' = IF idle < MaxGap THEN idle + 1 ELSE MaxGap
  /\ UNCHANGED <<identifier, renaming, renames, locals, store, updateTime, history>>

Next ==
  \/ Update
  \/ \E p \in Planes : SerialRename(p)
  \/ \E p \in Planes : WebRenameBegin(p)
  \/ WebRenameEnd
  \/ Tick

Spec == Init /\ [][Next]_vars

(* The loop task keeps running, time passes, and a service that is asked    *)
(* over and over answers over and over with a reply that parses.            *)
Fairness ==
  /\ WF_vars(Update) /\ WF_vars(Tick)
  /\ SF_vars(PollReturns /\ Update) /\ SF_vars(Parse /\ Update)

-----------------------------------------------------------------------------
TypeOK ==
  /\ identifier \in Planes \cup {Garbage}
  /\ renaming \in Planes \cup {Garbage, Nobody}
  /\ renames \in 0..MaxRenames
  /\ pc \in Points
  /\ next \in 1..Len(Fields)
  /\ body \subseteq Planes
  /\ filter \in Planes \cup {Garbage}
  /\ doc \in Planes \cup {Zero}
  /\ field \in [FieldNames -> SUBSET Owners]
  /\ fix \in [lat : SUBSET Owners, lon : SUBSET Owners]
  /\ aim \subseteq Owners
  /\ updateTime \in 0..(Width - 1) /\ millis \in 0..(Width - 1)
  /\ idle \in 0..MaxGap /\ sincePoll \in 0..Width
  /\ failed \in BOOLEAN /\ raced \in BOOLEAN /\ torn \in BOOLEAN

(* However identifier changes while update() runs, the tracker never aims   *)
(* at a mixture of two planes: each lookup of lines 79-84 reads identifier   *)
(* anew, but the document they look in holds one plane at most.  Nor does   *)
(* it aim by the position init() stores: the first call of                  *)
(* planeInterpolation() replaces it by planeupdatedLat and planeupdatedLon, *)
(* zero until the first poll succeeds (planeInformation.cpp:22-23, 131-142).*)
NoMixedPlanes ==
  /\ \A p, q \in aim \cap Planes : p = q
  /\ aim # {} => Default \notin field["planeLat"] \cup field["planeLon"]

(* Nor do the stored fields mix two planes between two calls of update().   *)
(* They mix a plane with zeros only if identifier was being written between *)
(* line 62 and line 84 of the poll they come from.                          *)
TornOnlyByRename ==
  pc # "read" /\ ~torn /\ Default \notin field["planeAlt"]
    => \E o \in Planes \cup {Zero} : \A f \in FieldNames : field[f] = {o}

(* A poll that failed is repeated by the next call of update(), at once,    *)
(* and until one succeeds nothing is interpolated and the servos keep their *)
(* old target -- unless the clock wraps meanwhile, which stops the polling  *)
(* and starts dead reckoning from the old report again.                     *)
NoAimWhileFailing ==
  failed /\ pc = "idle" /\ NotYet(millis, updateTime, UpdateMillis, Width)
    => updateTime + sincePoll >= Width

(* The polls that follow a successful one are updateSec apart: the guard of *)
(* line 36 fails to enforce it only when its sum has wrapped.               *)
PollsPaced ==
  [][pc = "idle" /\ pc' = "get" =>
       sincePoll >= UpdateMillis \/ updateTime + UpdateMillis >= Width]_vars

(* When the identifier stays, the tracker ends up aiming by that plane's    *)
(* report alone, or at zero if the plane is not in the feed: no value of    *)
(* the plane tracked before survives, and no wrap of the clock prevents it. *)
SwitchTakesEffect ==
  \A p \in Planes :
    <>[](identifier = p /\ renaming = Nobody) => <>[](aim \subseteq {p, Zero})
=============================================================================
