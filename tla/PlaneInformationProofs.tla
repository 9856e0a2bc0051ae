----------------------- MODULE PlaneInformationProofs -----------------------
(***************************************************************************)
(* Proofs about the plane object.  First the polling of update() and the   *)
(* web handler that renames the plane meanwhile, for any number of planes, *)
(* fields and renames, any clock width and any period of polling that      *)
(* PlaneAssumption admits; then the time planeInterpolation() extrapolates *)
(* by, for every resolution of the clock, phase of its seconds, wait for   *)
(* SNTP and age of the reports that TimeAssumption admits.                 *)
(***************************************************************************)
EXTENDS PlaneInformation, DeadReckoning, TLAPS

Coordinates == {"planeLat", "planeLon"}

LEMMA NamesKnown ==
  /\ Coordinates \subseteq FieldNames
  /\ "planeAlt" \in FieldNames /\ "planeSpeed" \in FieldNames
  /\ "planeAlt" \notin MotionFields
  /\ MotionFields \subseteq FieldNames
  /\ MotionFields \cap Coordinates = {}
  BY PlaneAssumption DEF FieldNames, MotionFields, Coordinates

LEMMA FieldsTyped ==
  Len(Fields) \in Nat /\ \A i \in 1..Len(Fields) : Fields[i] \in FieldNames
  BY PlaneAssumption DEF FieldNames

(* What the arithmetic needs of the constants. *)
LEMMA NumbersKnown ==
  /\ Width \in Nat /\ UpdateMillis \in Nat /\ MaxGap \in Nat /\ MaxRenames \in Nat
  /\ 0 < UpdateMillis /\ UpdateMillis < Width
  /\ Len(Fields) \in Nat /\ 0 < Len(Fields)
  BY PlaneAssumption

Store == [FieldNames -> SUBSET Owners]
Fix == [lat : SUBSET Owners, lon : SUBSET Owners]

(* Dead reckoning brings nothing into the coordinates but what the reported *)
(* position and the motion come from, and leaves the other fields alone.    *)
LEMMA InterpolatedFrom ==
  ASSUME NEW f \in Store, NEW p \in Fix
  PROVE  /\ Interpolated(f, p) \in Store
         /\ \A g \in Coordinates : \A o \in Interpolated(f, p)[g] :
              o \in p.lat \cup p.lon \/ \E m \in MotionFields : o \in f[m]
         /\ \A g \in FieldNames \ Coordinates : Interpolated(f, p)[g] = f[g]
<1> DEFINE motion == IF f["planeSpeed"] = {Zero} THEN {} ELSE UNION {f[m] : m \in MotionFields}
           lat == p.lat \cup motion
           lon == p.lon \cup motion \cup (IF motion = {} THEN {} ELSE p.lat)
<1>1. Interpolated(f, p) = [f EXCEPT !["planeLat"] = lat, !["planeLon"] = lon]
  BY DEF Interpolated
<1>2. p.lat \subseteq Owners /\ p.lon \subseteq Owners
  BY DEF Fix
<1>3. motion \subseteq Owners
  BY NamesKnown DEF Store
<1>4. \A o \in motion : \E m \in MotionFields : o \in f[m]
  OBVIOUS
<1> HIDE DEF motion
<1>5. lat \subseteq Owners /\ lon \subseteq Owners
  BY <1>2, <1>3
<1>6. /\ \A o \in lat : o \in p.lat \/ o \in motion
      /\ \A o \in lon : o \in p.lon \/ o \in p.lat \/ o \in motion
  OBVIOUS
<1> HIDE DEF lat, lon
<1>7. Interpolated(f, p) \in Store
  BY <1>1, <1>5, NamesKnown DEF Store
<1>8. Interpolated(f, p)["planeLat"] = lat /\ Interpolated(f, p)["planeLon"] = lon
  BY <1>1, NamesKnown DEF Store, Coordinates
<1>9. \A g \in FieldNames \ Coordinates : Interpolated(f, p)[g] = f[g]
  BY <1>1, NamesKnown DEF Store, Coordinates
<1> QED BY <1>4, <1>6, <1>7, <1>8, <1>9 DEF Coordinates

(* One of lines 78-84 stores the plane of the document, or zero, in a field. *)
LEMMA ReadStores ==
  ASSUME TypeOK, NEW key
  PROVE  /\ FieldRead(key) \in Store
         /\ Fields[next] \in FieldNames
         /\ FieldRead(key)[Fields[next]] \subseteq {doc, Zero}
         /\ \A g \in FieldNames : g # Fields[next] => FieldRead(key)[g] = field[g]
<1>1. field \in Store /\ Fields[next] \in FieldNames /\ doc \in Owners /\ Zero \in Owners
  BY FieldsTyped DEF TypeOK, Store, Owners
<1> DEFINE value == IF key = doc THEN doc ELSE Zero
<1>2. FieldRead(key) = [field EXCEPT ![Fields[next]] = {value}]
  BY DEF FieldRead
<1>3. value \in Owners /\ value \in {doc, Zero}
  BY <1>1
<1> HIDE DEF value
<1> QED BY <1>1, <1>2, <1>3 DEF Store

-----------------------------------------------------------------------------
LEMMA TypeInit == Init => TypeOK
<1> SUFFICES ASSUME Init PROVE TypeOK
  OBVIOUS
<1>1. field \in [FieldNames -> SUBSET Owners]
  BY DEF Init, Owners
<1>2. fix \in [lat : SUBSET Owners, lon : SUBSET Owners]
  BY DEF Init, Owners
<1>3. renames \in 0..MaxRenames /\ next \in 1..Len(Fields) /\ idle \in 0..MaxGap
  BY NumbersKnown DEF Init
<1>4. updateTime \in 0..(Width - 1) /\ millis \in 0..(Width - 1) /\ sincePoll \in 0..Width
  BY NumbersKnown DEF Init
<1> QED BY <1>1, <1>2, <1>3, <1>4 DEF Init, TypeOK, Points

(* InterpolateAndAim keeps the types of what it stores. *)
LEMMA AimTyped ==
  ASSUME NEW f \in Store, NEW p \in Fix, InterpolateAndAim(f, p)
  PROVE  field' \in Store /\ aim' \subseteq Owners
<1>1. field' \in Store
  BY InterpolatedFrom DEF InterpolateAndAim
<1> QED BY <1>1, NamesKnown DEF InterpolateAndAim, Store, Coordinates

LEMMA TypeStep == TypeOK /\ [Next]_vars => TypeOK'
<1> SUFFICES ASSUME TypeOK, [Next]_vars PROVE TypeOK'
  OBVIOUS
<1> USE NumbersKnown
<1>1. CASE Update
  <2>1. /\ UNCHANGED <<identifier, renaming, renames, millis>>
        /\ idle' \in 0..MaxGap
    BY <1>1 DEF Update
  <2>2. CASE Interpolate
    <3>1. field' \in Store /\ aim' \subseteq Owners
      BY <2>2, AimTyped DEF Interpolate, TypeOK, Store, Fix
    <3> QED BY <2>1, <2>2, <3>1 DEF Interpolate, locals, history, TypeOK, Store
  <2>3. CASE StartPoll
    BY <2>1, <2>3 DEF StartPoll, store, history, TypeOK, Points
  <2>4. CASE PollReturns
    BY <2>1, <2>4 DEF PollReturns, store, history, TypeOK, Points
  <2>5. CASE PollFails
    <3>1. failed' \in BOOLEAN /\ raced' \in BOOLEAN /\ torn' \in BOOLEAN
      BY <2>5, Zenon DEF PollFails, Return, TypeOK
    <3>2. /\ pc' = "idle" /\ next' = 1 /\ body' = {} /\ filter' = Garbage /\ doc' = Zero
          /\ UNCHANGED <<store, updateTime, sincePoll>>
      BY <2>5, Zenon DEF PollFails, Return
    <3> QED BY <2>1, <3>1, <3>2 DEF store, TypeOK, Points
  <2>6. CASE BuildFilter
    BY <2>1, <2>6 DEF BuildFilter, Readable, store, TypeOK, Points
  <2>7. CASE Parse
    BY <2>1, <2>7 DEF Parse, store, history, TypeOK, Points
  <2>8. CASE ReadField
    <3>1. field' \in Store
      BY <2>8, ReadStores DEF ReadField
    <3> QED BY <2>1, <2>8, <3>1 DEF ReadField, history, TypeOK, Store, Points
  <2>9. CASE ReadLastField
    <3>1. PICK key \in Readable :
            /\ fix' = [lat |-> FieldRead(key)["planeLat"], lon |-> FieldRead(key)["planeLon"]]
            /\ InterpolateAndAim(FieldRead(key), fix')
      BY <2>9 DEF ReadLastField
    <3>2. FieldRead(key) \in Store
      BY ReadStores
    <3>3. fix' \in Fix
      BY <3>1, <3>2, NamesKnown DEF Fix, Store, Coordinates
    <3>4. field' \in Store /\ aim' \subseteq Owners
      BY <3>1, <3>2, <3>3, AimTyped
    <3>5. failed' \in BOOLEAN /\ raced' \in BOOLEAN /\ torn' \in BOOLEAN
      BY <2>9, Zenon DEF ReadLastField, Return, TypeOK
    <3>6. /\ pc' = "idle" /\ next' = 1 /\ body' = {} /\ filter' = Garbage /\ doc' = Zero
          /\ updateTime' = millis /\ sincePoll' = 0
      BY <2>9, Zenon DEF ReadLastField, Return
    <3> QED BY <2>1, <3>3, <3>4, <3>5, <3>6 DEF TypeOK, Store, Fix, Points
  <2> QED BY <1>1, <2>2, <2>3, <2>4, <2>5, <2>6, <2>7, <2>8, <2>9 DEF Update
<1>2. ASSUME NEW p \in Planes, SerialRename(p) PROVE TypeOK'
  BY <1>2 DEF SerialRename, Count, locals, store, clock, history, TypeOK, Points
<1>3. ASSUME NEW p \in Planes, WebRenameBegin(p) PROVE TypeOK'
  BY <1>3 DEF WebRenameBegin, Count, locals, store, clock, TypeOK, Points
<1>4. CASE WebRenameEnd
  BY <1>4 DEF WebRenameEnd, locals, store, clock, history, TypeOK, Points
<1>5. CASE Tick
  BY <1>5 DEF Tick, NextMillis, locals, store, history, TypeOK, Points
<1>6. CASE UNCHANGED vars
  BY <1>6 DEF vars, TypeOK
<1> QED BY <1>1, <1>2, <1>3, <1>4, <1>5, <1>6 DEF Next

(* Every variable keeps its type. *)
THEOREM PlaneTypes == Spec => []TypeOK
  BY TypeInit, TypeStep, PTL DEF Spec

-----------------------------------------------------------------------------
(* What an object that has seen one plane only may hold *)
Mono(o) == {o, Zero, Default}

(* What is inductive about the owners.  Between two calls everything stored *)
(* belongs to one plane; while the reply is read, the fields already read   *)
(* belong to the plane in the document, whatever identifier was meanwhile,  *)
(* and the others may still belong to another one.                          *)
AimPure == \E o \in Planes \cup {Zero} : aim \subseteq Mono(o)

StorePure ==
  pc # "read" =>
    \E o \in Planes \cup {Zero} :
      /\ \A g \in FieldNames : field[g] \subseteq Mono(o)
      /\ fix.lat \subseteq Mono(o) /\ fix.lon \subseteq Mono(o)

ReadPure ==
  /\ pc = "read" => \A i \in 1..(next - 1) : field[Fields[i]] \subseteq {doc, Zero}
  /\ pc # "read" => next = 1

(* The default coordinates are forgotten before they are used. *)
NoDefault ==
  /\ Default \notin fix.lat /\ Default \notin fix.lon
  /\ \A m \in MotionFields : Default \notin field[m]
  /\ aim # {} => \A g \in Coordinates : Default \notin field[g]

OwnersInv == AimPure /\ StorePure /\ ReadPure /\ NoDefault

LEMMA OwnersInit == Init => OwnersInv
<1> SUFFICES ASSUME Init PROVE OwnersInv
  OBVIOUS
<1>1. AimPure /\ StorePure
  BY DEF Init, AimPure, StorePure, Mono
<1>2. ReadPure
  BY DEF Init, ReadPure
<1>3. NoDefault
  BY PlaneAssumption, NamesKnown DEF Init, NoDefault, MotionFields
<1> QED BY <1>1, <1>2, <1>3 DEF OwnersInv

(* Aiming by fields and a position of one plane keeps to that plane. *)
LEMMA AimKeeps ==
  ASSUME NEW f \in Store, NEW p \in Fix, InterpolateAndAim(f, p),
         NEW o,
         \A g \in FieldNames : f[g] \subseteq Mono(o),
         p.lat \subseteq Mono(o), p.lon \subseteq Mono(o)
  PROVE  /\ \A g \in FieldNames : field'[g] \subseteq Mono(o)
         /\ aim' \subseteq Mono(o)
<1>1. /\ field' = Interpolated(f, p)
      /\ aim' = field'["planeLat"] \cup field'["planeLon"] \cup field'["planeAlt"]
  BY DEF InterpolateAndAim
<1>2. \A g \in Coordinates : field'[g] \subseteq Mono(o)
  BY <1>1, InterpolatedFrom, NamesKnown
<1>3. \A g \in FieldNames \ Coordinates : field'[g] \subseteq Mono(o)
  BY <1>1, InterpolatedFrom
<1> QED BY <1>1, <1>2, <1>3, NamesKnown DEF Coordinates

(* Nor does it bring the default coordinates back. *)
LEMMA AimNoDefault ==
  ASSUME NEW f \in Store, NEW p \in Fix, InterpolateAndAim(f, p),
         Default \notin p.lat, Default \notin p.lon,
         \A m \in MotionFields : Default \notin f[m]
  PROVE  /\ \A m \in MotionFields : Default \notin field'[m]
         /\ \A g \in Coordinates : Default \notin field'[g]
  BY InterpolatedFrom, NamesKnown DEF InterpolateAndAim

(* With the last of lines 78-84 every field belongs to the document. *)
LEMMA AllRead ==
  ASSUME TypeOK, ReadPure, pc = "read", next = Len(Fields), NEW key
  PROVE  \A g \in FieldNames : FieldRead(key)[g] \subseteq {doc, Zero}
<1> SUFFICES ASSUME NEW g \in FieldNames
             PROVE  FieldRead(key)[g] \subseteq {doc, Zero}
  OBVIOUS
<1>1. CASE g = Fields[next]
  BY <1>1, ReadStores
<1>2. CASE g # Fields[next]
  <2>1. PICK i \in 1..Len(Fields) : g = Fields[i]
    BY DEF FieldNames
  <2>2. i \in 1..(next - 1)
    BY <1>2, <2>1, NumbersKnown
  <2> QED BY <1>2, <2>1, <2>2, ReadStores DEF ReadPure
<1> QED BY <1>1, <1>2

LEMMA OwnersStep == TypeOK /\ OwnersInv /\ [Next]_vars => OwnersInv'
<1> SUFFICES ASSUME TypeOK, OwnersInv, [Next]_vars PROVE OwnersInv'
  OBVIOUS
<1> USE DEF OwnersInv
<1>1. CASE Interpolate
  <2>1. /\ pc = "idle" /\ pc' = pc /\ next' = next /\ fix' = fix
        /\ InterpolateAndAim(field, fix)
    BY <1>1 DEF Interpolate, locals
  <2>2. field \in Store /\ fix \in Fix
    BY DEF TypeOK, Store, Fix
  <2>3. PICK o \in Planes \cup {Zero} :
          /\ \A g \in FieldNames : field[g] \subseteq Mono(o)
          /\ fix.lat \subseteq Mono(o) /\ fix.lon \subseteq Mono(o)
    BY <2>1 DEF StorePure
  <2>4. (\A g \in FieldNames : field'[g] \subseteq Mono(o)) /\ aim' \subseteq Mono(o)
    BY <2>1, <2>2, <2>3, AimKeeps
  <2>5. AimPure' /\ StorePure' /\ ReadPure'
    BY <2>1, <2>3, <2>4 DEF AimPure, StorePure, ReadPure, Mono
  <2>6. NoDefault'
    BY <2>1, <2>2, AimNoDefault DEF NoDefault
  <2> QED BY <2>5, <2>6
<1>2. CASE StartPoll \/ PollReturns \/ BuildFilter \/ Parse
  <2>1. /\ UNCHANGED <<field, fix, aim, next>>
        /\ pc # "read" /\ next = 1
    BY <1>2 DEF StartPoll, PollReturns, BuildFilter, Parse, store, ReadPure
  <2>2. AimPure' /\ StorePure' /\ NoDefault'
    BY <2>1 DEF AimPure, StorePure, NoDefault, Mono
  <2>3. ReadPure'
    BY <2>1 DEF ReadPure
  <2> QED BY <2>2, <2>3
<1>3. CASE PollFails
  <2>1. /\ UNCHANGED <<field, fix, aim>>
        /\ pc # "read" /\ pc' = "idle" /\ next' = 1
    BY <1>3 DEF PollFails, Return, store
  <2> QED BY <2>1 DEF AimPure, StorePure, ReadPure, NoDefault, Mono
<1>4. CASE ReadField
  <2>1. PICK key \in Readable : field' = FieldRead(key)
    BY <1>4 DEF ReadField
  <2>2. /\ pc = "read" /\ pc' = pc /\ next' = next + 1
        /\ UNCHANGED <<doc, fix, aim>>
    BY <1>4 DEF ReadField
  <2>3. next \in Nat /\ doc \in Planes \cup {Zero}
    BY NumbersKnown DEF TypeOK
  <2>4. AimPure' /\ StorePure'
    BY <2>2 DEF AimPure, StorePure, Mono
  <2>5. ReadPure'
    <3> SUFFICES ASSUME NEW i \in 1..next
                 PROVE  field'[Fields[i]] \subseteq {doc, Zero}
      BY <2>2, <2>3 DEF ReadPure
    <3>1. CASE Fields[i] = Fields[next]
      BY <2>1, <3>1, ReadStores
    <3>2. CASE Fields[i] # Fields[next]
      <4>1. i \in 1..(next - 1) /\ i \in 1..Len(Fields)
        BY <2>3, <3>2, NumbersKnown DEF TypeOK
      <4> QED BY <2>1, <2>2, <3>2, <4>1, ReadStores, FieldsTyped DEF ReadPure
    <3> QED BY <3>1, <3>2
  <2>6. NoDefault'
    <3>1. Default \notin {doc, Zero}
      BY <2>3, PlaneAssumption
    <3>2. \A g \in FieldNames : Default \in field'[g] => Default \in field[g]
      BY <2>1, <3>1, ReadStores
    <3> QED BY <2>2, <3>2, NamesKnown DEF NoDefault
  <2> QED BY <2>4, <2>5, <2>6
<1>5. CASE ReadLastField
  <2>1. PICK key \in Readable :
          /\ fix' = [lat |-> FieldRead(key)["planeLat"], lon |-> FieldRead(key)["planeLon"]]
          /\ InterpolateAndAim(FieldRead(key), fix')
    BY <1>5 DEF ReadLastField
  <2>2. pc = "read" /\ next = Len(Fields) /\ pc' = "idle" /\ next' = 1
    BY <1>5 DEF ReadLastField, Return
  <2>3. doc \in Planes \cup {Zero}
    BY DEF TypeOK
  <2>4. FieldRead(key) \in Store
    BY ReadStores
  <2>5. \A g \in FieldNames : FieldRead(key)[g] \subseteq {doc, Zero}
    BY <2>2, AllRead
  <2>6. fix' \in Fix
    BY <2>1, <2>4, NamesKnown DEF Fix, Store, Coordinates
  <2>7. fix'.lat \subseteq {doc, Zero} /\ fix'.lon \subseteq {doc, Zero}
    BY <2>1, <2>5, NamesKnown DEF Coordinates
  <2>8. (\A g \in FieldNames : field'[g] \subseteq Mono(doc)) /\ aim' \subseteq Mono(doc)
    <3>1. \A g \in FieldNames : FieldRead(key)[g] \subseteq Mono(doc)
      BY <2>5 DEF Mono
    <3>2. fix'.lat \subseteq Mono(doc) /\ fix'.lon \subseteq Mono(doc)
      BY <2>7 DEF Mono
    <3> QED BY <2>1, <2>4, <2>6, <3>1, <3>2, AimKeeps
  <2>9. AimPure' /\ StorePure' /\ ReadPure'
    BY <2>2, <2>3, <2>7, <2>8 DEF AimPure, StorePure, ReadPure, Mono
  <2>10. NoDefault'
    <3>1. Default \notin {doc, Zero}
      BY <2>3, PlaneAssumption
    <3>2. \A m \in MotionFields : Default \notin FieldRead(key)[m]
      BY <2>5, <3>1, NamesKnown
    <3> QED BY <2>1, <2>4, <2>6, <2>7, <3>1, <3>2, AimNoDefault DEF NoDefault
  <2> QED BY <2>9, <2>10
<1>6. CASE UNCHANGED <<locals, store>>
  BY <1>6 DEF locals, store, AimPure, StorePure, ReadPure, NoDefault, Mono
<1>7. ASSUME NEW p \in Planes, SerialRename(p) \/ WebRenameBegin(p)
      PROVE  UNCHANGED <<locals, store>>
  BY <1>7 DEF SerialRename, WebRenameBegin
<1>8. WebRenameEnd \/ Tick \/ UNCHANGED vars => UNCHANGED <<locals, store>>
  BY DEF WebRenameEnd, Tick, vars, locals, store
<1> QED BY <1>1, <1>2, <1>3, <1>4, <1>5, <1>6, <1>7, <1>8 DEF Next, Update

(* However the plane is renamed meanwhile, the tracker never aims at a       *)
(* mixture of two planes, nor by the coordinates that init() stores.         *)
THEOREM PlanesUnmixed == Spec => []NoMixedPlanes
<1>1. OwnersInv => NoMixedPlanes
  BY PlaneAssumption DEF OwnersInv, AimPure, Mono, NoDefault, Coordinates, NoMixedPlanes
<1> QED BY <1>1, TypeInit, TypeStep, OwnersInit, OwnersStep, PTL DEF Spec

-----------------------------------------------------------------------------
(* What is inductive when nobody renames the plane during a poll: the       *)
(* identifier is the filter's, all fields read so far are the document's,   *)
(* and after the poll everything stored belongs to it alone.                *)
Uniform(o) ==
  /\ \A g \in FieldNames : field[g] = {o}
  /\ fix.lat = {o} /\ fix.lon = {o}

PollUniform ==
  /\ pc = "parse" /\ ~raced => renaming = Nobody /\ identifier = filter
  /\ pc = "read" /\ ~raced =>
       /\ renaming = Nobody
       /\ doc \in {identifier, Zero}
       /\ \A i \in 1..(next - 1) : field[Fields[i]] = {doc}

StoreUniform ==
  pc # "read" /\ ~torn /\ Default \notin field["planeAlt"] =>
    \E o \in Planes \cup {Zero} : Uniform(o)

UniformInv == PollUniform /\ StoreUniform

(* Dead reckoning from one plane's values yields that plane's. *)
LEMMA InterpolateUniform ==
  ASSUME NEW f \in Store, NEW p \in Fix, NEW o,
         \A g \in FieldNames : f[g] = {o}, p.lat = {o}, p.lon = {o}
  PROVE  \A g \in FieldNames : Interpolated(f, p)[g] = {o}
<1> DEFINE motion == IF f["planeSpeed"] = {Zero} THEN {} ELSE UNION {f[m] : m \in MotionFields}
           lat == p.lat \cup motion
           lon == p.lon \cup motion \cup (IF motion = {} THEN {} ELSE p.lat)
<1>1. Interpolated(f, p) = [f EXCEPT !["planeLat"] = lat, !["planeLon"] = lon]
  BY DEF Interpolated
<1>2. motion \subseteq {o}
  BY NamesKnown
<1> HIDE DEF motion
<1>3. lat = {o} /\ lon = {o}
  BY <1>2
<1> HIDE DEF lat, lon
<1> QED BY <1>1, <1>3, NamesKnown DEF Store, Coordinates

LEMMA UniformInit == Init => UniformInv
<1> SUFFICES ASSUME Init PROVE UniformInv
  OBVIOUS
<1>1. pc = "idle" /\ Default \in field["planeAlt"]
  BY NamesKnown DEF Init
<1> QED BY <1>1 DEF UniformInv, PollUniform, StoreUniform

(* What a lookup yields when the identifier is the filter's. *)
LEMMA UniformRead ==
  ASSUME TypeOK, doc \in {identifier, Zero}
  PROVE  /\ FieldRead(identifier)[Fields[next]] = {doc}
         /\ \A g \in FieldNames : g # Fields[next] => FieldRead(identifier)[g] = field[g]
<1>1. field \in Store /\ Fields[next] \in FieldNames
  BY FieldsTyped DEF TypeOK, Store
<1>2. FieldRead(identifier) = [field EXCEPT ![Fields[next]] = {doc}]
  BY DEF FieldRead
<1> QED BY <1>1, <1>2 DEF Store

LEMMA UniformStep == TypeOK /\ OwnersInv /\ UniformInv /\ [Next]_vars => UniformInv'
<1> SUFFICES ASSUME TypeOK, ReadPure, UniformInv, [Next]_vars PROVE UniformInv'
  BY DEF OwnersInv
<1> USE DEF UniformInv
<1>1. CASE Update /\ Interpolate
  <2>1. /\ pc = "idle" /\ pc' = "idle" /\ fix' = fix /\ torn' = torn
        /\ field' = Interpolated(field, fix)
    BY <1>1 DEF Interpolate, InterpolateAndAim, locals, history
  <2>2. field \in Store /\ fix \in Fix
    BY DEF TypeOK, Store, Fix
  <2>3. field'["planeAlt"] = field["planeAlt"]
    BY <2>1, <2>2, InterpolatedFrom, NamesKnown DEF Coordinates
  <2>4. ASSUME NEW o \in Planes \cup {Zero}, Uniform(o) PROVE Uniform(o)'
    BY <2>1, <2>2, <2>4, InterpolateUniform DEF Uniform
  <2>5. StoreUniform'
    BY <2>1, <2>3, <2>4 DEF StoreUniform
  <2> QED BY <2>1, <2>5 DEF PollUniform
<1>2. CASE Update /\ (StartPoll \/ PollReturns)
  <2>1. /\ UNCHANGED <<field, fix, torn>>
        /\ pc # "read" /\ pc' \in {"get", "filter"}
    BY <1>2 DEF StartPoll, PollReturns, store, history
  <2> QED BY <2>1 DEF PollUniform, StoreUniform, Uniform
<1>3. CASE Update /\ PollFails
  <2>1. /\ UNCHANGED <<field, fix, torn>>
        /\ pc # "read" /\ pc' = "idle"
    BY <1>3 DEF PollFails, Return, store
  <2> QED BY <2>1 DEF PollUniform, StoreUniform, Uniform
<1>4. CASE Update /\ BuildFilter
  <2>1. /\ UNCHANGED <<field, fix, torn, identifier, renaming>>
        /\ pc # "read" /\ pc' = "parse"
    BY <1>4 DEF BuildFilter, Update, store
  <2>2. ~raced' => renaming = Nobody /\ filter' = identifier
    BY <1>4 DEF BuildFilter, Readable
  <2>3. StoreUniform'
    BY <2>1 DEF StoreUniform, Uniform
  <2> QED BY <2>1, <2>2, <2>3 DEF PollUniform
<1>5. CASE Update /\ Parse
  <2>1. /\ UNCHANGED <<field, fix, torn, identifier, renaming, next, raced>>
        /\ pc = "parse" /\ pc' = "read"
        /\ doc' \in {filter, Zero}
    BY <1>5 DEF Parse, Update, store, history
  <2>2. next = 1
    BY <2>1 DEF ReadPure
  <2>3. 1..(next' - 1) = {}
    BY <2>1, <2>2
  <2> QED BY <2>1, <2>3 DEF PollUniform, StoreUniform
<1>6. CASE Update /\ ReadField
  <2>1. /\ UNCHANGED <<identifier, renaming, doc, raced>>
        /\ pc = "read" /\ pc' = "read" /\ next' = next + 1
        /\ \E key \in Readable : field' = FieldRead(key)
    BY <1>6 DEF ReadField, Update, history
  <2>2. StoreUniform'
    BY <2>1 DEF StoreUniform
  <2>3. ASSUME ~raced, NEW i \in 1..next
        PROVE  /\ renaming = Nobody /\ doc \in {identifier, Zero}
               /\ field'[Fields[i]] = {doc}
    <3>1. /\ renaming = Nobody /\ doc \in {identifier, Zero}
          /\ \A j \in 1..(next - 1) : field[Fields[j]] = {doc}
      BY <2>1, <2>3 DEF PollUniform
    <3>2. field' = FieldRead(identifier)
      BY <2>1, <3>1 DEF Readable
    <3>3. next \in 1..Len(Fields)
      BY DEF TypeOK
    <3>4. i \in 1..Len(Fields) /\ (i \in 1..(next - 1) \/ i = next)
      BY <3>3, NumbersKnown
    <3> QED BY <3>1, <3>2, <3>4, UniformRead, FieldsTyped
  <2>4. next \in Nat /\ next >= 1
    BY NumbersKnown DEF TypeOK
  <2>5. PollUniform'
    BY <2>1, <2>3, <2>4 DEF PollUniform
  <2> QED BY <2>2, <2>5
<1>7. CASE Update /\ ReadLastField
  <2>1. /\ pc = "read" /\ next = Len(Fields) /\ pc' = "idle" /\ torn' = raced
        /\ \E key \in Readable :
             /\ fix' = [lat |-> FieldRead(key)["planeLat"], lon |-> FieldRead(key)["planeLon"]]
             /\ field' = Interpolated(FieldRead(key), fix')
    BY <1>7 DEF ReadLastField, Return, InterpolateAndAim
  <2>2. ASSUME ~raced PROVE \E o \in Planes \cup {Zero} : Uniform(o)'
    <3>1. /\ renaming = Nobody /\ doc \in {identifier, Zero}
          /\ \A i \in 1..(next - 1) : field[Fields[i]] = {doc}
      BY <2>1, <2>2 DEF PollUniform
    <3> DEFINE f == FieldRead(identifier)
    <3>2. /\ fix' = [lat |-> f["planeLat"], lon |-> f["planeLon"]]
          /\ field' = Interpolated(f, fix')
      BY <2>1, <3>1 DEF Readable
    <3>3. f \in Store
      BY ReadStores
    <3>4. ASSUME NEW g \in FieldNames PROVE f[g] = {doc}
      <4>1. CASE g = Fields[next]
        BY <3>1, <4>1, UniformRead
      <4>2. CASE g # Fields[next]
        <5>1. PICK i \in 1..Len(Fields) : g = Fields[i]
          BY DEF FieldNames
        <5>2. i \in 1..(next - 1)
          BY <2>1, <4>2, <5>1, NumbersKnown
        <5> QED BY <3>1, <4>2, <5>1, <5>2, UniformRead
      <4> QED BY <4>1, <4>2
    <3> HIDE DEF f
    <3>5. fix' \in Fix
      BY <3>2, <3>3, NamesKnown DEF Fix, Store, Coordinates
    <3>6. fix'.lat = {doc} /\ fix'.lon = {doc}
      BY <3>2, <3>4, NamesKnown DEF Coordinates
    <3>7. PICK o : o = doc
      OBVIOUS
    <3>8. Uniform(o)'
      <4>1. \A g \in FieldNames : Interpolated(f, fix')[g] = {doc}
        BY <3>3, <3>4, <3>5, <3>6, InterpolateUniform
      <4>2. \A g \in FieldNames : field'[g] = {doc}
        BY <3>2, <4>1
      <4> QED BY <3>6, <3>7, <4>2 DEF Uniform
    <3> QED BY <3>7, <3>8 DEF TypeOK
  <2>3. StoreUniform'
    BY <2>1, <2>2 DEF StoreUniform
  <2> QED BY <2>1, <2>3 DEF PollUniform
<1>8. ASSUME NEW p \in Planes, SerialRename(p) PROVE UniformInv'
  <2>1. UNCHANGED <<pc, field, fix, torn>> /\ pc = "idle"
    BY <1>8 DEF SerialRename, locals, store, history
  <2> QED BY <2>1 DEF PollUniform, StoreUniform, Uniform
<1>9. ASSUME NEW p \in Planes, WebRenameBegin(p) PROVE UniformInv'
  <2>1. UNCHANGED <<pc, field, fix, torn>>
    BY <1>9 DEF WebRenameBegin, locals, store
  <2>2. pc \in {"parse", "read"} => raced'
    BY <1>9 DEF WebRenameBegin
  <2> QED BY <2>1, <2>2 DEF PollUniform, StoreUniform, Uniform
<1>10. CASE WebRenameEnd
  <2>1. UNCHANGED <<pc, field, fix, torn, raced>> /\ renaming # Nobody
    BY <1>10 DEF WebRenameEnd, locals, store, history
  <2> QED BY <2>1 DEF PollUniform, StoreUniform, Uniform
<1>11. CASE Tick \/ UNCHANGED vars
  <2>1. UNCHANGED <<identifier, renaming, locals, field, fix, raced, torn>>
    BY <1>11 DEF Tick, vars, store, history, locals
  <2> QED BY <2>1 DEF PollUniform, StoreUniform, Uniform, locals
<1> QED BY <1>1, <1>2, <1>3, <1>4, <1>5, <1>6, <1>7, <1>8, <1>9, <1>10, <1>11
        DEF Next, Update

(* Between two calls the stored fields mix a plane with zeros only if       *)
(* identifier was being written during the poll they come from.             *)
THEOREM UntornOtherwise == Spec => []TornOnlyByRename
<1>1. UniformInv => TornOnlyByRename
  BY DEF UniformInv, StoreUniform, Uniform, TornOnlyByRename
<1> QED BY <1>1, TypeInit, TypeStep, OwnersInit, OwnersStep, UniformInit, UniformStep, PTL DEF Spec

-----------------------------------------------------------------------------
(* What is inductive about the time of the next poll: millis against the     *)
(* true time since the last successful poll, and that a poll is under way    *)
(* or has failed only when it was due, or when the deadline had wrapped.     *)
PollClock ==
  sincePoll < Width =>
    millis = IF updateTime + sincePoll < Width
             THEN updateTime + sincePoll
             ELSE updateTime + sincePoll - Width

WasDue == sincePoll >= UpdateMillis \/ updateTime + UpdateMillis >= Width

PollInv == PollClock /\ (failed \/ pc # "idle" => WasDue)

(* The guard of line 36 lets a poll start in no other case. *)
LEMMA DueWhenStarted ==
  ASSUME TypeOK, PollClock, ~NotYet(millis, updateTime, UpdateMillis, Width)
  PROVE  WasDue
  BY NumbersKnown DEF TypeOK, PollClock, WasDue, NotYet, Deadline

LEMMA PollInit == Init => PollInv
<1> SUFFICES ASSUME Init PROVE PollInv
  OBVIOUS
<1>1. PollClock
  BY NumbersKnown DEF Init, PollClock
<1>2. ~failed /\ pc = "idle"
  BY Zenon DEF Init
<1> QED BY <1>1, <1>2 DEF PollInv

LEMMA PollStep == TypeOK /\ PollInv /\ [Next]_vars => PollInv'
<1> SUFFICES ASSUME TypeOK, PollInv, [Next]_vars PROVE PollInv'
  OBVIOUS
<1>0. Interpolate \/ StartPoll \/ PollReturns \/ PollFails \/ BuildFilter \/ Parse
        \/ ReadField \/ ReadLastField => (Update => millis' = millis)
  BY DEF Update
<1>1. CASE UNCHANGED <<millis, updateTime, sincePoll, failed, pc>>
  BY <1>1 DEF PollInv, PollClock, WasDue
<1>2. CASE Update /\ StartPoll
  <2>1. UNCHANGED <<millis, updateTime, sincePoll>> /\ WasDue
    BY <1>2, DueWhenStarted DEF Update, StartPoll, PollInv
  <2> QED BY <2>1 DEF PollInv, PollClock, WasDue
<1>3. CASE Update /\ (PollReturns \/ PollFails \/ BuildFilter \/ Parse \/ ReadField)
  <2>1. UNCHANGED <<millis, updateTime, sincePoll>> /\ pc # "idle"
    BY <1>3 DEF Update, PollReturns, PollFails, BuildFilter, Parse, ReadField
  <2> QED BY <2>1 DEF PollInv, PollClock, WasDue
<1>4. CASE Update /\ ReadLastField
  <2>1. updateTime' = millis /\ millis' = millis /\ sincePoll' = 0 /\ pc' = "idle"
    BY <1>4 DEF Update, ReadLastField, Return
  <2>2. ~failed'
    BY <1>4, Zenon DEF ReadLastField
  <2>3. PollClock'
    BY <2>1, NumbersKnown DEF PollClock, TypeOK
  <2> QED BY <2>1, <2>2, <2>3 DEF PollInv
<1>5. CASE Tick
  <2>1. /\ millis' = NextMillis(millis, Width)
        /\ sincePoll' = IF sincePoll < Width THEN sincePoll + 1 ELSE Width
        /\ UNCHANGED <<updateTime, failed, pc>>
    BY <1>5 DEF Tick, locals, history
  <2>2. PollClock'
    BY <2>1, NumbersKnown DEF NextMillis, PollInv, PollClock, TypeOK
  <2>3. WasDue => WasDue'
    BY <2>1, NumbersKnown DEF WasDue, TypeOK
  <2> QED BY <2>1, <2>2, <2>3 DEF PollInv
<1>6. ASSUME NEW p \in Planes, SerialRename(p) \/ WebRenameBegin(p)
      PROVE  UNCHANGED <<millis, updateTime, sincePoll, failed, pc>>
  BY <1>6 DEF SerialRename, WebRenameBegin, locals, clock, history
<1>7. WebRenameEnd \/ UNCHANGED vars \/ (Update /\ Interpolate)
        => UNCHANGED <<millis, updateTime, sincePoll, failed, pc>>
  BY DEF WebRenameEnd, vars, Update, Interpolate, locals, clock, history
<1> QED BY <1>1, <1>2, <1>3, <1>4, <1>5, <1>6, <1>7 DEF Next, Update

LEMMA PollInvariant == Spec => [](TypeOK /\ PollInv)
  BY TypeInit, TypeStep, PollInit, PollStep, PTL DEF Spec

(* After a failed poll nothing is aimed before a poll succeeds, unless the  *)
(* clock has wrapped since the last success.                                *)
THEOREM NoAimAfterFailure == Spec => []NoAimWhileFailing
<1>1. TypeOK /\ PollInv => NoAimWhileFailing
  <2> SUFFICES ASSUME TypeOK, PollInv, failed, pc = "idle",
                      NotYet(millis, updateTime, UpdateMillis, Width)
               PROVE  updateTime + sincePoll >= Width
    BY DEF NoAimWhileFailing
  <2>1. WasDue /\ PollClock
    BY DEF PollInv
  <2> QED BY <2>1, NumbersKnown DEF TypeOK, WasDue, PollClock, NotYet, Deadline
<1> QED BY <1>1, PollInvariant, PTL

(* The guard of update() spaces the polls after a success updateSec apart,  *)
(* except when the deadline it computes wraps around.                       *)
THEOREM PollRate == Spec => PollsPaced
<1>1. TypeOK /\ PollInv /\ [Next]_vars =>
        [pc = "idle" /\ pc' = "get" =>
           sincePoll >= UpdateMillis \/ updateTime + UpdateMillis >= Width]_vars
  <2> SUFFICES ASSUME TypeOK, PollInv, Next, pc = "idle", pc' = "get"
               PROVE  WasDue
    BY DEF WasDue
  <2>1. StartPoll
    BY DEF Next, Update, Interpolate, PollReturns, PollFails, Return, BuildFilter,
           Parse, ReadField, ReadLastField, SerialRename, WebRenameBegin,
           WebRenameEnd, Tick, locals
  <2> QED BY <2>1, DueWhenStarted DEF StartPoll, PollInv
<1> QED BY <1>1, PollInvariant, PTL DEF Spec, PollsPaced

-----------------------------------------------------------------------------
(* The time a report is extrapolated by, and the heading *)


LEMMA Distribute ==
  ASSUME NEW a \in Int, NEW b \in Int, NEW s \in Int
  PROVE  (a - b) * s = a * s - b * s
  OBVIOUS

LEMMA NextMultiple ==
  ASSUME NEW a \in Int, NEW b \in Int, NEW s \in Nat, a < b
  PROVE  a * s + s <= b * s
<1>1. PICK d \in Nat : b = a + 1 + d
  <2>1. b - a - 1 \in Nat /\ b = a + 1 + (b - a - 1)
    OBVIOUS
  <2> QED BY <2>1
<1>2. b * s = a * s + s + d * s
  BY <1>1
<1>3. d * s \in Nat
  OBVIOUS
<1> QED BY <1>2, <1>3

(* A number lies in the multiple its quotient says. *)
LEMMA QuotientBounds ==
  ASSUME NEW n \in Nat, NEW s \in Nat, s > 0
  PROVE  /\ n \div s \in Int
         /\ (n \div s) * s <= n /\ n < (n \div s) * s + s
  OBVIOUS

LEMMA ConstantsKnown ==
  /\ Second \in Nat /\ Second > 0
  /\ EpochWidth \in Nat /\ Boot \in Nat /\ MaxAge \in Nat /\ MaxSkew \in Nat
  /\ MaxAge + MaxSkew < Boot
  /\ NtpWait \in Nat /\ Horizon \in Nat
  /\ Boot + Horizon + MaxSkew + 1 < EpochWidth
  BY TimeAssumption

(* The second of a time, its bounds in ticks, and its own bounds. *)
LEMMA SecondOf ==
  ASSUME NEW t \in 0..Horizon, phase \in 0..(Second - 1)
  PROVE  /\ WallTicks(t) \in Nat
         /\ WallEpoch(t) \in Boot..(Boot + Horizon + 1)
         /\ WallEpoch(t) * Second <= WallTicks(t)
         /\ WallTicks(t) < WallEpoch(t) * Second + Second
<1> USE ConstantsKnown
<1> DEFINE base == Boot * Second
           w == WallTicks(t)
           e == WallEpoch(t)
<1>1. base \in Nat
  OBVIOUS
<1>2. w = base + phase + t /\ w \in Nat
  BY <1>1 DEF WallTicks
<1>3. e \in Int /\ e * Second <= w /\ w < e * Second + Second
  BY <1>2, QuotientBounds DEF WallEpoch
<1> HIDE DEF w, e
<1>4. e >= Boot
  <2>1. CASE e < Boot
    <3>1. e * Second + Second <= base
      BY <1>3, <2>1, NextMultiple
    <3> QED BY <1>1, <1>2, <1>3, <3>1
  <2> QED BY <2>1, <1>3
<1>5. e <= Boot + Horizon + 1
  <2>1. CASE e > Boot + Horizon + 1
    <3>1. (Boot + Horizon + 1) * Second + Second <= e * Second
      BY <1>3, <2>1, NextMultiple
    <3>2. (Boot + Horizon + 1) * Second = base + Horizon * Second + Second
      OBVIOUS
    <3>3. Horizon <= Horizon * Second
      OBVIOUS
    <3> HIDE DEF base
    <3> QED BY <1>1, <1>2, <1>3, <3>1, <3>2, <3>3
  <2> QED BY <2>1, <1>3
<1> QED BY <1>2, <1>3, <1>4, <1>5 DEF w, e

LEMMA TicksGrow ==
  ASSUME NEW t \in 0..Horizon, NEW u \in 0..Horizon, t <= u,
         phase \in 0..(Second - 1)
  PROVE  WallTicks(t) <= WallTicks(u)
  BY ConstantsKnown DEF WallTicks

(* Later times are in later seconds. *)
LEMMA SecondsGrow ==
  ASSUME NEW t \in 0..Horizon, NEW u \in 0..Horizon, t <= u,
         phase \in 0..(Second - 1)
  PROVE  WallEpoch(t) <= WallEpoch(u)
<1> USE ConstantsKnown
<1> DEFINE d == WallEpoch(t)
           e == WallEpoch(u)
<1>1. /\ d \in Int /\ e \in Int
      /\ d * Second <= WallTicks(t) /\ WallTicks(u) < e * Second + Second
  BY SecondOf
<1>2. WallTicks(t) <= WallTicks(u)
  BY TicksGrow
<1>3. WallTicks(t) \in Int /\ WallTicks(u) \in Int
  BY SecondOf
<1> HIDE DEF d, e
<1>4. CASE e < d
  <2>1. e * Second + Second <= d * Second
    BY <1>1, <1>4, NextMultiple
  <2> QED BY <1>1, <1>2, <1>3, <2>1
<1> QED BY <1>1, <1>4 DEF d, e

-----------------------------------------------------------------------------
(* What is inductive.  The second that prevUpdate was taken in is prevEpoch *)
(* (it is zero until SNTP has set the clock); and of an extrapolation that  *)
(* was computed with the clock set: it was made in the second currentEpoch, *)
(* not later than now, and it lags by as much as the code has missed of     *)
(* that second.                                                             *)
SecondSeen ==
  /\ currentEpoch # 0 => synced /\ WallEpoch(prevUpdate) = currentEpoch
  /\ trusted => currentEpoch # 0

MadeInSecond ==
  trusted =>
    /\ trueAge + updateEpoch * Second <= WallTicks(now)
    /\ currentEpoch * Second <= trueAge + updateEpoch * Second
    /\ trueAge + updateEpoch * Second < currentEpoch * Second + Second

Lag ==
  trusted /\ trueAge >= 0 =>
    timeDifference = trueAge - (WallTicks(prevUpdate) - currentEpoch * Second)

ReckoningInv == ClockTypes /\ SecondSeen /\ MadeInSecond /\ Lag

LEMMA ReckoningInit == ClockInit => ReckoningInv
<1> SUFFICES ASSUME ClockInit PROVE ReckoningInv
  OBVIOUS
<1>1. ClockTypes
  <2>1. synced \in BOOLEAN /\ trusted \in BOOLEAN
    BY Zenon DEF ClockInit
  <2> QED BY <2>1, ConstantsKnown DEF ClockInit, ClockTypes
<1>2. ~trusted
  BY Zenon DEF ClockInit
<1>3. SecondSeen
  <2>1. currentEpoch = 0
    BY DEF ClockInit
  <2> QED BY <1>2, <2>1, Zenon DEF SecondSeen
<1>4. MadeInSecond /\ Lag
  BY <1>2, Zenon DEF MadeInSecond, Lag
<1> QED BY <1>1, <1>3, <1>4 DEF ReckoningInv

(* An extrapolation with the clock set, at a time not before the last. *)
LEMMA InterpolateSynced ==
  ASSUME ReckoningInv, synced, NEW stamp \in 0..(EpochWidth - 1),
         InterpolateAt(now, WallEpoch(now), stamp),
         UNCHANGED <<now, phase, synced>>
  PROVE  ReckoningInv'
<1> USE ConstantsKnown
<1> DEFINE e == WallEpoch(now)
<1>1. /\ now \in 0..Horizon /\ phase \in 0..(Second - 1)
      /\ prevUpdate \in 0..now /\ prevEpoch = currentEpoch
  BY DEF ReckoningInv, ClockTypes
<1>2. /\ e \in Boot..(Boot + Horizon + 1) /\ WallTicks(now) \in Nat
      /\ e * Second <= WallTicks(now) /\ WallTicks(now) < e * Second + Second
  BY <1>1, SecondOf
<1>3. /\ currentEpoch' = e /\ prevEpoch' = e /\ updateEpoch' = stamp
      /\ prevUpdate' = IF currentEpoch # e THEN now ELSE prevUpdate
      /\ timeDifference' = ((e - stamp) % EpochWidth) * Second + (now - prevUpdate')
      /\ trueAge' = WallTicks(now) - stamp * Second
      /\ trusted' = synced
      /\ now' = now /\ phase' = phase /\ synced' = synced
  BY <1>1 DEF InterpolateAt, Extrapolate, FirstSeen
<1>4. prevUpdate' \in 0..now
  BY <1>1, <1>3
<1>5. WallEpoch(prevUpdate') = e
  BY <1>1, <1>2, <1>3 DEF ReckoningInv, SecondSeen
<1>6. stamp * Second \in Int
  OBVIOUS
<1> HIDE DEF e
<1>7. ClockTypes'
  <2>1. (e - stamp) % EpochWidth \in Nat
    BY <1>2
  <2>2. timeDifference' \in Nat
    <3>1. ((e - stamp) % EpochWidth) * Second \in Nat
      BY <2>1
    <3> QED BY <1>1, <1>3, <1>4, <3>1
  <2>3. trueAge' \in Int
    BY <1>2, <1>3, <1>6
  <2>4. trusted' \in BOOLEAN /\ synced' \in BOOLEAN
    BY <1>3 DEF ReckoningInv, ClockTypes
  <2> QED BY <1>1, <1>2, <1>3, <1>4, <2>2, <2>3, <2>4 DEF ClockTypes
<1>8. WallTicks(now)' = WallTicks(now) /\ WallTicks(prevUpdate)' = WallTicks(prevUpdate')
  BY <1>3 DEF WallTicks
<1>9. SecondSeen'
  <2>1. WallEpoch(prevUpdate)' = WallEpoch(prevUpdate')
    BY <1>3 DEF WallEpoch, WallTicks
  <2> QED BY <1>2, <1>3, <1>5, <2>1 DEF SecondSeen
<1>10. MadeInSecond'
  <2>1. trueAge' + updateEpoch' * Second = WallTicks(now)
    BY <1>2, <1>3, <1>6
  <2> QED BY <1>2, <1>3, <1>8, <2>1 DEF MadeInSecond
<1>11. ASSUME trueAge' >= 0
       PROVE  timeDifference' = trueAge' - (WallTicks(prevUpdate') - e * Second)
  <2>1. e >= stamp
    <3>1. CASE e < stamp
      <4>1. e * Second + Second <= stamp * Second
        BY <1>2, <3>1, NextMultiple
      <4> QED BY <1>2, <1>3, <1>6, <1>11, <4>1
    <3> QED BY <1>2, <3>1
  <2>2. (e - stamp) % EpochWidth = e - stamp
    BY <1>2, <2>1
  <2>3. (e - stamp) * Second = e * Second - stamp * Second
    BY <1>2, Distribute
  <2>4. WallTicks(now) - WallTicks(prevUpdate') = now - prevUpdate'
    <3>1. Boot * Second + phase \in Int
      BY <1>1
    <3> QED BY <1>1, <1>4, <3>1 DEF WallTicks
  <2>5. e * Second \in Int /\ WallTicks(prevUpdate') \in Int
    BY <1>1, <1>2, <1>4 DEF WallTicks
  <2>6. timeDifference' = (e * Second - stamp * Second) + (now - prevUpdate')
    BY <1>3, <2>2, <2>3
  <2> QED BY <1>1, <1>2, <1>3, <1>4, <1>6, <2>4, <2>5, <2>6
<1>12. Lag'
  BY <1>3, <1>8, <1>11 DEF Lag
<1> QED BY <1>7, <1>9, <1>10, <1>12 DEF ReckoningInv

(* While the clock is not set the epoch stays zero and nothing is trusted. *)
LEMMA InterpolateUnsynced ==
  ASSUME ReckoningInv, ~synced, NEW stamp \in 0..(EpochWidth - 1),
         now + NtpWait <= Horizon, now' = now + NtpWait,
         InterpolateAt(now', currentEpoch, stamp), UNCHANGED <<phase, synced>>
  PROVE  ReckoningInv'
<1> USE ConstantsKnown
<1>1. /\ now \in 0..Horizon /\ phase \in 0..(Second - 1)
      /\ prevUpdate \in 0..now /\ prevEpoch = 0 /\ currentEpoch = 0
  BY DEF ReckoningInv, ClockTypes, SecondSeen
<1>2. /\ currentEpoch' = 0 /\ prevEpoch' = 0 /\ updateEpoch' = stamp
      /\ prevUpdate' = prevUpdate
      /\ timeDifference' = ((0 - stamp) % EpochWidth) * Second + (now' - prevUpdate')
      /\ trueAge' = WallTicks(now') - stamp * Second
      /\ phase' = phase
  BY <1>1 DEF InterpolateAt, Extrapolate, FirstSeen
<1>3. ~trusted' /\ ~synced' /\ trusted' \in BOOLEAN /\ synced' \in BOOLEAN
  <2>1. trusted' = synced /\ synced' = synced
    BY Zenon DEF InterpolateAt, Extrapolate
  <2>2. synced = FALSE
    BY Zenon DEF ReckoningInv, ClockTypes
  <2> QED BY <2>1, <2>2, Zenon
<1>4. now' \in 0..Horizon /\ prevUpdate' \in 0..now'
  BY <1>1, <1>2
<1>5. timeDifference' \in Nat
  <2>1. (0 - stamp) % EpochWidth \in Nat
    OBVIOUS
  <2>2. ((0 - stamp) % EpochWidth) * Second \in Nat
    BY <2>1
  <2> QED BY <1>2, <1>4, <2>2
<1>6. trueAge' \in Int
  <2>1. WallTicks(now') \in Nat
    BY <1>1, <1>4, SecondOf
  <2> QED BY <1>2, <2>1
<1>7. ClockTypes'
  BY <1>1, <1>2, <1>3, <1>4, <1>5, <1>6 DEF ClockTypes
<1>8. SecondSeen'
  BY <1>2, <1>3, Zenon DEF SecondSeen
<1>9. MadeInSecond' /\ Lag'
  BY <1>3, Zenon DEF MadeInSecond, Lag
<1> QED BY <1>7, <1>8, <1>9 DEF ReckoningInv

(* planeInterpolation() for a stamp that is kept or new. *)
LEMMA ReportStep ==
  ASSUME ReckoningInv, NEW stamp \in 0..(EpochWidth - 1),
         InterpolateReport(stamp), UNCHANGED <<phase, synced>>
  PROVE  ReckoningInv'
  BY InterpolateSynced, InterpolateUnsynced DEF InterpolateReport

(* Time passes, or SNTP sets the clock. *)
LEMMA ReckoningKept ==
  ASSUME ReckoningInv, UNCHANGED <<phase, clocks, updateEpoch, estimate>>,
         now' \in now..Horizon, synced => synced', synced' \in BOOLEAN
  PROVE  ReckoningInv'
<1> USE ConstantsKnown
<1>1. /\ now \in 0..Horizon /\ phase \in 0..(Second - 1) /\ prevUpdate \in 0..now
      /\ UNCHANGED <<phase, currentEpoch, prevEpoch, prevUpdate, updateEpoch,
                     timeDifference, trueAge, trusted>>
  BY DEF ReckoningInv, ClockTypes, clocks, estimate
<1>2. ClockTypes'
  BY <1>1 DEF ReckoningInv, ClockTypes
<1>3. /\ WallTicks(now) \in Int /\ WallTicks(now)' \in Int
      /\ WallTicks(now) <= WallTicks(now)'
  <2>1. now' \in 0..Horizon /\ now <= now'
    BY <1>1
  <2>2. WallTicks(now) \in Int /\ WallTicks(now') \in Int
    BY <1>1, <2>1, SecondOf
  <2>3. WallTicks(now)' = WallTicks(now')
    BY <1>1 DEF WallTicks
  <2>4. WallTicks(now) <= WallTicks(now')
    BY <1>1, <2>1, TicksGrow
  <2> QED BY <2>2, <2>3, <2>4
<1>4. WallTicks(prevUpdate)' = WallTicks(prevUpdate)
  BY <1>1 DEF WallTicks
<1>5. SecondSeen'
  BY <1>1, <1>4 DEF ReckoningInv, SecondSeen, WallEpoch
<1>6. MadeInSecond'
  <2>1. updateEpoch * Second \in Int /\ trueAge \in Int
    BY DEF ReckoningInv, ClockTypes
  <2> QED BY <1>1, <1>3, <2>1 DEF ReckoningInv, MadeInSecond
<1>7. Lag'
  BY <1>1, <1>4 DEF ReckoningInv, Lag
<1> QED BY <1>2, <1>5, <1>6, <1>7 DEF ReckoningInv

LEMMA ReckoningStep == ReckoningInv /\ [ClockNext]_clockVars => ReckoningInv'
<1> SUFFICES ASSUME ReckoningInv, [ClockNext]_clockVars PROVE ReckoningInv'
  OBVIOUS
<1> USE ConstantsKnown
<1>1. now \in 0..Horizon /\ phase \in 0..(Second - 1)
  BY DEF ReckoningInv, ClockTypes
<1>2. CASE DeadReckon
  <2>1. updateEpoch \in 0..(EpochWidth - 1)
    BY DEF ReckoningInv, ClockTypes
  <2> QED BY <1>2, <2>1, ReportStep DEF DeadReckon
<1>3. CASE Report
  <2>1. WallEpoch(now) \in Boot..(Boot + Horizon + 1)
    BY <1>1, SecondOf
  <2>2. PICK stamp \in (WallEpoch(now) - MaxAge)..(WallEpoch(now) + MaxSkew) :
          InterpolateReport(stamp)
    BY <1>3 DEF Report
  <2>3. stamp \in 0..(EpochWidth - 1)
    BY <2>1
  <2> QED BY <1>3, <2>2, <2>3, ReportStep DEF Report
<1>4. CASE Sync
  <2>1. now' = now /\ synced' /\ synced' \in BOOLEAN
        /\ UNCHANGED <<phase, clocks, updateEpoch, estimate>>
    BY <1>4 DEF Sync
  <2> QED BY <1>1, <2>1, ReckoningKept
<1>5. CASE TimePasses
  <2>1. now' \in now..Horizon /\ synced' = synced
        /\ UNCHANGED <<phase, clocks, updateEpoch, estimate>>
    BY <1>1, <1>5 DEF TimePasses
  <2>2. synced \in BOOLEAN
    BY DEF ReckoningInv, ClockTypes
  <2> QED BY <2>1, <2>2, ReckoningKept
<1>6. CASE UNCHANGED clockVars
  <2>1. now' \in now..Horizon /\ synced' = synced
        /\ UNCHANGED <<phase, clocks, updateEpoch, estimate>>
    BY <1>1, <1>6 DEF clockVars, clocks, estimate
  <2>2. synced \in BOOLEAN
    BY DEF ReckoningInv, ClockTypes
  <2> QED BY <2>1, <2>2, ReckoningKept
<1> QED BY <1>2, <1>3, <1>4, <1>5, <1>6 DEF ClockNext

THEOREM ReckoningInvariant == ClockSpec => []ReckoningInv
  BY ReckoningInit, ReckoningStep, PTL DEF ClockSpec

-----------------------------------------------------------------------------
(* Where in its second prevUpdate is. *)
LEMMA Missed ==
  ASSUME ReckoningInv, trusted
  PROVE  /\ WallTicks(prevUpdate) - currentEpoch * Second \in 0..(Second - 1)
         /\ currentEpoch * Second \in Int
<1> USE ConstantsKnown
<1>1. /\ prevUpdate \in 0..Horizon /\ phase \in 0..(Second - 1)
      /\ WallEpoch(prevUpdate) = currentEpoch
  BY DEF ReckoningInv, ClockTypes, SecondSeen
<1>2. /\ WallTicks(prevUpdate) \in Nat /\ currentEpoch \in Int
      /\ currentEpoch * Second <= WallTicks(prevUpdate)
      /\ WallTicks(prevUpdate) < currentEpoch * Second + Second
  BY <1>1, SecondOf
<1> QED BY <1>2

(* Once SNTP has set the clock a report is extrapolated by its true age,    *)
(* less a second at most.                                                   *)
THEOREM LagsLessThanASecond == ClockSpec => []ExtrapolationLags
<1>1. ReckoningInv => ExtrapolationLags
  <2> SUFFICES ASSUME ReckoningInv, trusted, trueAge >= 0
               PROVE  trueAge - timeDifference \in 0..(Second - 1)
    BY DEF ExtrapolationLags
  <2>1. trueAge \in Int /\ WallTicks(prevUpdate) - currentEpoch * Second \in Int
    BY Missed, ConstantsKnown DEF ReckoningInv, ClockTypes
  <2>2. timeDifference = trueAge - (WallTicks(prevUpdate) - currentEpoch * Second)
    BY DEF ReckoningInv, Lag
  <2> HIDE DEF WallTicks
  <2> QED BY <2>1, <2>2, Missed
<1> QED BY <1>1, ReckoningInvariant, PTL

-----------------------------------------------------------------------------
(* A later extrapolation of the same report: within a second it grows with  *)
(* the clock; in a later second it is what had passed of the report at the  *)
(* start of that second, and the earlier one was made before then.          *)
LEMMA LaterExtrapolation ==
  ASSUME ReckoningInv, ReckoningInv', trusted, trusted', trueAge >= 0,
         now' = now, phase' = phase, updateEpoch' = updateEpoch,
         InterpolateAt(now, WallEpoch(now), updateEpoch)
  PROVE  timeDifference' >= timeDifference
<1> USE ConstantsKnown
<1> DEFINE e == WallEpoch(now)
           stamped == updateEpoch * Second
           seen == WallTicks(prevUpdate)
<1>1. /\ now \in 0..Horizon /\ phase \in 0..(Second - 1) /\ prevUpdate \in 0..now
      /\ prevEpoch = currentEpoch /\ currentEpoch \in Int
      /\ trueAge \in Int /\ stamped \in Int
  BY DEF ReckoningInv, ClockTypes
<1>2. currentEpoch = WallEpoch(prevUpdate)
  BY DEF ReckoningInv, SecondSeen
<1>3. e \in Int /\ WallTicks(now) \in Int /\ seen \in Int /\ currentEpoch <= e
  BY <1>1, <1>2, SecondOf, SecondsGrow
<1>4. /\ currentEpoch' = e /\ trueAge' = WallTicks(now) - stamped
      /\ prevUpdate' = IF currentEpoch # e THEN now ELSE prevUpdate
  BY <1>1 DEF InterpolateAt, Extrapolate, FirstSeen
<1>5. WallTicks(prevUpdate)' = WallTicks(prevUpdate')
  BY DEF WallTicks
<1>6. /\ trueAge + stamped <= WallTicks(now)
      /\ trueAge + stamped < currentEpoch * Second + Second
  BY DEF ReckoningInv, MadeInSecond
<1>7. /\ timeDifference = trueAge - (seen - currentEpoch * Second)
      /\ seen - currentEpoch * Second >= 0 /\ currentEpoch * Second \in Int
  BY Missed DEF ReckoningInv, Lag
<1>8. trueAge' \in Int /\ trueAge' >= trueAge
  BY <1>1, <1>3, <1>4, <1>6
<1>9. timeDifference' = trueAge' - (WallTicks(prevUpdate') - e * Second)
  BY <1>1, <1>4, <1>5, <1>8 DEF ReckoningInv, Lag
<1>10. e * Second \in Int
  BY <1>3
<1> HIDE DEF e, stamped, seen
<1>11. CASE currentEpoch = e
  <2>1. WallTicks(prevUpdate') = seen
    BY <1>4, <1>11 DEF seen
  <2>2. timeDifference' = trueAge' - (seen - currentEpoch * Second)
    BY <1>9, <1>11, <2>1
  <2> DEFINE missed == seen - currentEpoch * Second
  <2>3. missed \in Int /\ timeDifference' = trueAge' - missed
        /\ timeDifference = trueAge - missed
    BY <1>3, <1>7, <2>2
  <2> HIDE DEF missed
  <2>4. \A x, y, m \in Int : y >= x => y - m >= x - m
    OBVIOUS
  <2>5. trueAge' - missed >= trueAge - missed
    BY <1>1, <1>8, <2>3, <2>4
  <2> QED BY <2>3, <2>5, Zenon
<1>12. CASE currentEpoch # e
  <2>1. currentEpoch * Second + Second <= e * Second
    BY <1>1, <1>3, <1>12, NextMultiple
  <2>2. timeDifference' = e * Second - stamped
    BY <1>1, <1>3, <1>4, <1>9, <1>10, <1>12
  <2> QED BY <1>1, <1>3, <1>6, <1>7, <1>10, <2>1, <2>2
<1> QED BY <1>11, <1>12

(* While a report stays, its extrapolation never moves the plane back.      *)
THEOREM NeverMovedBack == ClockSpec => NeverBackward
<1> DEFINE Kept == trusted /\ trusted' /\ trueAge >= 0 /\ updateEpoch' = updateEpoch
                     => timeDifference' >= timeDifference
<1>1. ASSUME ReckoningInv, ReckoningInv', [ClockNext]_clockVars PROVE [Kept]_clockVars
  <2> SUFFICES ASSUME ClockNext, trusted, trusted', trueAge >= 0, updateEpoch' = updateEpoch
               PROVE  timeDifference' >= timeDifference
    BY <1>1
  <2>1. synced /\ timeDifference \in Int
    BY <1>1, ConstantsKnown DEF ReckoningInv, SecondSeen, ClockTypes
  <2>2. ASSUME NEW stamp, InterpolateReport(stamp), phase' = phase
        PROVE  timeDifference' >= timeDifference
    <3>1. InterpolateAt(now, WallEpoch(now), stamp) /\ now' = now
      BY <2>1, <2>2 DEF InterpolateReport
    <3>2. updateEpoch' = stamp
      BY <3>1 DEF InterpolateAt, Extrapolate
    <3> QED BY <1>1, <2>2, <3>1, <3>2, LaterExtrapolation
  <2>3. CASE DeadReckon
    BY <2>2, <2>3 DEF DeadReckon
  <2>4. CASE Report
    BY <2>2, <2>4 DEF Report
  <2>5. CASE Sync \/ TimePasses
    <3>1. timeDifference' = timeDifference
      BY <2>5 DEF Sync, TimePasses, estimate
    <3> QED BY <2>1, <3>1
  <2> QED BY <2>3, <2>4, <2>5 DEF ClockNext
<1> QED BY <1>1, ReckoningInvariant, PTL DEF ClockSpec, NeverBackward

(* The types of the variables *)
THEOREM ReckoningTypes == ClockSpec => []ClockTypes
<1>1. ReckoningInv => ClockTypes
  BY DEF ReckoningInv
<1> QED BY <1>1, ReckoningInvariant, PTL
=============================================================================
