-------------------------- MODULE PushServerProofs --------------------------
(***************************************************************************)
(* What is proved about PushServer: that a message of a web socket never   *)
(* refers to a buffer that has been deleted, as long as the counter of no  *)
(* buffer has lost an update; that a broadcast reaches the clients it was  *)
(* promised to; that what the peer sends is handed on in order; that the   *)
(* events of a source go out whole and in turn, and are not dropped        *)
(* without a reason; and that a message of a web socket stays in its queue *)
(* until all of it has arrived.                                            *)
(***************************************************************************)
EXTENDS PushServer, SequenceTheorems, FiniteSetTheorems, WellFoundedInduction, TLAPS

-----------------------------------------------------------------------------
(* Lists *)

(* A set of numbers has a least one. *)
LEMMA Smallest ==
  ASSUME NEW S \in SUBSET Nat, S # {}
  PROVE  Min(S) \in S /\ \A y \in S : Min(S) <= y
<1> DEFINE R == OpToRel(<, Nat)
<1>1. IsWellFoundedOn(R, Nat)
  BY NatLessThanWellFounded, Zenon
<1>2. PICK x \in S : \A y \in S : <<y, x>> \notin R
  <2> HIDE DEF R
  <2> QED BY <1>1, WFMin
<1>3. \A y \in S : ~(y < x)
  BY <1>2 DEF OpToRel
<1>4. \A y \in S : x <= y
  BY <1>3
<1> QED BY <1>4 DEF Min

LEMMA Joined ==
  ASSUME NEW X, NEW s \in Seq(X), NEW t \in Seq(X)
  PROVE  /\ s \o t \in Seq(X) /\ Len(s \o t) = Len(s) + Len(t)
         /\ \A i \in 1..Len(s) : (s \o t)[i] = s[i]
         /\ \A i \in 1..Len(t) : (s \o t)[Len(s) + i] = t[i]
  OBVIOUS

(* What is taken out at a position leaves the rest of the list in order. *)
LEMMA Without ==
  ASSUME NEW X, NEW list \in Seq(X), NEW n \in 1..Len(list)
  PROVE  /\ RemoveAt(list, n) \in Seq(X)
         /\ \A i \in DOMAIN list : i # n => \E k \in DOMAIN RemoveAt(list, n) : RemoveAt(list, n)[k] = list[i]
         /\ \A k \in DOMAIN RemoveAt(list, n) : \E i \in DOMAIN list : RemoveAt(list, n)[k] = list[i]
         /\ Len(RemoveAt(list, n)) = Len(list) - 1
         /\ \A i \in 1..(n - 1) : RemoveAt(list, n)[i] = list[i]
         /\ \A i \in n..(Len(list) - 1) : RemoveAt(list, n)[i] = list[i + 1]
<1> DEFINE front == SubSeq(list, 1, n - 1)
           back == SubSeq(list, n + 1, Len(list))
<1>1. /\ front \in Seq(X) /\ Len(front) = n - 1 /\ \A i \in 1..(n - 1) : front[i] = list[i]
      /\ back \in Seq(X) /\ Len(back) = Len(list) - n /\ \A i \in 1..(Len(list) - n) : back[i] = list[n + i]
  OBVIOUS
<1> HIDE DEF front, back
<1>2. /\ front \o back \in Seq(X) /\ Len(front \o back) = Len(list) - 1
      /\ \A i \in 1..(n - 1) : (front \o back)[i] = list[i]
      /\ \A i \in n..(Len(list) - 1) : (front \o back)[i] = list[i + 1]
  <2>1. /\ front \o back \in Seq(X) /\ Len(front \o back) = Len(front) + Len(back)
        /\ \A i \in 1..Len(front) : (front \o back)[i] = front[i]
        /\ \A i \in 1..Len(back) : (front \o back)[Len(front) + i] = back[i]
    <3>1. front \in Seq(X) /\ back \in Seq(X)
      BY <1>1
    <3> QED BY <3>1, Joined
  <2>2. ASSUME NEW i \in n..(Len(list) - 1) PROVE (front \o back)[i] = list[i + 1]
    <3>1. i - (n - 1) \in 1..(Len(list) - n) /\ n + (i - (n - 1)) = i + 1 /\ (n - 1) + (i - (n - 1)) = i
      OBVIOUS
    <3>2. (front \o back)[i] = back[i - (n - 1)]
      BY <1>1, <2>1, <3>1
    <3>3. back[i - (n - 1)] = list[n + (i - (n - 1))]
      BY <1>1, <3>1
    <3> QED BY <3>1, <3>2, <3>3
  <2>3. \A i \in 1..(n - 1) : (front \o back)[i] = list[i]
    BY <1>1, <2>1
  <2>4. Len(front \o back) = Len(list) - 1
    BY <1>1, <2>1
  <2> QED BY <2>1, <2>2, <2>3, <2>4
<1>3. RemoveAt(list, n) = front \o back
  BY DEF RemoveAt, front, back
<1> DEFINE both == front \o back
<1> HIDE DEF both
<1>4. ASSUME NEW i \in DOMAIN list, i # n PROVE \E k \in DOMAIN both : both[k] = list[i]
  <2>1. CASE i < n
    <3>1. i \in 1..(n - 1) /\ i \in 1..(Len(list) - 1)
      BY <2>1
    <3>2. both[i] = list[i] /\ i \in DOMAIN both
      BY <1>2, <3>1 DEF both
    <3> QED BY <3>2
  <2>2. CASE i > n
    <3>1. i - 1 \in n..(Len(list) - 1) /\ (i - 1) + 1 = i /\ i - 1 \in 1..(Len(list) - 1)
      BY <2>2
    <3>2. both[i - 1] = list[i] /\ i - 1 \in DOMAIN both
      BY <1>2, <3>1 DEF both
    <3> QED BY <3>2
  <2> QED BY <1>4, <2>1, <2>2
<1>5. ASSUME NEW k \in DOMAIN both PROVE \E i \in DOMAIN list : both[k] = list[i]
  <2>1. k \in 1..(n - 1) \/ k \in n..(Len(list) - 1)
    <3>1. k \in 1..(Len(list) - 1)
      BY <1>2 DEF both
    <3> QED BY <3>1
  <2>2. CASE k \in 1..(n - 1)
    <3>1. k \in 1..Len(list) /\ both[k] = list[k]
      BY <1>2, <2>2 DEF both
    <3> QED BY <3>1
  <2>3. CASE k \in n..(Len(list) - 1)
    <3>1. k + 1 \in 1..Len(list)
      BY <2>3
    <3>2. both[k] = list[k + 1]
      BY <1>2, <2>3 DEF both
    <3> QED BY <3>1, <3>2
  <2> QED BY <2>1, <2>2, <2>3
<1> QED BY <1>2, <1>3, <1>4, <1>5 DEF both

Distinct(list) == \A i, j \in DOMAIN list : list[i] = list[j] => i = j

LEMMA DistinctWithout ==
  ASSUME NEW X, NEW list \in Seq(X), Distinct(list), NEW n \in 1..Len(list)
  PROVE  Distinct(RemoveAt(list, n))
<1> DEFINE r == RemoveAt(list, n)
           at(k) == IF k < n THEN k ELSE k + 1
<1>1. /\ r \in Seq(X) /\ Len(r) = Len(list) - 1
      /\ \A i \in 1..(n - 1) : r[i] = list[i]
      /\ \A i \in n..(Len(list) - 1) : r[i] = list[i + 1]
  BY Without
<1> HIDE DEF r
<1>2. ASSUME NEW k \in DOMAIN r PROVE k \in Int /\ at(k) \in DOMAIN list /\ r[k] = list[at(k)]
  <2>1. k \in 1..(Len(list) - 1) /\ Len(list) \in Nat
    BY <1>1
  <2>2. CASE k < n
    BY <1>1, <2>1, <2>2
  <2>3. CASE ~(k < n)
    <3>1. k \in n..(Len(list) - 1) /\ at(k) = k + 1
      BY <2>1, <2>3
    <3> QED BY <1>1, <2>1, <3>1
  <2> QED BY <2>2, <2>3
<1>3. ASSUME NEW i \in DOMAIN r, NEW j \in DOMAIN r, r[i] = r[j] PROVE i = j
  <2>1. at(i) = at(j)
    <3> HIDE DEF at
    <3> QED BY <1>2, <1>3 DEF Distinct
  <2> QED BY <1>2, <2>1
<1>4. Distinct(r)
  BY <1>3 DEF Distinct
<1> QED BY <1>4 DEF r

(* remove() and remove_first() take one element at most, and only one that *)
(* is to go.                                                               *)
LEMMA RemovedFirst ==
  ASSUME NEW X, NEW list \in Seq(X), NEW those
  PROVE  /\ RemoveFirstIf(list, those) \in Seq(X)
         /\ \A i \in DOMAIN list : list[i] \notin those =>
              \E k \in DOMAIN RemoveFirstIf(list, those) : RemoveFirstIf(list, those)[k] = list[i]
         /\ \A k \in DOMAIN RemoveFirstIf(list, those) :
              \E i \in DOMAIN list : RemoveFirstIf(list, those)[k] = list[i]
         /\ Distinct(list) => Distinct(RemoveFirstIf(list, those))
<1> DEFINE I == {i \in 1..Len(list) : list[i] \in those}
<1>1. CASE I = {}
  BY <1>1 DEF RemoveFirstIf, RemoveFirstMatch
<1>2. CASE I # {}
  <2>1. RemoveFirstIf(list, those) = RemoveAt(list, Min(I))
    BY <1>2 DEF RemoveFirstIf, RemoveFirstMatch, SelectInSeq
  <2>2. Min(I) \in 1..Len(list) /\ list[Min(I)] \in those
    <3>1. I \in SUBSET Nat
      OBVIOUS
    <3>2. Min(I) \in I
      <4> HIDE DEF I
      <4> QED BY <1>2, <3>1, Smallest
    <3> QED BY <3>2
  <2> HIDE DEF I
  <2>3. PICK n \in 1..Len(list) : n = Min(I)
    BY <2>2
  <2>4. /\ RemoveAt(list, n) \in Seq(X)
        /\ \A i \in DOMAIN list : i # n => \E k \in DOMAIN RemoveAt(list, n) : RemoveAt(list, n)[k] = list[i]
        /\ \A k \in DOMAIN RemoveAt(list, n) : \E i \in DOMAIN list : RemoveAt(list, n)[k] = list[i]
        /\ Distinct(list) => Distinct(RemoveAt(list, n))
    BY Without, DistinctWithout
  <2> QED BY <2>1, <2>2, <2>3, <2>4
<1> QED BY <1>1, <1>2

LEMMA TakenOut ==
  ASSUME NEW X, NEW list \in Seq(X), NEW x
  PROVE  /\ Taken(list, x) \in Seq(X)
         /\ \A i \in DOMAIN list : list[i] # x => \E k \in DOMAIN Taken(list, x) : Taken(list, x)[k] = list[i]
<1> DEFINE I == {i \in 1..Len(list) : list[i] = x}
<1>1. CASE I = {}
  BY <1>1 DEF Taken, RemoveFirst
<1>2. CASE I # {}
  <2>1. Taken(list, x) = RemoveAt(list, Min(I))
    BY <1>2 DEF Taken, RemoveFirst, SelectInSeq
  <2>2. Min(I) \in 1..Len(list) /\ list[Min(I)] = x
    <3>1. I \in SUBSET Nat
      OBVIOUS
    <3>2. Min(I) \in I
      <4> HIDE DEF I
      <4> QED BY <1>2, <3>1, Smallest
    <3> QED BY <3>2
  <2> HIDE DEF I
  <2>3. PICK n \in 1..Len(list) : n = Min(I)
    BY <2>2
  <2>4. /\ RemoveAt(list, n) \in Seq(X)
        /\ \A i \in DOMAIN list : i # n => \E k \in DOMAIN RemoveAt(list, n) : RemoveAt(list, n)[k] = list[i]
    BY Without
  <2> QED BY <2>1, <2>2, <2>3, <2>4
<1> QED BY <1>1, <1>2

-----------------------------------------------------------------------------
(* How often a buffer occurs in a list of messages, or of what is to count *)

PlacesOf(s, b) == {i \in DOMAIN s : s[i].buffer = b}
Times(s, b) == Cardinality(PlacesOf(s, b))

LEMMA TimesIsNat ==
  ASSUME NEW X, NEW s \in Seq(X), NEW b
  PROVE  IsFiniteSet(PlacesOf(s, b)) /\ Times(s, b) \in Nat
<1>1. IsFiniteSet(1..Len(s))
  BY FS_Interval
<1>2. PlacesOf(s, b) \in SUBSET (1..Len(s))
  BY DEF PlacesOf
<1>3. IsFiniteSet(PlacesOf(s, b))
  <2> DEFINE P == PlacesOf(s, b)
             D == 1..Len(s)
  <2> HIDE DEF P, D
  <2> SUFFICES IsFiniteSet(P)
    BY DEF P
  <2> QED BY <1>1, <1>2, FS_Subset DEF P, D
<1> QED BY <1>3, FS_CardinalityType DEF Times

LEMMA NoTimes ==
  ASSUME NEW X, NEW s \in Seq(X), NEW b
  PROVE  Times(s, b) = 0 <=> \A i \in DOMAIN s : s[i].buffer # b
<1>1. IsFiniteSet(PlacesOf(s, b))
  BY TimesIsNat
<1>2. Times(s, b) = 0 <=> PlacesOf(s, b) = {}
  BY <1>1, FS_EmptySet DEF Times
<1> QED BY <1>2 DEF PlacesOf

LEMMA OneTime ==
  ASSUME NEW x, NEW b
  PROVE  Times(<<x>>, b) = IF x.buffer = b THEN 1 ELSE 0
<1>1. CASE x.buffer = b
  <2>1. PlacesOf(<<x>>, b) = {1}
    BY <1>1 DEF PlacesOf
  <2> QED BY <1>1, <2>1, FS_Singleton DEF Times
<1>2. CASE x.buffer # b
  <2>1. PlacesOf(<<x>>, b) = {}
    BY <1>2 DEF PlacesOf
  <2> QED BY <1>2, <2>1, FS_EmptySet DEF Times
<1> QED BY <1>1, <1>2

(* What follows is moved up, and that is all. *)
LEMMA Shifted ==
  ASSUME NEW S \in SUBSET Nat, IsFiniteSet(S), NEW n \in Nat
  PROVE  IsFiniteSet({n + i : i \in S}) /\ Cardinality({n + i : i \in S}) = Cardinality(S)
<1> DEFINE T == {n + i : i \in S}
           f == [i \in S |-> n + i]
<1>1. f \in [S -> T] /\ \A i \in S : f[i] = n + i
  OBVIOUS
<1>2. \A i, j \in S : f[i] = f[j] => i = j
  BY <1>1
<1>3. \A x \in T : \E i \in S : f[i] = x
  BY <1>1
<1> HIDE DEF f, T
<1>4. f \in Bijection(S, T)
  BY <1>1, <1>2, <1>3 DEF Bijection, Injection, Surjection, IsInjective
<1>5. ExistsBijection(S, T)
  BY <1>4 DEF ExistsBijection
<1>6. IsFiniteSet(T) /\ Cardinality(T) = Cardinality(S)
  BY <1>5, FS_Bijection
<1> QED BY <1>6 DEF T

LEMMA TimesJoined ==
  ASSUME NEW X, NEW s \in Seq(X), NEW t \in Seq(X), NEW b
  PROVE  Times(s \o t, b) = Times(s, b) + Times(t, b)
<1> DEFINE n == Len(s)
           up == {n + i : i \in PlacesOf(t, b)}
           j == s \o t
<1>1. /\ j \in Seq(X) /\ n \in Nat /\ Len(j) = n + Len(t) /\ Len(t) \in Nat
      /\ \A i \in 1..n : j[i] = s[i]
      /\ \A i \in 1..Len(t) : j[n + i] = t[i]
  BY Joined
<1> HIDE DEF j, n
<1>2. PlacesOf(s, b) \subseteq 1..n /\ PlacesOf(t, b) \in SUBSET Nat
  BY DEF PlacesOf, n
<1>3. PlacesOf(j, b) = PlacesOf(s, b) \cup up
  <2>1. ASSUME NEW i \in PlacesOf(j, b) PROVE i \in PlacesOf(s, b) \cup up
    <3>1. i \in 1..(n + Len(t)) /\ j[i].buffer = b
      BY <1>1 DEF PlacesOf
    <3>2. CASE i <= n
      <4>1. i \in 1..n
        BY <1>1, <3>1, <3>2
      <4> QED BY <1>1, <3>1, <4>1 DEF PlacesOf, n
    <3>3. CASE i > n
      <4>1. i - n \in 1..Len(t) /\ n + (i - n) = i
        BY <1>1, <3>1, <3>3
      <4>2. i - n \in PlacesOf(t, b)
        BY <1>1, <3>1, <4>1 DEF PlacesOf
      <4> QED BY <4>1, <4>2
    <3> QED BY <1>1, <3>1, <3>2, <3>3
  <2>2. ASSUME NEW i \in PlacesOf(s, b) PROVE i \in PlacesOf(j, b)
    <3>1. i \in 1..n /\ s[i].buffer = b
      BY DEF PlacesOf, n
    <3>2. i \in 1..Len(j) /\ j[i].buffer = b
      BY <1>1, <3>1
    <3> QED BY <1>1, <3>2 DEF PlacesOf
  <2>3. ASSUME NEW k \in PlacesOf(t, b) PROVE n + k \in PlacesOf(j, b)
    <3>1. k \in 1..Len(t) /\ t[k].buffer = b
      BY DEF PlacesOf
    <3>2. n + k \in 1..Len(j) /\ j[n + k].buffer = b
      BY <1>1, <3>1
    <3> QED BY <1>1, <3>2 DEF PlacesOf
  <2> QED BY <2>1, <2>2, <2>3
<1>4. IsFiniteSet(PlacesOf(s, b)) /\ IsFiniteSet(PlacesOf(t, b)) /\ Times(s, b) \in Nat /\ Times(t, b) \in Nat
  BY TimesIsNat
<1>5. IsFiniteSet(up) /\ Cardinality(up) = Times(t, b)
  BY <1>1, <1>2, <1>4, Shifted DEF Times
<1>6. PlacesOf(s, b) \cap up = {}
  <2>1. ASSUME NEW i \in PlacesOf(t, b) PROVE n + i \notin 1..n
    <3>1. i \in 1..Len(t)
      BY DEF PlacesOf
    <3> QED BY <1>1, <3>1
  <2> QED BY <1>2, <2>1
<1> HIDE DEF up
<1>7. Cardinality(PlacesOf(s, b) \cup up) = Cardinality(PlacesOf(s, b)) + Cardinality(up) - 0
  BY <1>4, <1>5, <1>6, FS_Union, FS_EmptySet
<1>8. Times(j, b) = Times(s, b) + Times(t, b)
  BY <1>3, <1>4, <1>5, <1>7 DEF Times
<1> QED BY <1>8 DEF j

(* Only the buffers count. *)
LEMMA SameTimes ==
  ASSUME NEW s, NEW t, DOMAIN s = DOMAIN t, \A i \in DOMAIN s : s[i].buffer = t[i].buffer, NEW b
  PROVE  Times(s, b) = Times(t, b)
<1>1. PlacesOf(s, b) = PlacesOf(t, b)
  BY DEF PlacesOf
<1> QED BY <1>1 DEF Times

LEMMA TailTimes ==
  ASSUME NEW X, NEW s \in Seq(X), s # <<>>, NEW b
  PROVE  Times(s, b) = (IF s[1].buffer = b THEN 1 ELSE 0) + Times(Tail(s), b)
<1>1. s = <<s[1]>> \o Tail(s) /\ Tail(s) \in Seq(X) /\ <<s[1]>> \in Seq(X)
  OBVIOUS
<1>2. Times(<<s[1]>> \o Tail(s), b) = Times(<<s[1]>>, b) + Times(Tail(s), b)
  BY <1>1, TimesJoined
<1> QED BY <1>1, <1>2, OneTime

-----------------------------------------------------------------------------
(* The socket server: what holds of it in every state *)

Message == [buffer : Nat, done : BOOLEAN]
ClientState ==
  [status : {"none", "connected", "disconnecting", "gone"}, messages : Seq(Message),
   controls : Seq({"ping", "close"})]
TaskState ==
  [pc : {"idle", "made", "locked", "texting", "made one", "clean", "cleaning", "removing", "run"},
   of : Nat, rest : Seq(Nat \ {0}), sure : BOOLEAN]
Due == [buffer : Nat, up : BOOLEAN]
CountState == [due : Seq(Due), read : Nat \cup {NotRead}]
CallState == [{"app", "tcp", "join"} -> Nat]

ServerTypes ==
  /\ clients \in Seq(1..Ids) /\ client \in [1..Ids -> ClientState]
  /\ bufferList \in Seq(Nat \ {0})
  /\ task \in [Tasks -> TaskState] /\ calls \in CallState
  /\ task["tcp"].pc # "idle" => task["tcp"].of \in 1..Ids
  /\ counting \in [Tasks -> CountState]
  /\ \E n \in Nat : count \in [1..n -> Nat] /\ calls["app"] <= n

Kept(b) == b \in {0} \cup early \cup miscounted \cup {bufferList[k] : k \in DOMAIN bufferList}
Made == task["app"].pc \in {"made", "locked", "texting", "made one"}
Making(b) == Made /\ task["app"].of = b
MakingOne == task["app"].pc = "made one"
Cleans(t) == task[t].pc \in {"cleaning", "removing"}

(* The messages that refer to a buffer, in all the queues, and with those *)
(* that are still to be counted, everything that does                      *)
Held(b) == {p \in (1..Ids) \X Nat : p[2] \in PlacesOf(client[p[1]].messages, b)}
Uses(b) == Cardinality(Held(b)) + Times(counting["app"].due, b) + Times(counting["tcp"].due, b)

(* A buffer that is in use can be counted in, and is in the list. *)
UsedKept == \A b \in Nat \ {0} : Uses(b) # 0 => Kept(b) /\ b \in DOMAIN count

(* The lock is held by the task that goes through the buffers. *)
Guarded == \A t \in Tasks : Cleans(t) <=> guard = t

(* The buffer that is about to be removed was looked at without the lock   *)
(* that messages would need, and yet none has come to refer to it since.   *)
Doomed(t) == Head(task[t].rest)
Removable ==
  \A t \in Tasks : task[t].pc = "removing" =>
    /\ task[t].rest # <<>>
    /\ Doomed(t) \in early \cup miscounted \/ (Uses(Doomed(t)) = 0 /\ ~Making(Doomed(t)))

(* textAll() has a buffer in the list until it has locked it and after. *)
MadeKept == Made => task["app"].of \in DOMAIN count /\ Kept(task["app"].of)

(* What is left to count: the message that textAll() is making, or others  *)
(* that are deleted.                                                       *)
AllDown(due) == \A i \in DOMAIN due : ~due[i].up
Dues ==
  /\ MakingOne => counting["app"].due \in {<<>>, Up(task["app"].of)}
  /\ ~MakingOne => AllDown(counting["app"].due)
  /\ AllDown(counting["tcp"].due)
  /\ task["tcp"].pc # "idle" => Counted("tcp")

(* A counter that was read is still what was read, and nobody else has it, *)
(* unless it has been miscounted.                                          *)
Reads ==
  \A t \in Tasks : counting[t].read # NotRead =>
    /\ ~Counted(t) /\ counting[t].due[1].buffer # 0
    /\ \/ counting[t].due[1].buffer \in miscounted
       \/ /\ counting[t].read = count[counting[t].due[1].buffer]
          /\ \A u \in Tasks : u # t => ~At(u, counting[t].due[1].buffer)

(* A counter is what refers to the buffer, unless it was miscounted, but   *)
(* for the message that textAll() is making: that is no use before it has  *)
(* been counted, and is in no queue after.                                 *)
InHand(b) == IF Making(b) /\ MakingOne THEN IF Counted("app") THEN 1 ELSE -1 ELSE 0
Exact ==
  /\ \A b \in Nat \ {0} : IsFiniteSet(Held(b))
  /\ \A b \in DOMAIN count : b \notin miscounted => count[b] = Uses(b) + InHand(b)

(* A client that a broadcast still has to come to has room for it. *)
Looping == task["app"].pc \in {"texting", "made one"}
Awaits(id) ==
  Made /\ task["app"].sure /\ (Looping => \E i \in DOMAIN task["app"].rest : task["app"].rest[i] = id)
Reached ==
  /\ \A id \in 1..Ids :
       /\ Connected(id) => InList(id)
       /\ client[id].status = "none" => ~InList(id) /\ client[id].messages = <<>>
       /\ Awaits(id) /\ Connected(id) => Len(client[id].messages) < ClientQueueLimit
  /\ Distinct(clients)
  /\ Looping => Distinct(task["app"].rest) /\ \A i \in DOMAIN task["app"].rest : task["app"].rest[i] \in 1..Ids
  /\ MakingOne => task["app"].rest # <<>>

ServerInv ==
  ServerTypes /\ UsedKept /\ Guarded /\ Removable /\ MadeKept /\ Dues /\ Reads /\ Exact /\ Reached

LEMMA UsesIsNat ==
  ASSUME ServerTypes, Exact, NEW b \in Nat \ {0}
  PROVE  /\ Uses(b) \in Nat /\ Cardinality(Held(b)) \in Nat
         /\ \A t \in Tasks : Times(counting[t].due, b) \in Nat /\ (Uses(b) = 0 => Times(counting[t].due, b) = 0)
<1>1. Cardinality(Held(b)) \in Nat
  BY FS_CardinalityType DEF Exact
<1>2. \A t \in Tasks : Times(counting[t].due, b) \in Nat
  BY TimesIsNat DEF ServerTypes, CountState
<1> HIDE DEF Times
<1> QED BY <1>1, <1>2 DEF Uses, Tasks

LEMMA ServerStarts ==
  ASSUME NEW left \in CallState, ServerStart(left)
  PROVE  ServerInv
<1>1. NoClient \in ClientState /\ Idle \in TaskState /\ [due |-> <<>>, read |-> NotRead] \in CountState
  BY DEF NoClient, Idle, ClientState, TaskState, CountState
<1>2. ServerTypes
  <2>1. count \in [1..left["app"] -> Nat] /\ calls["app"] <= left["app"] /\ left["app"] \in Nat
    BY DEF ServerStart, CallState
  <2>2. counting \in [Tasks -> CountState] /\ task \in [Tasks -> TaskState] /\ client \in [1..Ids -> ClientState]
    BY <1>1 DEF ServerStart
  <2>3. clients \in Seq(1..Ids) /\ bufferList \in Seq(Nat \ {0}) /\ calls \in CallState
    BY DEF ServerStart
  <2>4. task["tcp"].pc = "idle"
    BY DEF ServerStart, Tasks, Idle
  <2> QED BY <2>1, <2>2, <2>3, <2>4 DEF ServerTypes
<1>3. /\ \A id \in 1..Ids : client[id].status = "none" /\ client[id].messages = <<>>
      /\ \A t \in Tasks : task[t].pc = "idle" /\ counting[t].due = <<>> /\ counting[t].read = NotRead
      /\ guard = "none" /\ clients = <<>>
  BY DEF ServerStart, NoClient, Idle
<1>4. ~Made /\ ~MakingOne /\ ~Looping
  BY <1>3 DEF Made, MakingOne, Looping, Tasks
<1>5. ASSUME NEW b \in Nat PROVE Held(b) = {} /\ IsFiniteSet(Held(b)) /\ Uses(b) = 0
  <2>1. Held(b) = {}
    BY <1>3 DEF Held, PlacesOf
  <2>2. \A t \in Tasks : Times(counting[t].due, b) = 0
    <3>1. Times(<<>>, b) = 0
      BY FS_EmptySet DEF Times, PlacesOf
    <3> QED BY <1>3, <3>1
  <2> QED BY <2>1, <2>2, FS_EmptySet DEF Uses, Tasks
<1>6. Guarded /\ Removable /\ MadeKept
  BY <1>3, <1>4 DEF Guarded, Cleans, Removable, MadeKept, Tasks
<1>7. UsedKept
  BY <1>5 DEF UsedKept
<1>8. Dues
  BY <1>3, <1>4 DEF Dues, Tasks, AllDown
<1>9. Reads
  BY <1>3 DEF Reads
<1>10. Exact
  <2>1. ASSUME NEW b \in DOMAIN count PROVE count[b] = Uses(b) + InHand(b)
    <3>1. b \in Nat /\ count[b] = 0
      BY DEF ServerStart, CallState
    <3>2. InHand(b) = 0
      BY <1>4 DEF InHand
    <3> QED BY <1>5, <3>1, <3>2
  <2> QED BY <1>5, <2>1 DEF Exact
<1>11. Reached
  BY <1>3, <1>4 DEF Reached, Connected, InList, Awaits, Distinct
<1> QED BY <1>2, <1>6, <1>7, <1>8, <1>9, <1>10, <1>11 DEF ServerInv

(* When the queue of one client changes, what refers to a buffer changes   *)
(* by what was there and what is there now.                                *)
LEMMA HeldMoves ==
  ASSUME NEW id \in 1..Ids, NEW c \in ClientState, client \in [1..Ids -> ClientState],
         client' = [client EXCEPT ![id] = c], NEW b, IsFiniteSet(Held(b))
  PROVE  /\ IsFiniteSet(Held(b)')
         /\ Cardinality(Held(b)') + Times(client[id].messages, b) = Cardinality(Held(b)) + Times(c.messages, b)
<1> DEFINE old == client[id].messages
           rest == {p \in Held(b) : p[1] # id}
           there(s) == {<<id, i>> : i \in PlacesOf(s, b)}
<1>1. old \in Seq(Message) /\ c.messages \in Seq(Message)
  BY DEF ClientState
<1>2. /\ \A o \in 1..Ids : o # id => client'[o] = client[o]
      /\ client'[id] = c
  OBVIOUS
<1>3. IsFiniteSet(rest)
  <2>1. rest \in SUBSET Held(b)
    OBVIOUS
  <2> HIDE DEF rest
  <2> QED BY <2>1, FS_Subset
<1>4. ASSUME NEW s \in Seq(Message)
      PROVE  /\ IsFiniteSet(rest \cup there(s))
             /\ Cardinality(rest \cup there(s)) = Cardinality(rest) + Times(s, b)
  <2> DEFINE P == PlacesOf(s, b)
             T == there(s)
             f == [i \in P |-> <<id, i>>]
  <2>1. f \in [P -> T] /\ \A i \in P : f[i] = <<id, i>>
    OBVIOUS
  <2>2. \A i, j \in P : f[i] = f[j] => i = j
    BY <2>1
  <2>3. \A x \in T : \E i \in P : f[i] = x
    BY <2>1
  <2>4. IsFiniteSet(P) /\ Cardinality(P) = Times(s, b)
    BY TimesIsNat DEF Times
  <2>5. rest \cap T = {}
    OBVIOUS
  <2> HIDE DEF f, T, P
  <2>6. f \in Bijection(P, T)
    BY <2>1, <2>2, <2>3 DEF Bijection, Injection, Surjection, IsInjective
  <2>7. ExistsBijection(P, T)
    BY <2>6 DEF ExistsBijection
  <2>8. IsFiniteSet(T) /\ Cardinality(T) = Times(s, b)
    BY <2>4, <2>7, FS_Bijection
  <2> HIDE DEF rest
  <2>9. IsFiniteSet(rest \cup T) /\ Cardinality(rest \cup T) = Cardinality(rest) + Cardinality(T) - 0
    BY <1>3, <2>5, <2>8, FS_Union, FS_EmptySet
  <2>10. Cardinality(rest) \in Nat /\ Cardinality(T) \in Nat
    BY <1>3, <2>8, FS_CardinalityType
  <2>11. Cardinality(rest \cup T) = Cardinality(rest) + Times(s, b)
    BY <2>8, <2>9, <2>10
  <2> QED BY <2>9, <2>11 DEF T
<1>5. Held(b) = rest \cup there(old)
  <2>1. \A i \in PlacesOf(old, b) : i \in Nat
    BY <1>1 DEF PlacesOf
  <2> QED BY <2>1 DEF Held
<1>6. Held(b)' = rest \cup there(c.messages)
  <2>1. \A i \in PlacesOf(c.messages, b) : i \in Nat
    BY <1>1 DEF PlacesOf
  <2>2. ASSUME NEW p \in Held(b)' PROVE p \in rest \cup there(c.messages)
    <3>1. p \in (1..Ids) \X Nat /\ p[2] \in PlacesOf(client'[p[1]].messages, b)
      BY <2>2 DEF Held
    <3>2. CASE p[1] = id
      BY <1>2, <3>1, <3>2
    <3>3. CASE p[1] # id
      BY <1>2, <3>1, <3>3 DEF Held
    <3> QED BY <3>2, <3>3
  <2>3. ASSUME NEW p \in rest PROVE p \in Held(b)'
    BY <1>2 DEF Held
  <2>4. ASSUME NEW p \in there(c.messages) PROVE p \in Held(b)'
    BY <1>2, <2>1 DEF Held
  <2> QED BY <2>2, <2>3, <2>4
<1> HIDE DEF rest, there
<1>7. Times(old, b) \in Nat /\ Times(c.messages, b) \in Nat /\ Cardinality(rest) \in Nat
  BY <1>1, <1>3, TimesIsNat, FS_CardinalityType
<1>8. Cardinality(Held(b)) = Cardinality(rest) + Times(old, b)
  BY <1>1, <1>4, <1>5
<1>9. IsFiniteSet(Held(b)') /\ Cardinality(Held(b)') = Cardinality(rest) + Times(c.messages, b)
  <2>1. IsFiniteSet(rest \cup there(c.messages))
        /\ Cardinality(rest \cup there(c.messages)) = Cardinality(rest) + Times(c.messages, b)
    BY <1>1, <1>4
  <2> QED BY <1>6, <2>1, Zenon
<1> HIDE DEF old
<1>10. Cardinality(Held(b)') + Times(old, b) = Cardinality(Held(b)) + Times(c.messages, b)
  <2> HIDE DEF Held, Times
  <2> QED BY <1>7, <1>8, <1>9
<1> QED BY <1>9, <1>10 DEF old

-----------------------------------------------------------------------------
(* Queues of messages *)

(* _runQueue() parts the messages in two; all that are not done are left. *)
LEMMA RanKeeps ==
  ASSUME NEW ms \in Seq(Message)
  PROVE  /\ Ran(ms) \in Seq(Message) /\ Over(ms) \in Seq(Message) /\ ms = Over(ms) \o Ran(ms)
         /\ Len(Ran(ms)) <= Len(ms)
         /\ \A i \in DOMAIN ms : ~ms[i].done => \E k \in DOMAIN Ran(ms) : Ran(ms)[k] = ms[i]
<1> DEFINE kept == {i \in DOMAIN ms : ~ms[i].done} \cup {Len(ms) + 1}
           n == Min(kept)
<1>1. kept \in SUBSET (1..(Len(ms) + 1)) /\ kept # {} /\ kept \in SUBSET Nat
  OBVIOUS
<1>2. n \in 1..(Len(ms) + 1) /\ \A y \in kept : n <= y
  <2> HIDE DEF kept
  <2> QED BY <1>1, Smallest
<1>3. \A i \in DOMAIN ms : ~ms[i].done => n <= i
  BY <1>2
<1>4. Ran(ms) = SubSeq(ms, n, Len(ms)) /\ Over(ms) = SubSeq(ms, 1, n - 1)
  BY DEF Ran, Over, FirstLeft
<1> HIDE DEF kept, n
<1>5. /\ Ran(ms) \in Seq(Message) /\ Len(Ran(ms)) = Len(ms) - n + 1
      /\ \A k \in 1..(Len(ms) - n + 1) : Ran(ms)[k] = ms[n + k - 1]
  BY <1>2, <1>4
<1>6. /\ Over(ms) \in Seq(Message) /\ Len(Over(ms)) = n - 1
      /\ \A k \in 1..(n - 1) : Over(ms)[k] = ms[k]
  BY <1>2, <1>4
<1>7. ASSUME NEW i \in DOMAIN ms, ~ms[i].done PROVE \E k \in DOMAIN Ran(ms) : Ran(ms)[k] = ms[i]
  <2>1. i - n + 1 \in 1..(Len(ms) - n + 1) /\ n + (i - n + 1) - 1 = i
    BY <1>2, <1>3, <1>7
  <2> QED BY <1>5, <2>1
<1>8. ms = Over(ms) \o Ran(ms)
  <2> DEFINE a == Over(ms)
             z == Ran(ms)
  <2>1. /\ a \o z \in Seq(Message) /\ Len(a \o z) = Len(a) + Len(z)
        /\ \A i \in 1..Len(a) : (a \o z)[i] = a[i]
        /\ \A i \in 1..Len(z) : (a \o z)[Len(a) + i] = z[i]
    <3> HIDE DEF a, z
    <3>1. a \in Seq(Message) /\ z \in Seq(Message)
      BY <1>5, <1>6 DEF a, z
    <3> QED BY <3>1, Joined
  <2>2. Len(a \o z) = Len(ms)
    BY <1>2, <1>5, <1>6, <2>1
  <2>3. ASSUME NEW i \in 1..Len(ms) PROVE (a \o z)[i] = ms[i]
    <3>1. CASE i < n
      <4>1. i \in 1..(n - 1)
        BY <1>2, <3>1
      <4> QED BY <1>6, <2>1, <4>1
    <3>2. CASE ~(i < n)
      <4>1. i - n + 1 \in 1..(Len(ms) - n + 1) /\ n + (i - n + 1) - 1 = i /\ (n - 1) + (i - n + 1) = i
        BY <1>2, <3>2
      <4>2. (a \o z)[i] = z[i - n + 1]
        BY <1>5, <1>6, <2>1, <4>1
      <4>3. z[i - n + 1] = ms[n + (i - n + 1) - 1]
        BY <1>5, <4>1
      <4> QED BY <4>1, <4>2, <4>3
    <3> QED BY <3>1, <3>2
  <2> HIDE DEF a, z
  <2>4. a \o z = ms
    <3> DEFINE y == a \o z
    <3>1. y \in Seq(Message) /\ Len(y) = Len(ms) /\ \A i \in 1..Len(ms) : y[i] = ms[i]
      BY <2>1, <2>2, <2>3
    <3> HIDE DEF y
    <3>2. y = ms
      BY <3>1, SeqEqual
    <3> QED BY <3>2 DEF y
  <2> QED BY <2>4 DEF a, z
<1> QED BY <1>2, <1>5, <1>6, <1>7, <1>8

(* What is deleted is to be counted down, each buffer as often as it was   *)
(* there.                                                                  *)
LEMMA DownKeeps ==
  ASSUME NEW ms \in Seq(Message)
  PROVE  /\ Down(ms) \in Seq(Due) /\ AllDown(Down(ms))
         /\ \A b : Times(Down(ms), b) = Times(ms, b)
<1> DEFINE d == Down(ms)
           one(m) == [buffer |-> m.buffer, up |-> FALSE]
<1>1. /\ DOMAIN ms = 1..Len(ms) /\ Len(ms) \in Nat
      /\ \A i \in 1..Len(ms) : one(ms[i]) \in Due /\ one(ms[i]).buffer = ms[i].buffer /\ ~one(ms[i]).up
  <2>1. \A i \in 1..Len(ms) : ms[i] \in Message
    OBVIOUS
  <2> QED BY <2>1 DEF Message, Due
<1> HIDE DEF one
<1>2. d = [i \in 1..Len(ms) |-> one(ms[i])]
  BY <1>1 DEF Down, one
<1> HIDE DEF d
<1>3. d \in [1..Len(ms) -> Due]
  BY <1>1, <1>2
<1>4. d \in Seq(Due)
  BY <1>1, <1>3
<1>5. DOMAIN d = DOMAIN ms /\ \A i \in DOMAIN d : d[i].buffer = ms[i].buffer /\ ~d[i].up
  BY <1>1, <1>2
<1>6. ASSUME NEW b PROVE Times(d, b) = Times(ms, b)
  BY <1>5, SameTimes
<1> QED BY <1>4, <1>5, <1>6 DEF d, AllDown

LEMMA TimesParted ==
  ASSUME NEW ms \in Seq(Message), NEW b
  PROVE  Times(ms, b) = Times(Over(ms), b) + Times(Ran(ms), b)
<1>1. Ran(ms) \in Seq(Message) /\ Over(ms) \in Seq(Message) /\ ms = Over(ms) \o Ran(ms)
  BY RanKeeps
<1>2. Times(Over(ms) \o Ran(ms), b) = Times(Over(ms), b) + Times(Ran(ms), b)
  BY <1>1, TimesJoined
<1> QED BY <1>1, <1>2

(* Of client c, with a message of buffer b or none, there is d; due is     *)
(* left to count.                                                          *)
Passed(c, b, d, due) ==
  /\ d \in ClientState /\ d.status = c.status
  /\ due \in Seq(Due) /\ AllDown(due)
  /\ \A x \in Nat : Times(d.messages, x) + Times(due, x) = Times(c.messages, x) + IF x = b THEN 1 ELSE 0
  /\ c.status # "connected" => d = c
  /\ c.status = "connected" /\ Len(c.messages) < ClientQueueLimit =>
       \E k \in DOMAIN d.messages : d.messages[k].buffer = b

LEMMA AddedMessage ==
  ASSUME NEW c \in ClientState, NEW b \in Nat
  PROVE  LET add == WithMessage(c, b)
             out == Refused(c, b)
         IN  /\ add \in Seq(Message) /\ out \in Seq(Message)
             /\ c.status = "connected" =>
                  \A x \in Nat : Times(add, x) + Times(out, x) = Times(c.messages, x) + IF x = b THEN 1 ELSE 0
             /\ c.status # "connected" => \A x \in Nat : Times(out, x) = IF x = b THEN 1 ELSE 0
             /\ Len(c.messages) < ClientQueueLimit => \E i \in DOMAIN add : add[i].buffer = b /\ ~add[i].done
<1> DEFINE m == Fresh(b)
           add == WithMessage(c, b)
           out == Refused(c, b)
<1>1. c.messages \in Seq(Message) /\ m \in Message /\ m.buffer = b /\ ~m.done
  BY DEF ClientState, Message, Fresh
<1>2. Len(c.messages) \in Nat /\ ClientQueueLimit \in Nat
  BY <1>1, ServerAssumption
<1>3. /\ add = IF Len(c.messages) < ClientQueueLimit THEN Append(c.messages, m) ELSE c.messages
      /\ out = IF c.status = "connected" /\ Len(c.messages) < ClientQueueLimit THEN <<>> ELSE <<m>>
  BY DEF WithMessage, Refused, Add
<1> HIDE DEF m, add, out
<1>4. /\ Append(c.messages, m) \in Seq(Message) /\ Len(Append(c.messages, m)) = Len(c.messages) + 1
      /\ Append(c.messages, m) = c.messages \o <<m>> /\ <<m>> \in Seq(Message) /\ <<>> \in Seq(Message)
      /\ Append(c.messages, m)[Len(c.messages) + 1] = m
  BY <1>1
<1>5. ASSUME NEW x \in Nat
      PROVE  /\ Times(c.messages, x) \in Nat /\ Times(<<>>, x) = 0 /\ Times(<<m>>, x) = (IF x = b THEN 1 ELSE 0)
             /\ Times(Append(c.messages, m), x) = Times(c.messages, x) + IF x = b THEN 1 ELSE 0
  <2>1. Times(<<m>>, x) = (IF x = b THEN 1 ELSE 0)
    BY <1>1, OneTime
  <2>2. Times(c.messages \o <<m>>, x) = Times(c.messages, x) + Times(<<m>>, x)
    BY <1>1, <1>4, TimesJoined
  <2>3. Times(<<>>, x) = 0
    BY FS_EmptySet DEF Times, PlacesOf
  <2>4. Times(c.messages, x) \in Nat
    BY <1>1, TimesIsNat
  <2> QED BY <1>4, <2>1, <2>2, <2>3, <2>4
<1>6. add \in Seq(Message) /\ out \in Seq(Message)
  BY <1>1, <1>3, <1>4
<1>7. ASSUME c.status = "connected", NEW x \in Nat
      PROVE  Times(add, x) + Times(out, x) = Times(c.messages, x) + IF x = b THEN 1 ELSE 0
  <2> HIDE DEF Times
  <2>1. CASE Len(c.messages) < ClientQueueLimit
    <3>1. add = Append(c.messages, m) /\ out = <<>>
      BY <1>3, <1>7, <2>1
    <3>2. Times(out, x) = 0
      BY <1>5, <3>1, Zenon
    <3>3. Times(add, x) = Times(c.messages, x) + IF x = b THEN 1 ELSE 0
      BY <1>5, <3>1, Zenon
    <3> QED BY <1>5, <3>2, <3>3
  <2>2. CASE ~(Len(c.messages) < ClientQueueLimit)
    BY <1>3, <1>5, <1>7, <2>2
  <2> QED BY <2>1, <2>2
<1>8. ASSUME c.status # "connected", NEW x \in Nat PROVE Times(out, x) = IF x = b THEN 1 ELSE 0
  BY <1>3, <1>5, <1>8
<1>9. ASSUME Len(c.messages) < ClientQueueLimit PROVE \E i \in DOMAIN add : add[i].buffer = b /\ ~add[i].done
  <2>1. Len(c.messages) + 1 \in DOMAIN add /\ add[Len(c.messages) + 1] = m
    BY <1>2, <1>3, <1>4, <1>9
  <2> QED BY <1>1, <2>1
<1> QED BY <1>6, <1>7, <1>8, <1>9 DEF add, out

LEMMA Exchanged ==
  ASSUME NEW p \in Nat, NEW q \in Nat, NEW r \in Nat, NEW s \in Nat, NEW i \in Nat, (s + r) + q = p + i
  PROVE  r + (q + s) = p + i
  OBVIOUS

LEMMA EnqueueKeeps ==
  ASSUME NEW t \in Tasks, NEW id \in 1..Ids, client \in [1..Ids -> ClientState], NEW b \in Nat, Enqueue(t, id, b)
  PROVE  \E d \in ClientState, due \in Seq(Due) :
           /\ Passed(client[id], b, d, due)
           /\ client' = [client EXCEPT ![id] = d] /\ Counts(t, due)
<1> DEFINE c == client[id]
           add == WithMessage(c, b)
           out == Refused(c, b)
           more == Down(out)
           all == Down(out \o Over(add))
<1>1. c \in ClientState /\ c.messages \in Seq(Message)
  BY DEF ClientState
<1>2. /\ add \in Seq(Message) /\ out \in Seq(Message)
      /\ c.status = "connected" =>
           \A x \in Nat : Times(add, x) + Times(out, x) = Times(c.messages, x) + IF x = b THEN 1 ELSE 0
      /\ c.status # "connected" => \A x \in Nat : Times(out, x) = IF x = b THEN 1 ELSE 0
      /\ Len(c.messages) < ClientQueueLimit => \E i \in DOMAIN add : add[i].buffer = b /\ ~add[i].done
  BY <1>1, AddedMessage
<1>3. more \in Seq(Due) /\ AllDown(more) /\ \A x : Times(more, x) = Times(out, x)
  BY <1>2, DownKeeps
<1>4. \/ c.status # "connected" /\ client' = client /\ Counts(t, more)
      \/ c.status = "connected" /\ client' = [client EXCEPT ![id].messages = add] /\ Counts(t, more)
      \/ c.status = "connected" /\ client' = [client EXCEPT ![id].messages = Ran(add)] /\ Counts(t, all)
  BY DEF Enqueue, Connected
<1> HIDE DEF add, out, more
<1>5. /\ Ran(add) \in Seq(Message) /\ Over(add) \in Seq(Message)
      /\ \A x \in Nat : Times(add, x) = Times(Over(add), x) + Times(Ran(add), x)
      /\ \A i \in DOMAIN add : ~add[i].done => \E k \in DOMAIN Ran(add) : Ran(add)[k] = add[i]
  BY <1>2, RanKeeps, TimesParted
<1>6. all \in Seq(Due) /\ AllDown(all) /\ \A x \in Nat : Times(all, x) = Times(out, x) + Times(Over(add), x)
  <2> DEFINE o == out \o Over(add)
  <2>1. o \in Seq(Message) /\ \A x : Times(o, x) = Times(out, x) + Times(Over(add), x)
    BY <1>2, <1>5, TimesJoined
  <2> HIDE DEF o
  <2>2. Down(o) \in Seq(Due) /\ AllDown(Down(o)) /\ \A x : Times(Down(o), x) = Times(o, x)
    BY <2>1, DownKeeps
  <2> QED BY <2>1, <2>2 DEF o
<1> HIDE DEF all
<1>7. \A x \in Nat : /\ Times(add, x) \in Nat /\ Times(out, x) \in Nat /\ Times(c.messages, x) \in Nat
                     /\ Times(Over(add), x) \in Nat /\ Times(Ran(add), x) \in Nat
  BY <1>1, <1>2, <1>5, TimesIsNat
<1>8. CASE c.status # "connected" /\ client' = client /\ Counts(t, more)
  <2>1. ASSUME NEW x \in Nat
        PROVE  Times(c.messages, x) + Times(more, x) = Times(c.messages, x) + IF x = b THEN 1 ELSE 0
    BY <1>2, <1>3, <1>8
  <2>2. Passed(c, b, c, more)
    BY <1>1, <1>3, <1>8, <2>1 DEF Passed
  <2>3. client' = [client EXCEPT ![id] = c]
    BY <1>8
  <2> QED BY <1>1, <1>3, <1>8, <2>2, <2>3
<1>9. CASE c.status = "connected" /\ client' = [client EXCEPT ![id].messages = add] /\ Counts(t, more)
  <2> DEFINE d == [c EXCEPT !.messages = add]
  <2>1. d \in ClientState /\ d.status = c.status /\ d.messages = add
    BY <1>1, <1>2 DEF ClientState
  <2>2. client' = [client EXCEPT ![id] = d]
    BY <1>9
  <2> HIDE DEF d
  <2>3. ASSUME NEW x \in Nat
        PROVE  Times(d.messages, x) + Times(more, x) = Times(c.messages, x) + IF x = b THEN 1 ELSE 0
    BY <1>2, <1>3, <1>9, <2>1
  <2>4. Passed(c, b, d, more)
    BY <1>2, <1>3, <1>9, <2>1, <2>3 DEF Passed
  <2> QED BY <1>3, <1>9, <2>1, <2>2, <2>4
<1>10. CASE c.status = "connected" /\ client' = [client EXCEPT ![id].messages = Ran(add)] /\ Counts(t, all)
  <2> DEFINE d == [c EXCEPT !.messages = Ran(add)]
  <2>1. d \in ClientState /\ d.status = c.status /\ d.messages = Ran(add)
    BY <1>1, <1>5 DEF ClientState
  <2>2. client' = [client EXCEPT ![id] = d]
    BY <1>10
  <2> HIDE DEF d
  <2>3. ASSUME NEW x \in Nat
        PROVE  Times(d.messages, x) + Times(all, x) = Times(c.messages, x) + IF x = b THEN 1 ELSE 0
    <3>1. Times(add, x) + Times(out, x) = Times(c.messages, x) + IF x = b THEN 1 ELSE 0
      BY <1>2, <1>10
    <3>2. Times(d.messages, x) = Times(Ran(add), x)
      BY <2>1
    <3>3. Times(add, x) = Times(Over(add), x) + Times(Ran(add), x)
      BY <1>5, Zenon
    <3>4. Times(all, x) = Times(out, x) + Times(Over(add), x)
      BY <1>6, Zenon
    <3> HIDE DEF all
    <3>5. PICK i \in Nat : i = IF x = b THEN 1 ELSE 0
      OBVIOUS
    <3>6. Times(add, x) + Times(out, x) = Times(c.messages, x) + i
      BY <3>1, <3>5, Zenon
    <3>7. Times(Ran(add), x) + Times(all, x) = Times(c.messages, x) + i
      <4>1. /\ Times(c.messages, x) \in Nat /\ Times(out, x) \in Nat /\ Times(Ran(add), x) \in Nat
            /\ Times(Over(add), x) \in Nat /\ i \in Nat
        BY <1>7, Zenon
      <4>2. (Times(Over(add), x) + Times(Ran(add), x)) + Times(out, x) = Times(c.messages, x) + i
        BY <3>3, <3>6, Zenon
      <4>3. Times(Ran(add), x) + (Times(out, x) + Times(Over(add), x)) = Times(c.messages, x) + i
        BY <4>1, <4>2, Exchanged
      <4> QED BY <3>4, <4>3, Zenon
    <3> QED BY <3>2, <3>5, <3>7, Zenon
  <2>4. Len(c.messages) < ClientQueueLimit => \E k \in DOMAIN d.messages : d.messages[k].buffer = b
    BY <1>2, <1>5, <2>1
  <2>5. Passed(c, b, d, all)
    BY <1>6, <1>10, <2>1, <2>3, <2>4 DEF Passed
  <2> QED BY <1>6, <1>10, <2>1, <2>2, <2>5
<1> QED BY <1>4, <1>8, <1>9, <1>10

(* Of the messages of c, which are in d's queue or deleted, none is lost.  *)
Shed(c, d, due) ==
  /\ d \in ClientState /\ due \in Seq(Due) /\ AllDown(due) /\ Len(d.messages) <= Len(c.messages)
  /\ \A x \in Nat : Times(d.messages, x) + Times(due, x) = Times(c.messages, x)

LEMMA NothingShed ==
  ASSUME NEW c \in ClientState, NEW d \in ClientState, Len(d.messages) = Len(c.messages),
         \A i \in DOMAIN d.messages : d.messages[i].buffer = c.messages[i].buffer
  PROVE  Shed(c, d, <<>>)
<1>1. c.messages \in Seq(Message) /\ d.messages \in Seq(Message)
  BY DEF ClientState
<1>2. ASSUME NEW x \in Nat PROVE Times(d.messages, x) + Times(<<>>, x) = Times(c.messages, x)
  <2>1. DOMAIN d.messages = DOMAIN c.messages
    BY <1>1
  <2>2. Times(d.messages, x) = Times(c.messages, x) /\ Times(c.messages, x) \in Nat
    BY <1>1, <2>1, SameTimes, TimesIsNat
  <2>3. Times(<<>>, x) = 0
    BY FS_EmptySet DEF Times, PlacesOf
  <2> QED BY <2>2, <2>3
<1> QED BY <1>1, <1>2 DEF Shed, AllDown

LEMMA RanSheds ==
  ASSUME NEW c \in ClientState, NEW d \in ClientState, d.messages = Ran(c.messages)
  PROVE  Shed(c, d, Down(Over(c.messages)))
<1>1. c.messages \in Seq(Message)
  BY DEF ClientState
<1>2. /\ Over(c.messages) \in Seq(Message) /\ Ran(c.messages) \in Seq(Message)
      /\ Len(Ran(c.messages)) <= Len(c.messages)
      /\ \A x \in Nat : Times(c.messages, x) = Times(Over(c.messages), x) + Times(Ran(c.messages), x)
  BY <1>1, RanKeeps, TimesParted
<1> DEFINE due == Down(Over(c.messages))
<1>3. due \in Seq(Due) /\ AllDown(due) /\ \A x : Times(due, x) = Times(Over(c.messages), x)
  BY <1>2, DownKeeps
<1> HIDE DEF due
<1>4. \A x \in Nat : Times(Over(c.messages), x) \in Nat /\ Times(Ran(c.messages), x) \in Nat
  BY <1>2, TimesIsNat
<1>5. ASSUME NEW x \in Nat PROVE Times(d.messages, x) + Times(due, x) = Times(c.messages, x)
  <2> HIDE DEF Times
  <2> QED BY <1>2, <1>3, <1>4
<1>6. Shed(c, d, due)
  BY <1>2, <1>3, <1>5 DEF Shed
<1> QED BY <1>6 DEF due

(* Nothing is left to count, so that nothing has been read for it. *)
LEMMA NothingToCount ==
  ASSUME ServerTypes, Reads, NEW t \in Tasks, Counted(t)
  PROVE  counting = [counting EXCEPT ![t] = [due |-> <<>>, read |-> NotRead]] /\ counting[t].read = NotRead
<1>1. counting[t].read = NotRead /\ counting[t].due = <<>> /\ counting[t] \in CountState
  BY DEF Reads, Counted, ServerTypes
<1>2. counting[t] = [due |-> <<>>, read |-> NotRead]
  BY <1>1 DEF CountState
<1> QED BY <1>1, <1>2 DEF ServerTypes

LEMMA ControlSheds ==
  ASSUME ServerTypes, Reads, NEW t \in Tasks, Counted(t), NEW id \in 1..Ids, NEW c \in ClientState,
         NEW op \in {"ping", "close"}, EnqueueControl(t, id, c, op)
  PROVE  \E d \in ClientState, due \in Seq(Due) :
           /\ Shed(c, d, due) /\ d.status = c.status
           /\ client' = [client EXCEPT ![id] = d] /\ Counts(t, due)
<1> DEFINE cs == Append(c.controls, op)
<1>1. cs \in Seq({"ping", "close"}) /\ c.messages \in Seq(Message)
  BY DEF ClientState
<1>2. CASE /\ client' = [client EXCEPT ![id] = [c EXCEPT !.controls = Add(@, op)]]
           /\ UNCHANGED counters
  <2> DEFINE d == [c EXCEPT !.controls = cs]
  <2>1. client' = [client EXCEPT ![id] = d]
    BY <1>2 DEF Add
  <2> HIDE DEF cs
  <2>2. d \in ClientState /\ d.status = c.status /\ d.messages = c.messages
    BY <1>1 DEF ClientState
  <2> HIDE DEF d
  <2>3. Shed(c, d, <<>>)
    BY <2>2, NothingShed
  <2>4. Counts(t, <<>>)
    BY <1>2, NothingToCount DEF Counts, counters
  <2>5. <<>> \in Seq(Due)
    OBVIOUS
  <2> QED BY <2>1, <2>2, <2>3, <2>4, <2>5
<1>3. CASE /\ client' = [client EXCEPT ![id] = [c EXCEPT !.controls = Add(@, op), !.messages = Ran(@)]]
           /\ Counts(t, Down(Over(c.messages)))
  <2> DEFINE ms == Ran(c.messages)
             d == [c EXCEPT !.controls = cs, !.messages = ms]
             due == Down(Over(c.messages))
  <2>1. client' = [client EXCEPT ![id] = d]
    BY <1>3 DEF Add
  <2>2. ms \in Seq(Message)
    BY <1>1, RanKeeps
  <2> HIDE DEF cs, ms
  <2>3. d \in ClientState /\ d.status = c.status /\ d.messages = ms
    BY <1>1, <2>2 DEF ClientState
  <2> HIDE DEF d
  <2>4. Shed(c, d, due)
    BY <2>3, RanSheds DEF ms
  <2>5. due \in Seq(Due)
    BY <2>4 DEF Shed
  <2> QED BY <1>3, <2>1, <2>3, <2>4, <2>5
<1> QED BY <1>2, <1>3 DEF EnqueueControl

-----------------------------------------------------------------------------
(* The steps of the socket server: what they have in common *)

LEMMA Decreased ==
  ASSUME ServerTypes, NEW t \in {"app", "tcp", "join"}, calls[t] > 0,
         calls' = [calls EXCEPT ![t] = @ - 1]
  PROVE  calls' \in CallState /\ calls'["app"] <= calls["app"]
<1>1. calls[t] \in Nat /\ calls[t] - 1 \in Nat /\ calls["app"] \in Nat
  BY DEF ServerTypes, CallState
<1> QED BY <1>1 DEF ServerTypes, CallState

(* A step in which no buffer comes into use but the one of textAll() *)
LEMMA QuietKeeps ==
  ASSUME ServerInv, UNCHANGED <<bufferList, guard, early>>,
         miscounted \subseteq miscounted', DOMAIN count' = DOMAIN count,
         \A b \in Nat \ {0} : Uses(b)' # 0 => Uses(b) # 0 \/ Making(b),
         \A t \in Tasks : /\ Cleans(t)' <=> Cleans(t)
                          /\ task'[t].pc = "removing" => task[t].pc = "removing" /\ task'[t].rest = task[t].rest,
         Made' => Made /\ task'["app"].of = task["app"].of
  PROVE  UsedKept' /\ Guarded' /\ Removable' /\ MadeKept'
<1>1. ASSUME NEW b, Kept(b) PROVE Kept(b)'
  BY <1>1 DEF Kept
<1>2. UsedKept'
  <2>1. ASSUME NEW b \in Nat \ {0}, Uses(b)' # 0 PROVE Kept(b)' /\ b \in DOMAIN count'
    <3>1. Kept(b) /\ b \in DOMAIN count
      BY <2>1 DEF ServerInv, UsedKept, MadeKept, Making
    <3> QED BY <1>1, <3>1
  <2> QED BY <2>1 DEF UsedKept
<1>3. Guarded'
  BY DEF ServerInv, Guarded
<1>4. MadeKept'
  <2>1. ASSUME Made' PROVE task'["app"].of \in DOMAIN count' /\ Kept(task["app"].of)'
    BY <1>1, <2>1 DEF ServerInv, MadeKept
  <2> QED BY <2>1 DEF MadeKept, Kept
<1>5. ASSUME NEW t \in Tasks, task'[t].pc = "removing"
      PROVE  /\ task'[t].rest # <<>>
             /\ Doomed(t)' \in early' \cup miscounted' \/ (Uses(Doomed(t))' = 0 /\ ~Making(Doomed(t))')
  <2>1. task[t].pc = "removing" /\ task'[t].rest = task[t].rest /\ Doomed(t)' = Doomed(t)
    BY <1>5 DEF Doomed
  <2>2. task[t].rest # <<>> /\ task[t].rest \in Seq(Nat \ {0})
    BY <1>5, <2>1 DEF ServerInv, Removable, ServerTypes, TaskState
  <2>3. Doomed(t) \in Nat \ {0}
    BY <2>2 DEF Doomed
  <2>4. CASE Doomed(t) \in early \cup miscounted
    BY <2>1, <2>2, <2>4
  <2>5. CASE Uses(Doomed(t)) = 0 /\ ~Making(Doomed(t))
    <3>1. ASSUME NEW b, b = Doomed(t) PROVE Uses(b)' = 0 /\ ~Making(b)'
      BY <2>3, <2>5, <3>1 DEF Making
    <3>2. Uses(Doomed(t))' = 0 /\ ~Making(Doomed(t))'
      BY <2>1, <3>1 DEF Making, Uses, Held
    <3> QED BY <2>1, <2>2, <3>2
  <2> QED BY <2>1, <2>4, <2>5 DEF ServerInv, Removable
<1>6. Removable'
  BY <1>5 DEF Removable
<1> QED BY <1>2, <1>3, <1>4, <1>6

(* A step that changes nothing of what is counted *)
LEMMA UncountedKeeps ==
  ASSUME ServerInv, \A id \in 1..Ids : client'[id].messages = client[id].messages, UNCHANGED counters,
         \A b : InHand(b)' = InHand(b)
  PROVE  (\A b : Uses(b)' = Uses(b)) /\ Reads' /\ Exact'
<1>1. \A b : Held(b)' = Held(b)
  BY DEF Held
<1>2. \A b : Uses(b)' = Uses(b)
  BY <1>1 DEF Uses, counters
<1>3. Reads'
  BY DEF ServerInv, Reads, At, counters, Counted
<1>4. Exact'
  <2>1. \A b \in Nat \ {0} : IsFiniteSet(Held(b)')
    BY <1>1 DEF ServerInv, Exact
  <2>2. \A b \in DOMAIN count' : b \notin miscounted' => count'[b] = Uses(b)' + InHand(b)'
    BY <1>2 DEF ServerInv, Exact, counters
  <2> QED BY <2>1, <2>2 DEF Exact
<1> QED BY <1>2, <1>3, <1>4

LEMMA Tallies ==
  ASSUME NEW x, NEW t \in Tasks, NEW s, NEW d, NEW due, NEW p \in Nat,
         Cardinality(Held(x)) \in Nat, Cardinality(Held(x)') \in Nat,
         Times(s, x) \in Nat, Times(d, x) \in Nat, Times(due, x) \in Nat,
         Cardinality(Held(x)') + Times(s, x) = Cardinality(Held(x)) + Times(d, x),
         Times(d, x) + Times(due, x) = Times(s, x) + p,
         Times(counting[t].due, x) = 0, Times(counting'[t].due, x) = Times(due, x),
         \A u \in Tasks : u # t => /\ Times(counting[u].due, x) \in Nat
                                  /\ Times(counting'[u].due, x) = Times(counting[u].due, x)
  PROVE  Uses(x)' = Uses(x) + p
<1> DEFINE h == Cardinality(Held(x))
           g == Cardinality(Held(x)')
           k == Times(due, x)
           m == Times(s, x)
           n == Times(d, x)
<1>1. g + k = h + p /\ g \in Nat /\ h \in Nat /\ k \in Nat
  <2>1. g \in Nat /\ h \in Nat /\ k \in Nat /\ m \in Nat /\ n \in Nat /\ g + m = h + n /\ n + k = m + p
    OBVIOUS
  <2> HIDE DEF g, h, k, m, n
  <2> QED BY <2>1
<1> HIDE DEF Times
<1>2. Uses(x) = h + Times(counting["app"].due, x) + Times(counting["tcp"].due, x)
  BY DEF Uses
<1>3. Uses(x)' = g + Times(counting'["app"].due, x) + Times(counting'["tcp"].due, x)
  BY DEF Uses
<1> HIDE DEF g, h, k
<1>4. CASE t = "app"
  <2>1. Times(counting["app"].due, x) = 0 /\ Times(counting'["app"].due, x) = k
    BY <1>4 DEF k
  <2>2. Times(counting["tcp"].due, x) \in Nat /\ Times(counting'["tcp"].due, x) = Times(counting["tcp"].due, x)
    BY <1>4 DEF Tasks
  <2> QED BY <1>1, <1>2, <1>3, <2>1, <2>2
<1>5. CASE t = "tcp"
  <2>1. Times(counting["tcp"].due, x) = 0 /\ Times(counting'["tcp"].due, x) = k
    BY <1>5 DEF k
  <2>2. Times(counting["app"].due, x) \in Nat /\ Times(counting'["app"].due, x) = Times(counting["app"].due, x)
    BY <1>5 DEF Tasks
  <2> QED BY <1>1, <1>2, <1>3, <2>1, <2>2
<1> QED BY <1>4, <1>5 DEF Tasks

(* A step in which messages come and go in the queue of a client: what is  *)
(* deleted is left to count for the task that does it.                     *)
Puts(t, x) == IF t = "app" /\ MakingOne /\ x = task["app"].of THEN 1 ELSE 0
LEMMA Moves ==
  ASSUME ServerInv, NEW t \in Tasks, Counted(t), NEW id \in 1..Ids, NEW d \in ClientState,
         NEW due \in Seq(Due), AllDown(due), client' = [client EXCEPT ![id] = d], Counts(t, due),
         \A x \in Nat \ {0} : Times(d.messages, x) + Times(due, x) = Times(client[id].messages, x) + Puts(t, x),
         task'["app"].of = task["app"].of, Made' <=> Made, MakingOne' <=> MakingOne /\ t # "app",
         task'["tcp"].pc # "idle" => Counted("tcp")'
  PROVE  /\ counting' \in [Tasks -> CountState]
         /\ \A x \in Nat \ {0} : Uses(x)' = Uses(x) + Puts(t, x)
         /\ Dues' /\ Reads' /\ Exact'
<1> DEFINE r == [due |-> due, read |-> NotRead]
<1>1. /\ r \in CountState /\ r.due = due /\ r.read = NotRead
      /\ counting \in [Tasks -> CountState] /\ client \in [1..Ids -> ClientState]
      /\ counting' = [counting EXCEPT ![t] = r] /\ UNCHANGED <<count, miscounted>>
  BY DEF CountState, ServerInv, ServerTypes, Counts
<1> HIDE DEF r
<1>2. /\ counting' \in [Tasks -> CountState] /\ counting'[t] = r
      /\ \A u \in Tasks : u # t => counting'[u] = counting[u]
  BY <1>1
<1>3. counting[t].read = NotRead /\ counting[t].due = <<>>
  BY NothingToCount DEF ServerInv, Counted
<1>4. ASSUME NEW x \in Nat \ {0}
      PROVE  IsFiniteSet(Held(x)') /\ Uses(x)' = Uses(x) + Puts(t, x)
  <2>1. /\ IsFiniteSet(Held(x)')
        /\ Cardinality(Held(x)') + Times(client[id].messages, x) = Cardinality(Held(x)) + Times(d.messages, x)
    BY <1>1, HeldMoves DEF ServerInv, Exact
  <2>2. /\ Cardinality(Held(x)) \in Nat /\ Cardinality(Held(x)') \in Nat
        /\ \A u \in Tasks : Times(counting[u].due, x) \in Nat
    BY <2>1, UsesIsNat, FS_CardinalityType DEF ServerInv
  <2>3. Times(client[id].messages, x) \in Nat /\ Times(d.messages, x) \in Nat /\ Times(due, x) \in Nat
    BY <1>1, TimesIsNat DEF ClientState
  <2>4. Times(counting[t].due, x) = 0
    BY <1>3, FS_EmptySet DEF Times, PlacesOf
  <2>5. \A u \in Tasks : Times(counting'[u].due, x) = IF u = t THEN Times(due, x) ELSE Times(counting[u].due, x)
    BY <1>1, <1>2
  <2>6. Puts(t, x) \in Nat /\ Times(d.messages, x) + Times(due, x) = Times(client[id].messages, x) + Puts(t, x)
    BY DEF Puts
  <2> HIDE DEF Times
  <2>7. Times(counting'[t].due, x) = Times(due, x)
    BY <2>5
  <2>8. \A u \in Tasks : u # t => /\ Times(counting[u].due, x) \in Nat
                                  /\ Times(counting'[u].due, x) = Times(counting[u].due, x)
    BY <2>2, <2>5
  <2>9. Uses(x)' = Uses(x) + Puts(t, x)
    BY <2>1, <2>2, <2>3, <2>4, <2>6, <2>7, <2>8, Tallies, Zenon
  <2> QED BY <2>1, <2>9
<1>5. Dues'
  <2>1. CASE t = "app"
    BY <1>1, <1>2, <2>1 DEF ServerInv, Dues, Tasks
  <2>2. CASE t = "tcp"
    BY <1>1, <1>2, <2>2 DEF ServerInv, Dues, Tasks
  <2> QED BY <2>1, <2>2 DEF Tasks
<1>6. Reads'
  <2>1. ASSUME NEW u \in Tasks, counting'[u].read # NotRead
        PROVE  /\ ~Counted(u)' /\ counting'[u].due[1].buffer # 0
               /\ \/ counting'[u].due[1].buffer \in miscounted'
                  \/ /\ counting'[u].read = count'[counting'[u].due[1].buffer]
                     /\ \A v \in Tasks : v # u => ~At(v, counting[u].due[1].buffer)'
    <3>1. u # t /\ counting'[u] = counting[u]
      BY <1>1, <1>2, <2>1
    <3>2. ASSUME NEW b PROVE ~At(t, b)'
      BY <1>1, <1>2 DEF At
    <3>3. /\ ~Counted(u) /\ counting[u].due[1].buffer # 0
          /\ \/ counting[u].due[1].buffer \in miscounted
             \/ counting[u].read = count[counting[u].due[1].buffer]
      BY <2>1, <3>1 DEF ServerInv, Reads
    <3>4. \A v \in Tasks : v # u => v = t
      BY <3>1 DEF Tasks
    <3>5. \A v \in Tasks : v # u => ~At(v, counting[u].due[1].buffer)'
      <4>1. ~At(t, counting[u].due[1].buffer)'
        BY <1>1, <1>2 DEF At
      <4> QED BY <3>4, <4>1
    <3>6. ~Counted(u)'
      BY <3>1, <3>3 DEF Counted
    <3> QED BY <1>1, <3>1, <3>3, <3>5, <3>6
  <2> QED BY <2>1 DEF Reads
<1>7. Exact'
  <2>1. ASSUME NEW b \in DOMAIN count, b \notin miscounted PROVE count[b] = Uses(b)' + InHand(b)'
    <3>1. b \in Nat \ {0}
      BY DEF ServerInv, ServerTypes
    <3>2. Uses(b) \in Nat /\ Uses(b)' = Uses(b) + Puts(t, b) /\ count[b] = Uses(b) + InHand(b)
      BY <1>4, <2>1, <3>1, UsesIsNat DEF ServerInv, Exact
    <3>3. InHand(b) = InHand(b)' + Puts(t, b) /\ InHand(b)' \in Int /\ Puts(t, b) \in Int
      <4>1. CASE t = "app"
        <5>1. InHand(b)' = 0
          BY <4>1 DEF InHand
        <5>2. InHand(b) = Puts(t, b)
          BY <4>1 DEF InHand, Puts, Making, Made, MakingOne
        <5> QED BY <5>1, <5>2 DEF Puts
      <4>2. CASE t = "tcp"
        <5>1. Puts(t, b) = 0 /\ counting'["app"] = counting["app"]
          BY <1>2, <4>2 DEF Puts, Tasks
        <5>2. InHand(b)' = InHand(b) /\ InHand(b) \in Int
          BY <4>2, <5>1 DEF InHand, Making, Counted
        <5> QED BY <5>1, <5>2
      <4> QED BY <4>1, <4>2 DEF Tasks
    <3> HIDE DEF Uses, InHand, Puts
    <3> QED BY <3>2, <3>3
  <2>2. \A b \in DOMAIN count' : b \notin miscounted' => count'[b] = Uses(b)' + InHand(b)'
    BY <1>1, <2>1
  <2> QED BY <1>4, <2>2 DEF Exact
<1> QED BY <1>2, <1>4, <1>5, <1>6, <1>7

(* A call or a callback that puts messages into a queue, or takes them out *)
LEMMA CallKeeps ==
  ASSUME ServerInv, NEW t \in Tasks, Counted(t), NEW id \in 1..Ids, NEW d \in ClientState,
         NEW due \in Seq(Due), AllDown(due), client' = [client EXCEPT ![id] = d], Counts(t, due),
         \A x \in Nat \ {0} : Times(d.messages, x) + Times(due, x) = Times(client[id].messages, x),
         UNCHANGED <<bufferList, guard, early>>, clients' \in Seq(1..Ids),
         calls' \in CallState, calls'["app"] <= calls["app"], t = "app" => ~MakingOne,
         task' \in [Tasks -> TaskState],
         task'["app"].pc = task["app"].pc, task'["app"].of = task["app"].of, task'["app"].rest = task["app"].rest,
         task'["tcp"] = task["tcp"] \/ ~(Cleans("tcp") \/ Cleans("tcp")'),
         task'["tcp"].pc # "idle" => task'["tcp"].of \in 1..Ids /\ Counted("tcp")',
         Reached'
  PROVE  ServerInv'
<1>1. /\ Made' <=> Made
      /\ MakingOne' <=> MakingOne /\ t # "app"
  BY DEF Made, MakingOne
<1>2. \A x \in Nat \ {0} : Puts(t, x) = 0 /\ Times(client[id].messages, x) \in Nat
  <2>1. client[id].messages \in Seq(Message)
    BY DEF ServerInv, ServerTypes, ClientState
  <2> QED BY <2>1, TimesIsNat DEF Puts
<1>3. \A x \in Nat \ {0} : Times(d.messages, x) + Times(due, x) = Times(client[id].messages, x) + Puts(t, x)
  <2> HIDE DEF Times, Puts
  <2> QED BY <1>2
<1>4. /\ counting' \in [Tasks -> CountState]
      /\ \A x \in Nat \ {0} : Uses(x)' = Uses(x) + Puts(t, x)
      /\ Dues' /\ Reads' /\ Exact'
  BY <1>1, <1>3, Moves
<1>5. \A x \in Nat \ {0} : Uses(x)' = Uses(x)
  <2>1. \A x \in Nat \ {0} : Uses(x) \in Nat
    BY UsesIsNat DEF ServerInv
  <2> HIDE DEF Uses, Puts
  <2> QED BY <1>2, <1>4, <2>1
<1>6. ASSUME NEW u \in Tasks
      PROVE  /\ Cleans(u)' <=> Cleans(u)
             /\ task'[u].pc = "removing" => task[u].pc = "removing" /\ task'[u].rest = task[u].rest
  <2>1. CASE u = "app"
    BY <2>1 DEF Cleans
  <2>2. CASE u = "tcp"
    BY <2>2 DEF Cleans
  <2> QED BY <2>1, <2>2 DEF Tasks
<1>7. UNCHANGED <<count, miscounted>>
  BY DEF Counts
<1>8. UsedKept' /\ Guarded' /\ Removable' /\ MadeKept'
  <2>1. \A b \in Nat \ {0} : Uses(b)' # 0 => Uses(b) # 0 \/ Making(b)
    BY <1>5
  <2>2. miscounted \subseteq miscounted' /\ DOMAIN count' = DOMAIN count
    BY <1>7
  <2>3. Made' => Made /\ task'["app"].of = task["app"].of
    BY <1>1
  <2> QED BY <1>6, <2>1, <2>2, <2>3, QuietKeeps
<1>9. ServerTypes'
  <2>1. client' \in [1..Ids -> ClientState] /\ bufferList' \in Seq(Nat \ {0})
    BY DEF ServerInv, ServerTypes
  <2>2. \E n \in Nat : count' \in [1..n -> Nat] /\ calls'["app"] <= n
    <3>1. PICK n \in Nat : count \in [1..n -> Nat] /\ calls["app"] <= n
      BY DEF ServerInv, ServerTypes
    <3>2. calls["app"] \in Nat /\ calls'["app"] \in Nat
      BY DEF ServerInv, ServerTypes, CallState
    <3>3. calls'["app"] <= n
      BY <3>1, <3>2
    <3> QED BY <1>7, <3>1, <3>3
  <2> QED BY <1>4, <2>1, <2>2 DEF ServerTypes
<1> QED BY <1>4, <1>8, <1>9 DEF ServerInv

(* In such a call no client comes or goes. *)
LEMMA QueueReached ==
  ASSUME ServerInv, NEW id \in 1..Ids, NEW d \in ClientState, client' = [client EXCEPT ![id] = d],
         d.status = client[id].status \/ (Connected(id) /\ d.status = "disconnecting"),
         client[id].status = "none" => d.messages = <<>>,
         UNCHANGED clients, task'["app"].pc = task["app"].pc, task'["app"].rest = task["app"].rest,
         task'["app"].sure => task["app"].sure,
         Awaits(id)' => Len(d.messages) <= Len(client[id].messages)
  PROVE  Reached'
<1>1. /\ client'[id] = d /\ client \in [1..Ids -> ClientState]
      /\ \A o \in 1..Ids : o # id => client'[o] = client[o]
  BY DEF ServerInv, ServerTypes
<1>2. \A o : Awaits(o)' => Awaits(o)
  BY DEF Awaits, Made, Looping
<1>3. \A o : InList(o)' <=> InList(o)
  BY DEF InList
<1>4. ASSUME NEW o \in 1..Ids
      PROVE  /\ Connected(o)' => InList(o)'
             /\ client'[o].status = "none" => ~InList(o)' /\ client'[o].messages = <<>>
             /\ Awaits(o)' /\ Connected(o)' => Len(client'[o].messages) < ClientQueueLimit
  <2>1. /\ Connected(o) => InList(o)
        /\ client[o].status = "none" => ~InList(o) /\ client[o].messages = <<>>
        /\ Awaits(o) /\ Connected(o) => Len(client[o].messages) < ClientQueueLimit
    BY DEF ServerInv, Reached
  <2>2. CASE o # id
    BY <1>1, <1>2, <1>3, <2>1, <2>2 DEF Connected
  <2>3. CASE o = id
    <3>1. Connected(o)' => Connected(o)
      BY <1>1, <2>3 DEF Connected
    <3>2. client'[o].status = "none" => client[o].status = "none"
      BY <1>1, <2>3
    <3>3. ASSUME Awaits(o)', Connected(o)' PROVE Len(client'[o].messages) < ClientQueueLimit
      <4>1. Len(client[o].messages) \in Nat /\ Len(d.messages) \in Nat /\ ClientQueueLimit \in Nat
        BY <1>1, ServerAssumption DEF ClientState
      <4>2. Len(client[o].messages) < ClientQueueLimit
        BY <1>2, <2>1, <3>1, <3>3
      <4>3. Len(d.messages) <= Len(client[o].messages)
        BY <2>3, <3>3 DEF Awaits
      <4> QED BY <1>1, <2>3, <4>1, <4>2, <4>3
    <3> QED BY <1>1, <1>3, <2>1, <2>3, <3>1, <3>2, <3>3
  <2> QED BY <2>2, <2>3
<1>5. Distinct(clients)' /\ (MakingOne' => task'["app"].rest # <<>>)
  BY DEF ServerInv, Reached, Distinct, MakingOne
<1>6. Looping' => Distinct(task["app"].rest)' /\ \A i \in DOMAIN task'["app"].rest : task'["app"].rest[i] \in 1..Ids
  BY DEF ServerInv, Reached, Distinct, Looping
<1> QED BY <1>4, <1>5, <1>6 DEF Reached

(* A text that was copied has no buffer to count. *)
LEMMA CopiesPass ==
  ASSUME NEW c \in ClientState, NEW d, NEW due, Passed(c, 0, d, due)
  PROVE  \A x \in Nat \ {0} : Times(d.messages, x) + Times(due, x) = Times(c.messages, x)
<1>1. ASSUME NEW x \in Nat \ {0} PROVE Times(d.messages, x) + Times(due, x) = Times(c.messages, x)
  <2>1. Times(d.messages, x) + Times(due, x) = Times(c.messages, x) + 0
    BY DEF Passed
  <2>2. Times(c.messages, x) \in Nat
    BY TimesIsNat DEF ClientState
  <2> HIDE DEF Times
  <2> QED BY <2>1, <2>2
<1> QED BY <1>1

LEMMA TextKeeps ==
  ASSUME ServerInv, NEW id \in 1..Ids, Text(id)
  PROVE  ServerInv'
<1>1. /\ Counted("app") /\ task["app"].pc = "idle" /\ Connected(id)
      /\ UNCHANGED <<clients, bufferList, guard, task, early>>
      /\ calls["app"] > 0 /\ calls' = [calls EXCEPT !["app"] = @ - 1]
  BY DEF Text, Called, IsIdle, Found
<1>2. client \in [1..Ids -> ClientState] /\ "app" \in Tasks /\ 0 \in Nat /\ Enqueue("app", id, 0)
  BY DEF ServerInv, ServerTypes, Tasks, Text
<1>3. PICK d \in ClientState, due \in Seq(Due) :
        Passed(client[id], 0, d, due) /\ client' = [client EXCEPT ![id] = d] /\ Counts("app", due)
  BY <1>2, EnqueueKeeps, Zenon
<1>4. d.status = client[id].status /\ AllDown(due)
  BY <1>3 DEF Passed
<1>5. \A x \in Nat \ {0} : Times(d.messages, x) + Times(due, x) = Times(client[id].messages, x)
  BY <1>2, <1>3, CopiesPass
<1>6. calls' \in CallState /\ calls'["app"] <= calls["app"]
  BY <1>1, Decreased DEF ServerInv
<1>7. ~MakingOne /\ ~Awaits(id)'
  BY <1>1 DEF MakingOne, Awaits, Made
<1>8. Reached'
  BY <1>1, <1>3, <1>4, <1>7, QueueReached DEF Connected
<1>9. /\ task' \in [Tasks -> TaskState] /\ clients' \in Seq(1..Ids)
      /\ task'["tcp"].pc # "idle" => task'["tcp"].of \in 1..Ids /\ Counted("tcp")'
  <2>1. counting'["tcp"] = counting["tcp"]
    BY <1>3 DEF Counts, ServerInv, ServerTypes, Tasks
  <2> QED BY <1>1, <2>1 DEF ServerInv, ServerTypes, Dues, Counted
<1> QED BY <1>1, <1>2, <1>3, <1>4, <1>5, <1>6, <1>7, <1>8, <1>9, CallKeeps

(* Control frames, for a client that keeps its messages but for those that *)
(* are deleted                                                             *)
LEMMA ControlFrameKeeps ==
  ASSUME ServerInv, NEW t \in Tasks, Counted(t), t = "app" => task["app"].pc = "idle",
         t = "tcp" => task["tcp"].pc = "idle",
         NEW id \in 1..Ids, NEW c \in ClientState, c.messages = client[id].messages, client[id].status # "none",
         c.status = client[id].status \/ (Connected(id) /\ c.status = "disconnecting"),
         NEW op \in {"ping", "close"}, EnqueueControl(t, id, c, op),
         UNCHANGED <<clients, bufferList, guard, task, early>>, calls' \in CallState, calls'["app"] <= calls["app"]
  PROVE  ServerInv'
<1>1. PICK d \in ClientState, due \in Seq(Due) :
        Shed(c, d, due) /\ d.status = c.status /\ client' = [client EXCEPT ![id] = d] /\ Counts(t, due)
  <2>1. ServerTypes /\ Reads
    BY DEF ServerInv
  <2> QED BY <2>1, ControlSheds, Zenon
<1>2. /\ AllDown(due) /\ Len(d.messages) <= Len(client[id].messages)
      /\ \A x \in Nat : Times(d.messages, x) + Times(due, x) = Times(client[id].messages, x)
  BY <1>1 DEF Shed
<1>3. Reached'
  BY <1>1, <1>2, QueueReached
<1>4. ~MakingOne \/ t # "app"
  BY DEF MakingOne
<1>5. /\ task' \in [Tasks -> TaskState] /\ clients' \in Seq(1..Ids)
      /\ task'["tcp"].pc # "idle" => task'["tcp"].of \in 1..Ids /\ Counted("tcp")'
  <2>1. t # "tcp" => counting'["tcp"] = counting["tcp"]
    BY <1>1 DEF Counts, ServerInv, ServerTypes, Tasks
  <2> QED BY <2>1 DEF ServerInv, ServerTypes, Dues, Counted
<1> QED BY <1>1, <1>2, <1>3, <1>4, <1>5, CallKeeps

LEMMA ControlKeeps ==
  ASSUME ServerInv, NEW id \in 1..Ids, Control(id)
  PROVE  ServerInv'
<1>1. /\ Counted("app") /\ task["app"].pc = "idle" /\ Connected(id) /\ "app" \in Tasks
      /\ UNCHANGED <<clients, bufferList, guard, task, early>>
      /\ calls["app"] > 0 /\ calls' = [calls EXCEPT !["app"] = @ - 1]
  BY DEF Control, Called, IsIdle, Found, Tasks
<1>2. PICK op \in {"ping", "close"} : EnqueueControl("app", id, client[id], op)
  BY DEF Control
<1>3. calls' \in CallState /\ calls'["app"] <= calls["app"]
  BY <1>1, Decreased DEF ServerInv
<1>4. client[id] \in ClientState /\ client[id].status # "none"
  BY <1>1 DEF ServerInv, ServerTypes, Connected
<1> QED BY <1>1, <1>2, <1>3, <1>4, ControlFrameKeeps

LEMMA CleanupClientsKeeps ==
  ASSUME ServerInv, CleanupClients
  PROVE  ServerInv'
<1> DEFINE id == Head(clients)
<1>1. /\ Counted("app") /\ task["app"].pc = "idle" /\ Connected(id) /\ "app" \in Tasks
      /\ ConnectedCount > MaxClients
      /\ UNCHANGED <<clients, bufferList, guard, task, calls, early>>
      /\ EnqueueControl("app", id, client[id], "close")
  BY DEF CleanupClients, IsIdle, Tasks
<1>2. clients # <<>>
  <2>1. ASSUME clients = <<>> PROVE ConnectedCount = 0
    BY <2>1, FS_EmptySet DEF ConnectedCount, CountIf
  <2> QED BY <1>1, <2>1, ServerAssumption
<1>3. id \in 1..Ids
  <2>1. clients \in Seq(1..Ids)
    BY DEF ServerInv, ServerTypes
  <2> QED BY <1>2, <2>1, HeadTailProperties
<1> HIDE DEF id
<1>4. client[id] \in ClientState /\ client[id].status # "none"
  BY <1>1, <1>3 DEF ServerInv, ServerTypes, Connected
<1>5. calls' \in CallState /\ calls'["app"] <= calls["app"]
  <2>1. calls' = calls /\ calls \in CallState
    BY <1>1 DEF ServerInv, ServerTypes
  <2>2. calls["app"] \in Nat
    BY <2>1 DEF CallState
  <2> QED BY <2>1, <2>2
<1> QED BY <1>1, <1>3, <1>4, <1>5, ControlFrameKeeps

LEMMA AnswerKeeps ==
  ASSUME ServerInv, NEW id \in 1..Ids, Answer(id)
  PROVE  ServerInv'
<1> DEFINE s == [task["app"] EXCEPT !.sure = FALSE]
<1>1. /\ Counted("tcp") /\ task["tcp"].pc = "idle" /\ InList(id) /\ "tcp" \in Tasks /\ 0 \in Nat
      /\ UNCHANGED <<clients, bufferList, guard, early>> /\ Enqueue("tcp", id, 0)
      /\ calls["tcp"] > 0 /\ calls' = [calls EXCEPT !["tcp"] = @ - 1]
      /\ client \in [1..Ids -> ClientState] /\ task \in [Tasks -> TaskState] /\ "app" \in Tasks
  BY DEF Answer, Called, IsIdle, Tasks, ServerInv, ServerTypes
<1>2. s \in TaskState /\ s.pc = task["app"].pc /\ s.of = task["app"].of /\ s.rest = task["app"].rest /\ ~s.sure
  BY <1>1 DEF TaskState
<1>3. task' = [task EXCEPT !["app"] = s]
  BY DEF Answer
<1> HIDE DEF s
<1>4. task' \in [Tasks -> TaskState] /\ task'["app"] = s /\ task'["tcp"] = task["tcp"]
  BY <1>1, <1>2, <1>3 DEF Tasks
<1>5. PICK d \in ClientState, due \in Seq(Due) :
        Passed(client[id], 0, d, due) /\ client' = [client EXCEPT ![id] = d] /\ Counts("tcp", due)
  BY <1>1, EnqueueKeeps, Zenon
<1>6. d.status = client[id].status /\ AllDown(due)
  BY <1>5 DEF Passed
<1>7. \A x \in Nat \ {0} : Times(d.messages, x) + Times(due, x) = Times(client[id].messages, x)
  BY <1>1, <1>5, CopiesPass
<1>8. calls' \in CallState /\ calls'["app"] <= calls["app"]
  BY <1>1, Decreased DEF ServerInv
<1>9. Reached'
  <2>1. client[id].status # "none"
    BY <1>1 DEF ServerInv, Reached
  <2>2. ~Awaits(id)'
    BY <1>2, <1>4 DEF Awaits
  <2> QED BY <1>1, <1>2, <1>4, <1>5, <1>6, <2>1, <2>2, QueueReached
<1>10. clients' \in Seq(1..Ids)
  BY <1>1 DEF ServerInv, ServerTypes
<1> QED BY <1>1, <1>2, <1>4, <1>5, <1>6, <1>7, <1>8, <1>9, <1>10, CallKeeps

LEMMA JoinKeeps ==
  ASSUME ServerInv, NEW id \in 1..Ids, Join(id)
  PROVE  ServerInv'
<1>1. /\ UNCHANGED <<bufferList, guard, task, early, counters>> /\ ~Looping
      /\ client[id].status = "none" /\ clients' = Append(clients, id)
      /\ client' = [client EXCEPT ![id] = [client[id] EXCEPT !.status = "connected"]]
      /\ calls["join"] > 0 /\ calls' = [calls EXCEPT !["join"] = @ - 1]
  BY DEF Join, Add, ServerInv, ServerTypes, NoLoop, Looping
<1>2. /\ client \in [1..Ids -> ClientState] /\ clients \in Seq(1..Ids)
      /\ client[id].messages = <<>> /\ ~InList(id)
  BY <1>1 DEF ServerInv, ServerTypes, Reached
<1>3. /\ clients' \in Seq(1..Ids) /\ Len(clients') = Len(clients) + 1 /\ Len(clients) \in Nat
      /\ \A i \in 1..Len(clients) : clients'[i] = clients[i]
      /\ clients'[Len(clients) + 1] = id
  BY <1>1, <1>2
<1> DEFINE c == [client[id] EXCEPT !.status = "connected"]
<1>4. c \in ClientState /\ c.messages = <<>> /\ c.status = "connected"
  BY <1>2 DEF ClientState
<1> HIDE DEF c
<1>5. /\ client' \in [1..Ids -> ClientState] /\ client'[id].messages = <<>> /\ client'[id].status = "connected"
      /\ \A other \in 1..Ids : other # id => client'[other] = client[other]
  <2>1. client' = [client EXCEPT ![id] = c]
    BY <1>1 DEF c
  <2> QED BY <1>2, <1>4, <2>1
<1>6. calls' \in CallState /\ calls'["app"] <= calls["app"]
  BY <1>1, Decreased DEF ServerInv
<1>7. ServerTypes'
  <2>1. \E n \in Nat : count' \in [1..n -> Nat] /\ calls'["app"] <= n
    <3>1. PICK n \in Nat : count \in [1..n -> Nat] /\ calls["app"] <= n
      BY DEF ServerInv, ServerTypes
    <3>2. calls["app"] \in Nat /\ calls'["app"] \in Nat
      BY <1>6 DEF ServerInv, ServerTypes, CallState
    <3>3. calls'["app"] <= n
      BY <1>6, <3>1, <3>2
    <3> QED BY <1>1, <3>1, <3>3 DEF counters
  <2>2. counting' \in [Tasks -> CountState]
    BY <1>1 DEF ServerInv, ServerTypes, counters
  <2> QED BY <1>1, <1>3, <1>5, <1>6, <2>1, <2>2 DEF ServerInv, ServerTypes
<1>8. (\A b : Uses(b)' = Uses(b)) /\ Reads' /\ Exact'
  <2>1. \A o \in 1..Ids : client'[o].messages = client[o].messages
    BY <1>2, <1>5
  <2>2. \A b : InHand(b)' = InHand(b)
    BY <1>1 DEF InHand, Making, Made, MakingOne, Counted, counters
  <2> QED BY <1>1, <2>1, <2>2, UncountedKeeps
<1>9. Dues'
  BY <1>1 DEF ServerInv, Dues, MakingOne, AllDown, Counted, counters
<1>10. UsedKept' /\ Guarded' /\ Removable' /\ MadeKept'
  <2>1. \A t \in Tasks : /\ Cleans(t)' <=> Cleans(t)
                         /\ task'[t].pc = "removing" => task[t].pc = "removing" /\ task'[t].rest = task[t].rest
    BY <1>1 DEF Cleans
  <2>2. Made' => Made /\ task'["app"].of = task["app"].of
    BY <1>1 DEF Made
  <2>3. miscounted \subseteq miscounted' /\ DOMAIN count' = DOMAIN count
    BY <1>1 DEF counters
  <2>4. \A b \in Nat \ {0} : Uses(b)' # 0 => Uses(b) # 0 \/ Making(b)
    BY <1>8
  <2> QED BY <1>1, <2>1, <2>2, <2>3, <2>4, QuietKeeps
<1>11. Reached'
  <2>1. \A o : InList(o)' <=> InList(o) \/ o = id
    <3>1. \A i \in DOMAIN clients' : i \in DOMAIN clients \/ i = Len(clients) + 1
      BY <1>2, <1>3
    <3>2. DOMAIN clients \subseteq DOMAIN clients' /\ Len(clients) + 1 \in DOMAIN clients'
      BY <1>2, <1>3
    <3> QED BY <1>2, <1>3, <3>1, <3>2 DEF InList
  <2>2. ASSUME NEW o \in 1..Ids
        PROVE  /\ Connected(o)' => InList(o)'
               /\ client'[o].status = "none" => ~InList(o)' /\ client'[o].messages = <<>>
               /\ Awaits(o)' /\ Connected(o)' => Len(client'[o].messages) < ClientQueueLimit
    <3>1. CASE o = id
      <4>1. Len(client'[o].messages) = 0
        BY <1>5, <3>1
      <4> QED BY <1>5, <2>1, <3>1, <4>1, ServerAssumption
    <3>2. CASE o # id
      <4>1. client'[o] = client[o] /\ (Awaits(o)' => Awaits(o)) /\ (Connected(o)' <=> Connected(o))
        BY <1>1, <1>5, <3>2 DEF Awaits, Made, Looping, Connected
      <4> QED BY <2>1, <3>2, <4>1 DEF ServerInv, Reached
    <3> QED BY <3>1, <3>2
  <2>3. Distinct(clients)'
    <3>1. ASSUME NEW i \in DOMAIN clients', NEW j \in DOMAIN clients', clients'[i] = clients'[j] PROVE i = j
      <4>1. /\ i \in DOMAIN clients \/ i = Len(clients) + 1
            /\ j \in DOMAIN clients \/ j = Len(clients) + 1
            /\ \A k \in DOMAIN clients : clients'[k] = clients[k] /\ clients[k] # id
        BY <1>2, <1>3 DEF InList
      <4>2. Distinct(clients)
        BY DEF ServerInv, Reached
      <4> QED BY <1>3, <3>1, <4>1, <4>2 DEF Distinct
    <3> QED BY <3>1 DEF Distinct
  <2>4. ~Looping' /\ ~MakingOne'
    BY <1>1 DEF Looping, MakingOne
  <2> QED BY <2>2, <2>3, <2>4 DEF Reached
<1> QED BY <1>7, <1>8, <1>9, <1>10, <1>11 DEF ServerInv

LEMMA LeaveKeeps ==
  ASSUME ServerInv, NEW id \in 1..Ids, IsIdle("tcp"), Leave(id)
  PROVE  ServerInv'
<1> DEFINE d == [NoClient EXCEPT !.status = "gone"]
           due == Down(client[id].messages)
<1>1. /\ UNCHANGED <<bufferList, guard, task, calls, early>> /\ ~Looping /\ ~MakingOne
      /\ clients' = RemoveFirstIf(clients, {id})
      /\ client' = [client EXCEPT ![id] = d] /\ Counts("tcp", due)
      /\ Counted("tcp") /\ task["tcp"].pc = "idle" /\ "tcp" \in Tasks
  BY DEF Leave, NoLoop, Looping, MakingOne, IsIdle, Tasks
<1>2. d \in ClientState /\ d.messages = <<>> /\ d.status = "gone"
  <2>1. d = [status |-> "gone", messages |-> <<>>, controls |-> <<>>]
    BY DEF NoClient
  <2>2. <<>> \in Seq(Message) /\ <<>> \in Seq({"ping", "close"})
    OBVIOUS
  <2> HIDE DEF d
  <2> QED BY <2>1, <2>2 DEF ClientState
<1>3. /\ client \in [1..Ids -> ClientState] /\ clients \in Seq(1..Ids) /\ client[id].messages \in Seq(Message)
      /\ task \in [Tasks -> TaskState] /\ calls \in CallState
  BY DEF ServerInv, ServerTypes, ClientState
<1>4. due \in Seq(Due) /\ AllDown(due) /\ \A b : Times(due, b) = Times(client[id].messages, b)
  BY <1>3, DownKeeps
<1> HIDE DEF d, due
<1>5. \A x \in Nat \ {0} : Times(d.messages, x) + Times(due, x) = Times(client[id].messages, x)
  <2>1. ASSUME NEW x \in Nat \ {0} PROVE Times(d.messages, x) = 0 /\ Times(client[id].messages, x) \in Nat
    <3>1. Times(<<>>, x) = 0
      BY FS_EmptySet DEF Times, PlacesOf
    <3> QED BY <1>2, <1>3, <3>1, TimesIsNat
  <2> HIDE DEF Times
  <2> QED BY <1>4, <2>1
<1>6. /\ clients' \in Seq(1..Ids)
      /\ \A i \in DOMAIN clients : clients[i] # id => \E k \in DOMAIN clients' : clients'[k] = clients[i]
      /\ \A k \in DOMAIN clients' : \E i \in DOMAIN clients : clients'[k] = clients[i]
      /\ Distinct(clients) => Distinct(clients')
  <2> DEFINE those == {id}
             r == RemoveFirstIf(clients, those)
  <2>1. clients' = r /\ \A o : o \in those <=> o = id
    BY <1>1
  <2> HIDE DEF those
  <2>2. /\ r \in Seq(1..Ids)
        /\ \A i \in DOMAIN clients : clients[i] \notin those => \E k \in DOMAIN r : r[k] = clients[i]
        /\ \A k \in DOMAIN r : \E i \in DOMAIN clients : r[k] = clients[i]
        /\ Distinct(clients) => Distinct(r)
    BY <1>3, RemovedFirst
  <2> HIDE DEF r
  <2> QED BY <2>1, <2>2
<1>7. Reached'
  <2>1. /\ client'[id] = d /\ \A o \in 1..Ids : o # id => client'[o] = client[o]
    BY <1>1, <1>3
  <2>2. ASSUME NEW o \in 1..Ids
        PROVE  /\ Connected(o)' => InList(o)'
               /\ client'[o].status = "none" => ~InList(o)' /\ client'[o].messages = <<>>
               /\ Awaits(o)' /\ Connected(o)' => Len(client'[o].messages) < ClientQueueLimit
    <3>1. CASE o = id
      BY <1>2, <2>1, <3>1 DEF Connected
    <3>2. CASE o # id
      <4>1. client'[o] = client[o] /\ (Awaits(o)' => Awaits(o)) /\ (Connected(o)' <=> Connected(o))
        BY <1>1, <2>1, <3>2 DEF Awaits, Made, Looping, Connected
      <4>2. InList(o)' => InList(o)
        BY <1>6 DEF InList
      <4>3. InList(o) => InList(o)'
        BY <1>6, <3>2 DEF InList
      <4> QED BY <4>1, <4>2, <4>3 DEF ServerInv, Reached
    <3> QED BY <3>1, <3>2
  <2>3. Distinct(clients)'
    <3>1. Distinct(clients')
      BY <1>6 DEF ServerInv, Reached
    <3> QED BY <3>1 DEF Distinct
  <2>4. ~Looping' /\ ~MakingOne'
    BY <1>1 DEF Looping, MakingOne
  <2> QED BY <2>2, <2>3, <2>4 DEF Reached
<1>8. calls' \in CallState /\ calls'["app"] <= calls["app"]
  BY <1>1, <1>3 DEF CallState
<1> QED BY <1>1, <1>2, <1>3, <1>4, <1>5, <1>6, <1>7, <1>8, CallKeeps

LEMMA PeerClosesKeeps ==
  ASSUME ServerInv, NEW id \in 1..Ids, PeerCloses(id)
  PROVE  ServerInv'
<1>1. IsIdle("tcp") /\ InList(id)
  BY DEF PeerCloses
<1>2. CASE ~Connected(id) /\ Leave(id)
  BY <1>1, <1>2, LeaveKeeps
<1>3. CASE /\ Connected(id)
           /\ EnqueueControl("tcp", id, [client[id] EXCEPT !.status = "disconnecting"], "close")
           /\ UNCHANGED <<clients, bufferList, guard, task, calls, early>>
  <2> DEFINE c == [client[id] EXCEPT !.status = "disconnecting"]
  <2>1. client[id] \in ClientState
    BY DEF ServerInv, ServerTypes
  <2>2. c \in ClientState /\ c.messages = client[id].messages /\ c.status = "disconnecting"
    BY <2>1 DEF ClientState
  <2>3. EnqueueControl("tcp", id, c, "close")
    BY <1>3
  <2> HIDE DEF c
  <2>4. Counted("tcp") /\ task["tcp"].pc = "idle" /\ "tcp" \in Tasks /\ client[id].status # "none"
    BY <1>1, <1>3 DEF IsIdle, Tasks, Connected
  <2>5. calls' \in CallState /\ calls'["app"] <= calls["app"]
    <3>1. calls' = calls /\ calls \in CallState
      BY <1>3 DEF ServerInv, ServerTypes
    <3>2. calls["app"] \in Nat
      BY <3>1 DEF CallState
    <3> QED BY <3>1, <3>2
  <2> QED BY <1>3, <2>2, <2>3, <2>4, <2>5, ControlFrameKeeps
<1> QED BY <1>2, <1>3 DEF PeerCloses

(* A callback of AsyncTCP that goes on with the client, which keeps its    *)
(* messages but for those that are deleted                                 *)
LEMMA CallbackKeeps ==
  ASSUME ServerInv, Counted("tcp"), ~Cleans("tcp"), NEW id \in 1..Ids, NEW d, NEW due,
         Shed(client[id], d, due), d.status = client[id].status,
         client' = [client EXCEPT ![id] = d], Counts("tcp", due),
         NEW s \in TaskState, task' = [task EXCEPT !["tcp"] = s], s.pc \in {"idle", "clean"},
         s.pc = "clean" => s.of = id /\ due = <<>>,
         UNCHANGED <<clients, bufferList, guard, calls, early>>
  PROVE  ServerInv'
<1>1. /\ d \in ClientState /\ due \in Seq(Due) /\ AllDown(due) /\ Len(d.messages) <= Len(client[id].messages)
      /\ \A x \in Nat \ {0} : Times(d.messages, x) + Times(due, x) = Times(client[id].messages, x)
  BY DEF Shed
<1>2. /\ task \in [Tasks -> TaskState] /\ calls \in CallState /\ clients' \in Seq(1..Ids)
      /\ counting \in [Tasks -> CountState] /\ "tcp" \in Tasks /\ client[id] \in ClientState
  BY DEF ServerInv, ServerTypes, Tasks
<1>3. task' \in [Tasks -> TaskState] /\ task'["tcp"] = s /\ task'["app"] = task["app"]
  BY <1>2 DEF Tasks
<1>4. client[id].status = "none" => d.messages = <<>>
  <2>1. ASSUME client[id].messages = <<>> PROVE d.messages = <<>>
    <3>1. Len(d.messages) = 0 /\ d.messages \in Seq(Message)
      BY <1>1, <2>1 DEF ClientState
    <3> QED BY <3>1
  <2> QED BY <2>1 DEF ServerInv, Reached
<1>5. Reached'
  BY <1>1, <1>3, <1>4, QueueReached
<1>6. counting'["tcp"].due = due
  BY <1>2 DEF Counts
<1>7. task'["tcp"].pc # "idle" => task'["tcp"].of \in 1..Ids /\ Counted("tcp")'
  BY <1>3, <1>6 DEF Counted
<1>8. ~(Cleans("tcp") \/ Cleans("tcp")')
  BY <1>3 DEF Cleans
<1>9. calls' \in CallState /\ calls'["app"] <= calls["app"]
  <2>1. calls["app"] \in Nat /\ calls' = calls
    BY <1>2 DEF CallState
  <2> QED BY <1>2, <2>1
<1> QED BY <1>1, <1>2, <1>3, <1>5, <1>7, <1>8, <1>9, CallKeeps

LEMMA AckKeeps ==
  ASSUME ServerInv, NEW id \in 1..Ids, NEW control \in BOOLEAN, NEW message \in BOOLEAN,
         Ack(id, control, message)
  PROVE  ServerInv'
<1> DEFINE c == client[id]
           cs == IF control THEN Tail(c.controls) ELSE c.controls
           ms == IF message THEN [c.messages EXCEPT ![1].done = TRUE] ELSE c.messages
           acked == [c EXCEPT !.controls = cs, !.messages = ms]
           s == [Idle EXCEPT !.pc = "clean", !.of = id]
<1>1. IsIdle("tcp") /\ (control => c.controls # <<>>) /\ (message => c.messages # <<>>)
  BY DEF Ack
<1>2. CASE Leave(id)
  BY <1>1, <1>2, LeaveKeeps
<1>3. CASE /\ client' = [client EXCEPT ![id] = acked] /\ task' = [task EXCEPT !["tcp"] = s]
           /\ UNCHANGED <<clients, bufferList, guard, calls, early, counters>>
  <2>1. c \in ClientState
    BY DEF ServerInv, ServerTypes
  <2>2. cs \in Seq({"ping", "close"})
    BY <1>1, <2>1 DEF ClientState
  <2>3. /\ ms \in Seq(Message) /\ Len(ms) = Len(c.messages)
        /\ \A i \in DOMAIN ms : i \in DOMAIN c.messages /\ ms[i].buffer = c.messages[i].buffer
    <3>1. CASE ~message
      BY <2>1, <3>1 DEF ClientState
    <3>2. CASE message
      <4> DEFINE m == [c.messages[1] EXCEPT !.done = TRUE]
      <4>1. /\ c.messages \in Seq(Message) /\ 1 \in DOMAIN c.messages /\ Len(c.messages) \in Nat
            /\ DOMAIN c.messages = 1..Len(c.messages) /\ c.messages[1] \in Message
        BY <1>1, <2>1, <3>2 DEF ClientState
      <4>2. m \in Message /\ m.buffer = c.messages[1].buffer
        BY <4>1 DEF Message
      <4>3. ms = [c.messages EXCEPT ![1] = m]
        BY <3>2
      <4> HIDE DEF m, ms
      <4>4. ms \in Seq(Message) /\ Len(ms) = Len(c.messages) /\ DOMAIN ms = DOMAIN c.messages
        BY <4>1, <4>2, <4>3
      <4>5. ms[1] = m /\ \A i \in DOMAIN ms : i # 1 => ms[i] = c.messages[i]
        BY <4>1, <4>3
      <4> QED BY <4>2, <4>4, <4>5
    <3> QED BY <3>1, <3>2
  <2> HIDE DEF cs, ms
  <2>4. acked \in ClientState /\ acked.status = c.status /\ acked.messages = ms
    BY <2>1, <2>2, <2>3 DEF ClientState
  <2>5. s \in TaskState /\ s.pc = "clean" /\ s.of = id
    <3>1. Idle \in TaskState /\ id \in Nat
      BY DEF TaskState, Idle
    <3> QED BY <3>1 DEF TaskState
  <2>6. Counted("tcp") /\ ~Cleans("tcp") /\ "tcp" \in Tasks
    BY <1>1 DEF IsIdle, Cleans, Tasks
  <2> HIDE DEF acked, s
  <2>7. Shed(c, acked, <<>>)
    BY <2>1, <2>3, <2>4, NothingShed
  <2>8. Counts("tcp", <<>>)
    <3>1. counting = [counting EXCEPT !["tcp"] = [due |-> <<>>, read |-> NotRead]]
      BY <2>6, NothingToCount DEF ServerInv
    <3> QED BY <1>3, <3>1 DEF Counts, counters
  <2> QED BY <1>3, <2>4, <2>5, <2>6, <2>7, <2>8, CallbackKeeps
<1> QED BY <1>2, <1>3 DEF Ack

LEMMA AckRunsKeeps ==
  ASSUME ServerInv, AckRuns
  PROVE  ServerInv'
<1> DEFINE id == task["tcp"].of
           ms == Ran(client[id].messages)
           d == [client[id] EXCEPT !.messages = ms]
           due == Down(Over(client[id].messages))
<1>1. /\ task["tcp"].pc = "run" /\ task' = [task EXCEPT !["tcp"] = Idle] /\ Counts("tcp", due)
      /\ UNCHANGED <<clients, bufferList, guard, calls, early>>
  BY DEF AckRuns
<1>2. id \in 1..Ids /\ client \in [1..Ids -> ClientState] /\ client[id] \in ClientState
  BY <1>1 DEF ServerInv, ServerTypes
<1>3. client' = [client EXCEPT ![id] = d]
  BY <1>2 DEF AckRuns
<1>4. ms \in Seq(Message)
  BY <1>2, RanKeeps DEF ClientState
<1> HIDE DEF ms
<1>5. d \in ClientState /\ d.status = client[id].status /\ d.messages = ms
  BY <1>2, <1>4 DEF ClientState
<1>6. Idle \in TaskState /\ Idle.pc = "idle"
  BY DEF TaskState, Idle
<1>7. ~Cleans("tcp") /\ Counted("tcp")
  BY <1>1 DEF Cleans, ServerInv, Dues
<1> HIDE DEF d
<1>8. Shed(client[id], d, due)
  BY <1>2, <1>5, RanSheds DEF ms
<1> HIDE DEF id, due
<1> QED BY <1>1, <1>2, <1>3, <1>5, <1>6, <1>7, <1>8, CallbackKeeps

-----------------------------------------------------------------------------
(* The steps in which a task counts *)

LEMMA ToCount ==
  ASSUME ServerInv, NEW t \in Tasks, ~Counted(t), NEW b, b = counting[t].due[1].buffer, b # 0
  PROVE  /\ b \in Nat \ {0} /\ b \in DOMAIN count /\ Times(counting[t].due, b) # 0 /\ Uses(b) # 0
         /\ count[b] \in Nat
<1>1. counting[t].due \in Seq(Due) /\ counting[t].due # <<>>
  BY DEF ServerInv, ServerTypes, CountState, Counted
<1>2. 1 \in DOMAIN counting[t].due /\ counting[t].due[1] \in Due
  BY <1>1
<1>3. b \in Nat \ {0}
  BY <1>2 DEF Due
<1>4. Times(counting[t].due, b) # 0
  BY <1>1, <1>2, NoTimes
<1>5. Uses(b) # 0
  BY <1>3, <1>4, UsesIsNat DEF ServerInv
<1>6. b \in DOMAIN count
  BY <1>3, <1>5 DEF ServerInv, UsedKept
<1> QED BY <1>3, <1>4, <1>5, <1>6 DEF ServerInv, ServerTypes

(* A step in which task t counts, and nothing else happens *)
LEMMA CountingKeeps ==
  ASSUME ServerInv, UNCHANGED <<clients, client, bufferList, guard, task, calls, early>>,
         miscounted \subseteq miscounted', DOMAIN count' = DOMAIN count,
         \A b \in DOMAIN count : count'[b] \in Nat, \E n \in Nat : count' \in [1..n -> Nat],
         counting' \in [Tasks -> CountState], Dues', Reads',
         \A b \in Nat \ {0} : Uses(b)' # 0 => Uses(b) # 0,
         \A b \in DOMAIN count : b \notin miscounted' => count'[b] = Uses(b)' + InHand(b)'
  PROVE  ServerInv'
<1>1. ServerTypes'
  <2>1. \E n \in Nat : count' \in [1..n -> Nat] /\ calls'["app"] <= n
    <3>1. PICK n \in Nat : count \in [1..n -> Nat] /\ calls["app"] <= n
      BY DEF ServerInv, ServerTypes
    <3>2. count' \in [1..n -> Nat]
      BY <3>1
    <3> QED BY <3>1, <3>2
  <2> QED BY <2>1 DEF ServerInv, ServerTypes
<1>2. UsedKept' /\ Guarded' /\ Removable' /\ MadeKept'
  <2>1. \A t \in Tasks : /\ Cleans(t)' <=> Cleans(t)
                         /\ task'[t].pc = "removing" => task[t].pc = "removing" /\ task'[t].rest = task[t].rest
    BY DEF Cleans
  <2>2. Made' => Made /\ task'["app"].of = task["app"].of
    BY DEF Made
  <2> QED BY <2>1, <2>2, QuietKeeps
<1>3. Exact'
  <2>1. \A b : Held(b)' = Held(b)
    BY DEF Held
  <2>2. \A b \in Nat \ {0} : IsFiniteSet(Held(b)')
    BY <2>1 DEF ServerInv, Exact
  <2>3. \A b \in DOMAIN count' : b \notin miscounted' => count'[b] = Uses(b)' + InHand(b)'
    OBVIOUS
  <2> QED BY <2>2, <2>3 DEF Exact
<1>4. Reached'
  BY DEF ServerInv, Reached, Connected, InList, Awaits, Made, Looping, MakingOne, Distinct
<1> QED BY <1>1, <1>2, <1>3, <1>4 DEF ServerInv

LEMMA CountReadsKeeps ==
  ASSUME ServerInv, NEW t \in Tasks, CountReads(t)
  PROVE  ServerInv'
<1> DEFINE b == counting[t].due[1].buffer
           r == [due |-> counting[t].due, read |-> count[b]]
<1>1. /\ ~Counted(t) /\ counting[t].read = NotRead /\ b # 0
      /\ counting' = [counting EXCEPT ![t].read = count[b]]
      /\ miscounted' = IF \E u \in Tasks : At(u, b) THEN miscounted \cup {b} ELSE miscounted
      /\ UNCHANGED <<clients, client, bufferList, guard, task, calls, early, count>>
  BY DEF CountReads
<1>2. b \in Nat \ {0} /\ b \in DOMAIN count /\ count[b] \in Nat
  BY <1>1, ToCount
<1>3. counting \in [Tasks -> CountState] /\ counting[t] \in CountState
  BY DEF ServerInv, ServerTypes
<1>4. r \in CountState /\ r.due = counting[t].due /\ r.read = count[b]
  BY <1>2, <1>3 DEF CountState
<1>5. counting' = [counting EXCEPT ![t] = r]
  <2>1. [counting[t] EXCEPT !.read = count[b]] = r
    BY <1>3 DEF CountState
  <2> QED BY <1>1, <2>1
<1> HIDE DEF r
<1>6. /\ counting' \in [Tasks -> CountState] /\ counting'[t] = r
      /\ \A u \in Tasks : u # t => counting'[u] = counting[u]
      /\ \A u \in Tasks : counting'[u].due = counting[u].due
  BY <1>3, <1>4, <1>5
<1>7. \A x : Uses(x)' = Uses(x) /\ InHand(x)' = InHand(x)
  <2>1. \A x : Held(x)' = Held(x)
    BY <1>1 DEF Held
  <2>2. \A x : Uses(x)' = Uses(x)
    BY <1>6, <2>1 DEF Uses, Tasks
  <2>3. Counted("app")' <=> Counted("app")
    BY <1>6 DEF Counted, Tasks
  <2> QED BY <1>1, <2>2, <2>3 DEF InHand, Making, Made, MakingOne
<1>8. Dues'
  BY <1>1, <1>6 DEF ServerInv, Dues, MakingOne, Counted, AllDown, Tasks
<1>9. Reads'
  <2>1. ASSUME NEW u \in Tasks, counting'[u].read # NotRead
        PROVE  /\ ~Counted(u)' /\ counting'[u].due[1].buffer # 0
               /\ \/ counting'[u].due[1].buffer \in miscounted'
                  \/ /\ counting'[u].read = count'[counting'[u].due[1].buffer]
                     /\ \A v \in Tasks : v # u => ~At(v, counting[u].due[1].buffer)'
    <3>1. CASE u = t
      <4>1. ~Counted(u)' /\ counting'[u].due[1].buffer = b /\ counting'[u].read = count'[b]
        BY <1>1, <1>4, <1>6, <3>1 DEF Counted
      <4>2. ASSUME b \notin miscounted', NEW v \in Tasks, v # u PROVE ~At(v, b)'
        <5>1. counting'[v] = counting[v]
          BY <1>6, <3>1, <4>2
        <5>2. ASSUME At(v, b) PROVE FALSE
          <6>1. \E w \in Tasks : At(w, b)
            BY <5>2
          <6>2. b \in miscounted'
            <7> HIDE DEF b
            <7> QED BY <1>1, <6>1
          <6> QED BY <4>2, <6>2
        <5> QED BY <1>4, <1>6, <5>1, <5>2 DEF At
      <4> HIDE DEF b
      <4> QED BY <1>1, <3>1, <4>1, <4>2 DEF b
    <3>2. CASE u # t
      <4> DEFINE x == counting[u].due[1].buffer
      <4>1. counting'[u] = counting[u]
        BY <1>6, <3>2
      <4>2. ~Counted(u) /\ x # 0 /\ (x \in miscounted \/ counting[u].read = count[x])
        BY <2>1, <4>1 DEF ServerInv, Reads
      <4>3. x = b => b \in miscounted'
        <5>1. x = b => At(u, b)
          BY <2>1, <4>1 DEF At
        <5> QED BY <1>1, <5>1
      <4>4. x # b => ~At(t, x)'
        BY <1>4, <1>6 DEF At
      <4>5. \A v \in Tasks : v # u => v = t
        BY <3>2 DEF Tasks
      <4>6. ~Counted(u)'
        BY <4>1, <4>2 DEF Counted
      <4>7. miscounted \subseteq miscounted'
        BY <1>1
      <4>8. x # b => \A v \in Tasks : v # u => ~At(v, x)'
        BY <4>4, <4>5
      <4> HIDE DEF b
      <4> QED BY <1>1, <4>1, <4>2, <4>3, <4>6, <4>7, <4>8
    <3> QED BY <3>1, <3>2
  <2> QED BY <2>1 DEF Reads
<1>10. miscounted \subseteq miscounted'
  BY <1>1
<1>11. \A x \in DOMAIN count : x \notin miscounted' => count'[x] = Uses(x)' + InHand(x)'
  BY <1>1, <1>7, <1>10 DEF ServerInv, Exact
<1>12. /\ \A x \in DOMAIN count : count'[x] \in Nat
       /\ \E n \in Nat : count' \in [1..n -> Nat]
  BY <1>1 DEF ServerInv, ServerTypes
<1>13. \A x \in Nat \ {0} : Uses(x)' # 0 => Uses(x) # 0
  BY <1>7
<1> QED BY <1>1, <1>6, <1>8, <1>9, <1>10, <1>11, <1>12, <1>13, CountingKeeps

(* One is done; the uses of its buffer are one less. *)
LEMMA OneCounted ==
  ASSUME ServerInv, UNCHANGED client, NEW t \in Tasks, ~Counted(t),
         counting' \in [Tasks -> CountState], counting'[t].due = Tail(counting[t].due),
         \A u \in Tasks : u # t => counting'[u] = counting[u], NEW x \in Nat \ {0}
  PROVE  Uses(x)' = Uses(x) - IF counting[t].due[1].buffer = x THEN 1 ELSE 0
<1> DEFINE due == counting[t].due
           one == IF due[1].buffer = x THEN 1 ELSE 0
           h == Cardinality(Held(x))
<1>1. due \in Seq(Due) /\ due # <<>>
  BY DEF ServerInv, ServerTypes, CountState, Counted
<1>2. Times(due, x) = one + Times(Tail(due), x)
  BY <1>1, TailTimes
<1>3. Times(Tail(due), x) \in Nat /\ Times(due, x) \in Nat
  <2>1. Tail(due) \in Seq(Due)
    BY <1>1, HeadTailProperties
  <2> HIDE DEF due
  <2> QED BY <1>1, <2>1, TimesIsNat
<1>4. Held(x)' = Held(x)
  BY DEF Held
<1>5. h \in Nat /\ \A u \in Tasks : Times(counting[u].due, x) \in Nat
  BY UsesIsNat DEF ServerInv
<1>6. \A u \in Tasks : Times(counting'[u].due, x) = IF u = t THEN Times(Tail(due), x) ELSE Times(counting[u].due, x)
  OBVIOUS
<1>7. Uses(x) = h + Times(counting["app"].due, x) + Times(counting["tcp"].due, x)
  BY DEF Uses
<1>8. Uses(x)' = h + Times(counting'["app"].due, x) + Times(counting'["tcp"].due, x)
  BY <1>4 DEF Uses
<1>9. one \in {0, 1}
  OBVIOUS
<1> HIDE DEF Times, h, one
<1>10. CASE t = "app"
  <2>1. /\ Times(counting'["app"].due, x) = Times(Tail(due), x)
        /\ Times(counting'["tcp"].due, x) = Times(counting["tcp"].due, x)
        /\ Times(counting["app"].due, x) = Times(due, x) /\ Times(counting["tcp"].due, x) \in Nat
    BY <1>5, <1>6, <1>10 DEF Tasks
  <2> HIDE DEF due
  <2>2. Uses(x)' = Uses(x) - one
    BY <1>2, <1>3, <1>5, <1>7, <1>8, <1>9, <2>1
  <2> QED BY <2>2 DEF one, due
<1>11. CASE t = "tcp"
  <2>1. /\ Times(counting'["tcp"].due, x) = Times(Tail(due), x)
        /\ Times(counting'["app"].due, x) = Times(counting["app"].due, x)
        /\ Times(counting["tcp"].due, x) = Times(due, x) /\ Times(counting["app"].due, x) \in Nat
    BY <1>5, <1>6, <1>11 DEF Tasks
  <2> HIDE DEF due
  <2>2. Uses(x)' = Uses(x) - one
    BY <1>2, <1>3, <1>5, <1>7, <1>8, <1>9, <2>1
  <2> QED BY <2>2 DEF one, due
<1> QED BY <1>10, <1>11 DEF Tasks

(* What is left to count is as it was, but for the first of task t. *)
LEMMA DuesGoOn ==
  ASSUME ServerInv, UNCHANGED task, NEW t \in Tasks, ~Counted(t),
         counting' \in [Tasks -> CountState], counting'[t].due = Tail(counting[t].due),
         \A u \in Tasks : u # t => counting'[u] = counting[u]
  PROVE  Dues'
<1> DEFINE due == counting[t].due
<1>1. due \in Seq(Due) /\ due # <<>>
  BY DEF ServerInv, ServerTypes, CountState, Counted
<1>2. AllDown(due) => AllDown(Tail(due))
  <2>1. ASSUME AllDown(due), NEW i \in DOMAIN Tail(due) PROVE ~Tail(due)[i].up
    <3>1. i \in 1..Len(Tail(due)) /\ Tail(due)[i] = due[i + 1] /\ i + 1 \in DOMAIN due
      BY <1>1, HeadTailProperties
    <3> QED BY <2>1, <3>1 DEF AllDown
  <2> QED BY <2>1 DEF AllDown
<1>3. t = "app" /\ MakingOne => Tail(due) = <<>>
  <2>1. t = "app" /\ MakingOne => due = Up(task["app"].of)
    BY <1>1 DEF ServerInv, Dues
  <2> DEFINE r == [buffer |-> task["app"].of, up |-> TRUE]
  <2>2. Up(task["app"].of) = <<r>>
    BY DEF Up
  <2> HIDE DEF r, due
  <2>3. Tail(<<r>>) = <<>>
    OBVIOUS
  <2> QED BY <2>1, <2>2, <2>3
<1>4. t = "tcp" => task["tcp"].pc = "idle"
  BY DEF ServerInv, Dues
<1> HIDE DEF due
<1>5. CASE t = "app"
  BY <1>2, <1>3, <1>5 DEF ServerInv, Dues, Tasks, MakingOne, Counted, due, AllDown
<1>6. CASE t = "tcp"
  BY <1>2, <1>4, <1>6 DEF ServerInv, Dues, Tasks, MakingOne, Counted, due, AllDown
<1> QED BY <1>5, <1>6 DEF Tasks

(* What is counted up is the message that textAll() is making. *)
LEMMA CountsUp ==
  ASSUME ServerInv, NEW t \in Tasks, ~Counted(t)
  PROVE  /\ counting[t].due[1].up <=> t = "app" /\ MakingOne
         /\ t = "app" /\ MakingOne =>
              counting[t].due[1].buffer = task["app"].of /\ Tail(counting[t].due) = <<>>
<1> DEFINE due == counting[t].due
           r == [buffer |-> task["app"].of, up |-> TRUE]
<1>1. due \in Seq(Due) /\ due # <<>>
  BY DEF ServerInv, ServerTypes, CountState, Counted
<1>2. 1 \in DOMAIN due
  BY <1>1
<1>3. CASE t = "app" /\ MakingOne
  <2>1. due = <<r>>
    BY <1>1, <1>3 DEF ServerInv, Dues, Up
  <2>2. r.up /\ r.buffer = task["app"].of
    OBVIOUS
  <2> HIDE DEF r, due
  <2>3. <<r>>[1] = r /\ Tail(<<r>>) = <<>>
    OBVIOUS
  <2>4. due[1].up /\ due[1].buffer = task["app"].of /\ Tail(due) = <<>>
    BY <2>1, <2>2, <2>3
  <2> QED BY <1>3, <2>4 DEF due
<1>4. CASE ~(t = "app" /\ MakingOne)
  <2>1. AllDown(due)
    BY <1>4 DEF ServerInv, Dues, Tasks
  <2> QED BY <1>2, <1>4, <2>1 DEF AllDown
<1> QED BY <1>3, <1>4

(* The counter that task t writes is not too small to be counted down. *)
LEMMA EnoughToCount ==
  ASSUME ServerInv, NEW b \in DOMAIN count, b \notin miscounted, Times(counting["tcp"].due, b) # 0, ~Counted("tcp")
  PROVE  Uses(b) + InHand(b) > 0
<1>1. b \in Nat \ {0}
  BY DEF ServerInv, ServerTypes
<1>2. /\ Cardinality(Held(b)) \in Nat /\ Uses(b) \in Nat
      /\ Times(counting["app"].due, b) \in Nat /\ Times(counting["tcp"].due, b) \in Nat
  BY <1>1, UsesIsNat DEF ServerInv, Tasks
<1>3. Uses(b) = Cardinality(Held(b)) + Times(counting["app"].due, b) + Times(counting["tcp"].due, b)
  BY DEF Uses
<1>4. InHand(b) = -1 => Times(counting["app"].due, b) # 0
  <2>1. ASSUME InHand(b) = -1 PROVE Making(b) /\ MakingOne /\ ~Counted("app")
    BY <2>1 DEF InHand
  <2>2. ASSUME Making(b), MakingOne, ~Counted("app") PROVE Times(counting["app"].due, b) # 0
    <3>1. counting["app"].due[1].buffer = b
      BY <2>2, CountsUp DEF Making, Tasks
    <3> QED BY <1>1, <2>2, <3>1, ToCount DEF Tasks
  <2> QED BY <2>1, <2>2
<1>5. InHand(b) \in {-1, 0, 1}
  BY DEF InHand
<1> HIDE DEF Times, Uses, InHand
<1> QED BY <1>2, <1>3, <1>4, <1>5

LEMMA CountWritesKeeps ==
  ASSUME ServerInv, NEW t \in Tasks, CountWrites(t)
  PROVE  ServerInv'
<1> DEFINE due == counting[t].due
           b == due[1].buffer
           n == counting[t].read
           v == IF due[1].up THEN n + 1 ELSE IF n > 0 THEN n - 1 ELSE count[b]
           r == [due |-> Tail(due), read |-> NotRead]
<1>1. /\ n # NotRead /\ count' = [count EXCEPT ![b] = v] /\ counting' = [counting EXCEPT ![t] = r]
      /\ UNCHANGED <<clients, client, bufferList, guard, task, calls, early, miscounted>>
  BY DEF CountWrites
<1>2. ~Counted(t) /\ b # 0
  BY <1>1 DEF ServerInv, Reads
<1>3. b \in Nat \ {0} /\ b \in DOMAIN count /\ Times(due, b) # 0 /\ Uses(b) # 0 /\ count[b] \in Nat
  BY <1>2, ToCount
<1>4. /\ counting \in [Tasks -> CountState] /\ due \in Seq(Due) /\ due # <<>> /\ n \in Nat
  BY <1>1, <1>2 DEF ServerInv, ServerTypes, CountState, Counted
<1>5. r \in CountState /\ r.due = Tail(due) /\ r.read = NotRead
  <2>1. Tail(due) \in Seq(Due)
    BY <1>4, HeadTailProperties
  <2> QED BY <2>1 DEF CountState
<1> HIDE DEF r
<1>6. /\ counting' \in [Tasks -> CountState] /\ counting'[t] = r
      /\ \A u \in Tasks : u # t => counting'[u] = counting[u]
  BY <1>1, <1>4, <1>5
<1>7. v \in Nat
  BY <1>3, <1>4
<1>8. /\ DOMAIN count' = DOMAIN count /\ count'[b] = v
      /\ \A x \in DOMAIN count : count'[x] \in Nat /\ (x # b => count'[x] = count[x])
      /\ \E k \in Nat : count' \in [1..k -> Nat]
  <2>1. PICK k \in Nat : count \in [1..k -> Nat]
    BY DEF ServerInv, ServerTypes
  <2> HIDE DEF v, b
  <2> QED BY <1>1, <1>3, <1>7, <2>1
<1>9. Dues'
  BY <1>1, <1>2, <1>5, <1>6, DuesGoOn
<1>10. \A x \in Nat \ {0} : Uses(x)' = Uses(x) - IF b = x THEN 1 ELSE 0
  BY <1>1, <1>2, <1>5, <1>6, OneCounted
<1>11. ASSUME NEW x \in Nat \ {0}, Uses(x)' # 0 PROVE Uses(x) # 0
  <2>1. b # x => Uses(x)' = Uses(x) - 0
    BY <1>10
  <2>2. Uses(x) \in Nat
    BY UsesIsNat DEF ServerInv
  <2> HIDE DEF Uses
  <2> QED BY <1>3, <1>11, <2>1, <2>2
<1>12. Reads'
  <2>1. ASSUME NEW u \in Tasks, counting'[u].read # NotRead
        PROVE  /\ ~Counted(u)' /\ counting'[u].due[1].buffer # 0
               /\ \/ counting'[u].due[1].buffer \in miscounted'
                  \/ /\ counting'[u].read = count'[counting'[u].due[1].buffer]
                     /\ \A w \in Tasks : w # u => ~At(w, counting[u].due[1].buffer)'
    <3>1. u # t /\ counting'[u] = counting[u]
      BY <1>5, <1>6, <2>1
    <3> DEFINE x == counting[u].due[1].buffer
    <3>2. /\ ~Counted(u) /\ x # 0
          /\ \/ x \in miscounted
             \/ counting[u].read = count[x] /\ \A w \in Tasks : w # u => ~At(w, x)
      BY <2>1, <3>1 DEF ServerInv, Reads
    <3>3. At(t, b)
      BY <1>1 DEF At
    <3>4. x \in DOMAIN count
      BY <3>2, ToCount
    <3>5. \A w \in Tasks : w # u => w = t
      BY <3>1 DEF Tasks
    <3>6. ~At(t, counting[u].due[1].buffer)'
      BY <1>5, <1>6 DEF At
    <3>7. ~Counted(u)'
      BY <3>1, <3>2 DEF Counted
    <3>8. x \notin miscounted => counting[u].read = count'[x]
      <4>1. x \notin miscounted => x # b
        BY <3>1, <3>2, <3>3
      <4> HIDE DEF x, b
      <4> QED BY <1>8, <3>2, <3>4, <4>1 DEF x
    <3> QED BY <1>1, <3>1, <3>2, <3>5, <3>6, <3>7, <3>8
  <2> QED BY <2>1 DEF Reads
<1>13. ASSUME NEW x \in DOMAIN count, x \notin miscounted PROVE count'[x] = Uses(x)' + InHand(x)'
  <2>1. x \in Nat \ {0}
    BY DEF ServerInv, ServerTypes
  <2>2. count[x] = Uses(x) + InHand(x) /\ Uses(x) \in Nat /\ InHand(x) \in {-1, 0, 1}
    BY <1>13, <2>1, UsesIsNat DEF ServerInv, Exact, InHand
  <2>3. t # "app" \/ ~MakingOne \/ x # task["app"].of => InHand(x)' = InHand(x)
    <3>1. t # "app" => counting'["app"] = counting["app"]
      BY <1>6 DEF Tasks
    <3> QED BY <1>1, <3>1 DEF InHand, Making, Made, MakingOne, Counted
  <2>4. t = "app" /\ MakingOne => b = task["app"].of /\ Tail(due) = <<>>
    BY <1>2, CountsUp
  <2>5. CASE x # b
    <3>1. InHand(x)' = InHand(x)
      BY <2>3, <2>4, <2>5
    <3>2. Uses(x)' = Uses(x) - 0
      BY <1>10, <2>1, <2>5
    <3>3. count'[x] = count[x]
      BY <1>8, <2>5
    <3> HIDE DEF Uses, InHand
    <3> QED BY <2>2, <3>1, <3>2, <3>3
  <2>6. CASE x = b
    <3>1. n = count[x]
      BY <1>1, <1>13, <2>6 DEF ServerInv, Reads
    <3>2. Uses(x)' = Uses(x) - 1
      BY <1>10, <2>1, <2>6
    <3>3. CASE t = "app" /\ MakingOne
      <4>1. Making(x) /\ Making(x)' /\ MakingOne'
        BY <1>1, <2>4, <2>6, <3>3 DEF Making, Made, MakingOne
      <4>2. InHand(x) = -1
        BY <1>2, <3>3, <4>1 DEF InHand
      <4>3. InHand(x)' = 1
        <5>1. Counted("app")'
          BY <1>5, <1>6, <2>4, <3>3 DEF Counted
        <5> QED BY <4>1, <5>1 DEF InHand
      <4>4. v = n + 1
        BY <1>2, <3>3, CountsUp
      <4> HIDE DEF Uses, InHand, v, n
      <4> QED BY <1>8, <2>2, <2>6, <3>1, <3>2, <4>2, <4>3, <4>4
    <3>4. CASE ~(t = "app" /\ MakingOne)
      <4>1. InHand(x)' = InHand(x)
        BY <2>3, <3>4
      <4>2. n > 0
        <5>1. CASE t = "app"
          <6>1. InHand(x) = 0
            BY <3>4, <5>1 DEF InHand
          <6> HIDE DEF Uses, InHand, n
          <6> QED BY <1>3, <2>2, <2>6, <3>1, <6>1
        <5>2. CASE t = "tcp"
          <6>1. Uses(x) + InHand(x) > 0
            BY <1>2, <1>3, <1>13, <2>6, <5>2, EnoughToCount
          <6> HIDE DEF Uses, InHand, n
          <6> QED BY <2>2, <3>1, <6>1
        <5> QED BY <5>1, <5>2 DEF Tasks
      <4>3. v = n - 1
        BY <1>2, <3>4, <4>2, CountsUp
      <4> HIDE DEF Uses, InHand, v, n
      <4> QED BY <1>8, <2>2, <2>6, <3>1, <3>2, <4>1, <4>3
    <3> QED BY <3>3, <3>4
  <2> QED BY <2>5, <2>6
<1>14. miscounted \subseteq miscounted'
  BY <1>1
<1>15. \A x \in DOMAIN count : x \notin miscounted' => count'[x] = Uses(x)' + InHand(x)'
  BY <1>1, <1>13
<1> QED BY <1>1, <1>6, <1>8, <1>9, <1>11, <1>12, <1>14, <1>15, CountingKeeps

LEMMA CountSkipsKeeps ==
  ASSUME ServerInv, NEW t \in Tasks, CountSkips(t)
  PROVE  ServerInv'
<1> DEFINE due == counting[t].due
           r == [due |-> Tail(due), read |-> NotRead]
<1>1. /\ ~Counted(t) /\ due[1].buffer = 0
      /\ counting' = [counting EXCEPT ![t] = [counting[t] EXCEPT !.due = Tail(due)]]
      /\ UNCHANGED <<clients, client, bufferList, guard, task, calls, early, count, miscounted>>
      /\ counting \in [Tasks -> CountState]
  BY DEF CountSkips, ServerInv, ServerTypes
<1>2. due \in Seq(Due) /\ due # <<>> /\ counting[t].read = NotRead
  BY <1>1 DEF ServerInv, ServerTypes, CountState, Counted, Reads
<1>3. r \in CountState /\ r.due = Tail(due) /\ r.read = NotRead
  <2>1. Tail(due) \in Seq(Due)
    BY <1>2, HeadTailProperties
  <2> QED BY <2>1 DEF CountState
<1>4. counting' = [counting EXCEPT ![t] = r]
  <2>1. [counting[t] EXCEPT !.due = Tail(due)] = r
    <3> DEFINE z == Tail(due)
    <3> HIDE DEF z
    <3>1. [counting[t] EXCEPT !.due = z] = [due |-> z, read |-> NotRead]
      BY <1>1, <1>2 DEF CountState
    <3> QED BY <3>1 DEF z
  <2> QED BY <1>1, <2>1
<1> HIDE DEF r
<1>5. /\ counting' \in [Tasks -> CountState] /\ counting'[t] = r
      /\ \A u \in Tasks : u # t => counting'[u] = counting[u]
  BY <1>1, <1>3, <1>4
<1>6. Dues'
  BY <1>1, <1>3, <1>5, DuesGoOn
<1>7. \A x \in Nat \ {0} : Uses(x)' = Uses(x)
  <2>1. \A x \in Nat \ {0} : Uses(x)' = Uses(x) - IF due[1].buffer = x THEN 1 ELSE 0
    BY <1>1, <1>3, <1>5, OneCounted
  <2>2. \A x \in Nat \ {0} : Uses(x)' = Uses(x) - 0 /\ Uses(x) \in Nat
    BY <1>1, <2>1, UsesIsNat DEF ServerInv
  <2> HIDE DEF Uses
  <2> QED BY <2>2
<1>8. Reads'
  <2>1. ASSUME NEW u \in Tasks, counting'[u].read # NotRead
        PROVE  /\ ~Counted(u)' /\ counting'[u].due[1].buffer # 0
               /\ \/ counting'[u].due[1].buffer \in miscounted'
                  \/ /\ counting'[u].read = count'[counting'[u].due[1].buffer]
                     /\ \A w \in Tasks : w # u => ~At(w, counting[u].due[1].buffer)'
    <3>1. u # t /\ counting'[u] = counting[u]
      BY <1>3, <1>5, <2>1
    <3> DEFINE x == counting[u].due[1].buffer
    <3>2. /\ ~Counted(u) /\ x # 0 /\ (x \in miscounted \/ counting[u].read = count[x])
      BY <2>1, <3>1 DEF ServerInv, Reads
    <3>3. \A w \in Tasks : w # u => w = t
      BY <3>1 DEF Tasks
    <3>4. ~At(t, counting[u].due[1].buffer)'
      BY <1>3, <1>5 DEF At
    <3>5. ~Counted(u)'
      BY <3>1, <3>2 DEF Counted
    <3> QED BY <1>1, <3>1, <3>2, <3>3, <3>4, <3>5
  <2> QED BY <2>1 DEF Reads
<1>9. ASSUME NEW x \in DOMAIN count, x \notin miscounted PROVE count'[x] = Uses(x)' + InHand(x)'
  <2>1. x \in Nat \ {0}
    BY DEF ServerInv, ServerTypes
  <2>2. count[x] = Uses(x) + InHand(x)
    BY <1>9 DEF ServerInv, Exact
  <2>3. t = "app" => ~(MakingOne /\ task["app"].of = x)
    BY <1>1, <2>1, CountsUp
  <2>4. t # "app" => counting'["app"] = counting["app"]
    BY <1>5 DEF Tasks
  <2>5. InHand(x)' = InHand(x)
    BY <1>1, <2>3, <2>4 DEF InHand, Making, Made, MakingOne, Counted
  <2> QED BY <1>1, <1>7, <2>1, <2>2, <2>5
<1>10. miscounted \subseteq miscounted' /\ DOMAIN count' = DOMAIN count
  BY <1>1
<1>11. /\ \A x \in DOMAIN count : count'[x] \in Nat
       /\ \E n \in Nat : count' \in [1..n -> Nat]
  BY <1>1 DEF ServerInv, ServerTypes
<1>12. \A x \in DOMAIN count : x \notin miscounted' => count'[x] = Uses(x)' + InHand(x)'
  BY <1>1, <1>9
<1>13. \A x \in Nat \ {0} : Uses(x)' # 0 => Uses(x) # 0
  BY <1>7
<1> QED BY <1>1, <1>5, <1>6, <1>8, <1>10, <1>11, <1>12, <1>13, CountingKeeps

-----------------------------------------------------------------------------
(* The turns of textAll() *)

LEMMA TailDistinct ==
  ASSUME NEW X, NEW s \in Seq(X), s # <<>>, Distinct(s)
  PROVE  /\ Tail(s) \in Seq(X) /\ Head(s) \in X /\ Distinct(Tail(s))
         /\ \E k \in DOMAIN s : s[k] = Head(s)
         /\ \A i \in DOMAIN Tail(s) : Tail(s)[i] # Head(s) /\ Tail(s)[i] \in X /\ \E k \in DOMAIN s : s[k] = Tail(s)[i]
<1> DEFINE r == Tail(s)
<1>1. /\ r \in Seq(X) /\ Len(r) = Len(s) - 1 /\ Len(s) \in Nat \ {0} /\ Head(s) = s[1] /\ 1 \in DOMAIN s
      /\ \A i \in 1..Len(r) : r[i] = s[i + 1] /\ i + 1 \in DOMAIN s /\ i \in Nat
      /\ DOMAIN r = 1..Len(r)
  BY HeadTailProperties
<1> HIDE DEF r
<1>2. ASSUME NEW i \in DOMAIN r PROVE r[i] # Head(s) /\ r[i] \in X /\ \E k \in DOMAIN s : s[k] = r[i]
  <2>1. i + 1 # 1
    BY <1>1
  <2> QED BY <1>1, <2>1 DEF Distinct
<1>3. ASSUME NEW i \in DOMAIN r, NEW j \in DOMAIN r, r[i] = r[j] PROVE i = j
  <2>1. i + 1 = j + 1
    BY <1>1, <1>3 DEF Distinct
  <2> QED BY <1>1, <2>1
<1>4. Distinct(r)
  BY <1>3 DEF Distinct
<1>5. Head(s) \in X
  BY <1>1
<1> QED BY <1>1, <1>2, <1>4, <1>5 DEF r

LEMMA Wider ==
  ASSUME NEW n, NEW s \in Seq(1..n)
  PROVE  s \in Seq(Nat \ {0}) /\ \A i \in DOMAIN s : s[i] \in 1..n
<1> DEFINE S == 1..n
<1>1. S \subseteq Nat \ {0} /\ s \in Seq(S)
  OBVIOUS
<1> HIDE DEF S
<1>2. DOMAIN s = 1..Len(s) /\ Len(s) \in Nat /\ \A i \in 1..Len(s) : s[i] \in S
  BY <1>1, ElementOfSeq
<1>3. s \in Seq(Nat \ {0})
  BY <1>1, SeqMonotonic
<1> QED BY <1>2, <1>3 DEF S

(* The turns in which no message comes or goes *)
LEMMA ATurnKeeps ==
  ASSUME ServerInv, UNCHANGED <<clients, client, bufferList, guard, calls, early, counters>>,
         NEW s \in TaskState, task' = [task EXCEPT !["app"] = s], s.of = task["app"].of,
         task["app"].pc \in {"made", "locked", "texting"}, s.pc \in {"locked", "texting", "clean"}, Reached'
  PROVE  ServerInv'
<1>1. task \in [Tasks -> TaskState] /\ "app" \in Tasks /\ "tcp" \in Tasks
  BY DEF ServerInv, ServerTypes, Tasks
<1>2. task' \in [Tasks -> TaskState] /\ task'["app"] = s /\ task'["tcp"] = task["tcp"]
  BY <1>1
<1>3. ~MakingOne /\ ~MakingOne' /\ Made
  BY <1>2 DEF MakingOne, Made
<1>4. (\A b : Uses(b)' = Uses(b)) /\ Reads' /\ Exact'
  <2>1. \A b : InHand(b)' = InHand(b)
    BY <1>3 DEF InHand
  <2> QED BY <2>1, UncountedKeeps
<1>5. UsedKept' /\ Guarded' /\ Removable' /\ MadeKept'
  <2>1. ASSUME NEW t \in Tasks
        PROVE  /\ Cleans(t)' <=> Cleans(t)
               /\ task'[t].pc = "removing" => task[t].pc = "removing" /\ task'[t].rest = task[t].rest
    BY <1>2 DEF Cleans, Tasks
  <2>2. miscounted \subseteq miscounted' /\ DOMAIN count' = DOMAIN count
    BY DEF counters
  <2>3. Made' => Made /\ task'["app"].of = task["app"].of
    BY <1>2, <1>3
  <2>4. \A b \in Nat \ {0} : Uses(b)' # 0 => Uses(b) # 0 \/ Making(b)
    BY <1>4
  <2> QED BY <2>1, <2>2, <2>3, <2>4, QuietKeeps
<1>6. Dues'
  BY <1>2, <1>3 DEF ServerInv, Dues, AllDown, Counted, counters
<1>7. ServerTypes'
  BY <1>2 DEF ServerInv, ServerTypes, counters
<1> QED BY <1>4, <1>5, <1>6, <1>7 DEF ServerInv

(* Who awaits a broadcast is among those who did, or it starts with them. *)
LEMMA TurnReached ==
  ASSUME ServerInv, UNCHANGED <<clients, client>>, task'["app"].sure => task["app"].sure,
         Made' => Made, ~MakingOne',
         Looping' => Distinct(task'["app"].rest) /\ \A i \in DOMAIN task'["app"].rest : task'["app"].rest[i] \in 1..Ids,
         \A o \in 1..Ids : Looping' /\ Looping /\ (\E i \in DOMAIN task'["app"].rest : task'["app"].rest[i] = o) =>
            \E i \in DOMAIN task["app"].rest : task["app"].rest[i] = o,
         Looping /\ Made' => Looping'
  PROVE  Reached'
<1>1. ASSUME NEW o \in 1..Ids, Awaits(o)' PROVE Awaits(o)
  BY <1>1 DEF Awaits
<1>2. ASSUME NEW o \in 1..Ids
      PROVE  /\ Connected(o)' => InList(o)'
             /\ client'[o].status = "none" => ~InList(o)' /\ client'[o].messages = <<>>
             /\ Awaits(o)' /\ Connected(o)' => Len(client'[o].messages) < ClientQueueLimit
  BY <1>1 DEF ServerInv, Reached, Connected, InList
<1>3. Distinct(clients)'
  BY DEF ServerInv, Reached, Distinct
<1>4. Looping' => Distinct(task["app"].rest)' /\ \A i \in DOMAIN task'["app"].rest : task'["app"].rest[i] \in 1..Ids
  BY DEF Distinct
<1> QED BY <1>2, <1>3, <1>4 DEF Reached

LEMMA LockBufferKeeps ==
  ASSUME ServerInv, LockBuffer
  PROVE  ServerInv'
<1> DEFINE s == [task["app"] EXCEPT !.pc = "locked"]
<1>1. /\ task["app"].pc = "made" /\ task' = [task EXCEPT !["app"] = s] /\ task["app"] \in TaskState
      /\ UNCHANGED <<clients, client, bufferList, guard, calls, early, counters>>
      /\ task \in [Tasks -> TaskState] /\ "app" \in Tasks
  BY DEF LockBuffer, ServerInv, ServerTypes, Tasks
<1>2. s \in TaskState /\ s.pc = "locked" /\ s.of = task["app"].of /\ s.sure = task["app"].sure
  BY <1>1 DEF TaskState
<1> HIDE DEF s
<1>3. task'["app"] = s
  BY <1>1
<1>4. Reached'
  <2>1. ~Looping /\ ~Looping' /\ Made /\ ~MakingOne'
    BY <1>1, <1>2, <1>3 DEF Looping, Made, MakingOne
  <2> QED BY <1>1, <1>2, <1>3, <2>1, TurnReached
<1> QED BY <1>1, <1>2, <1>4, ATurnKeeps

LEMMA TextAllKeeps ==
  ASSUME ServerInv, TextAll
  PROVE  ServerInv'
<1> DEFINE s == [task["app"] EXCEPT !.pc = "texting", !.rest = clients]
<1>1. /\ task["app"].pc = "locked" /\ task' = [task EXCEPT !["app"] = s] /\ task["app"] \in TaskState
      /\ UNCHANGED <<clients, client, bufferList, guard, calls, early, counters>>
      /\ task \in [Tasks -> TaskState] /\ "app" \in Tasks /\ clients \in Seq(1..Ids)
  BY DEF TextAll, ServerInv, ServerTypes, Tasks
<1>2. clients \in Seq(Nat \ {0}) /\ \A i \in DOMAIN clients : clients[i] \in 1..Ids
  <2>1. clients \in Seq(1..Ids)
    BY <1>1
  <2> QED BY <2>1, Wider
<1>3. s \in TaskState /\ s.pc = "texting" /\ s.of = task["app"].of /\ s.sure = task["app"].sure /\ s.rest = clients
  BY <1>1, <1>2 DEF TaskState
<1> HIDE DEF s
<1>4. task'["app"] = s
  BY <1>1
<1>5. Reached'
  <2>1. ~Looping /\ Made /\ ~MakingOne'
    BY <1>1, <1>3, <1>4 DEF Looping, Made, MakingOne
  <2>2. Distinct(task'["app"].rest) /\ \A i \in DOMAIN task'["app"].rest : task'["app"].rest[i] \in 1..Ids
    BY <1>2, <1>3, <1>4 DEF ServerInv, Reached
  <2> QED BY <1>1, <1>3, <1>4, <2>1, <2>2, TurnReached
<1> QED BY <1>1, <1>3, <1>5, ATurnKeeps

LEMMA TextPassesKeeps ==
  ASSUME ServerInv, TextPasses
  PROVE  ServerInv'
<1> DEFINE rest == task["app"].rest
           s == [task["app"] EXCEPT !.rest = Tail(rest)]
<1>1. /\ task["app"].pc = "texting" /\ task' = [task EXCEPT !["app"] = s] /\ task["app"] \in TaskState
      /\ UNCHANGED <<clients, client, bufferList, guard, calls, early, counters>>
      /\ task \in [Tasks -> TaskState] /\ "app" \in Tasks
      /\ rest \in Seq(Nat \ {0}) /\ rest # <<>> /\ Distinct(rest) /\ \A i \in DOMAIN rest : rest[i] \in 1..Ids
  BY DEF TextPasses, ServerInv, ServerTypes, Tasks, TaskState, Reached, Looping
<1>2. /\ Tail(rest) \in Seq(Nat \ {0}) /\ Distinct(Tail(rest))
      /\ \A i \in DOMAIN Tail(rest) : \E k \in DOMAIN rest : rest[k] = Tail(rest)[i]
  <2> HIDE DEF rest
  <2> QED BY <1>1, TailDistinct
<1>3. s \in TaskState /\ s.pc = "texting" /\ s.of = task["app"].of /\ s.sure = task["app"].sure /\ s.rest = Tail(rest)
  <2> DEFINE z == Tail(rest)
  <2> HIDE DEF z
  <2> QED BY <1>1, <1>2 DEF TaskState, z
<1> HIDE DEF s
<1>4. task'["app"] = s
  BY <1>1
<1>5. Reached'
  <2>1. Looping /\ Looping' /\ Made /\ ~MakingOne'
    BY <1>1, <1>3, <1>4 DEF Looping, Made, MakingOne
  <2>2. Distinct(task'["app"].rest) /\ \A i \in DOMAIN task'["app"].rest : task'["app"].rest[i] \in 1..Ids
    BY <1>1, <1>2, <1>3, <1>4
  <2>3. \A o \in 1..Ids : (\E i \in DOMAIN task'["app"].rest : task'["app"].rest[i] = o) =>
            \E i \in DOMAIN task["app"].rest : task["app"].rest[i] = o
    BY <1>2, <1>3, <1>4
  <2> QED BY <1>1, <1>3, <1>4, <2>1, <2>2, <2>3, TurnReached
<1> QED BY <1>1, <1>3, <1>5, ATurnKeeps

LEMMA UnlockBufferKeeps ==
  ASSUME ServerInv, UnlockBuffer
  PROVE  ServerInv'
<1> DEFINE s == [task["app"] EXCEPT !.pc = "clean"]
<1>1. /\ task["app"].pc = "texting" /\ task' = [task EXCEPT !["app"] = s] /\ task["app"] \in TaskState
      /\ UNCHANGED <<clients, client, bufferList, guard, calls, early, counters>>
      /\ task \in [Tasks -> TaskState] /\ "app" \in Tasks
  BY DEF UnlockBuffer, ServerInv, ServerTypes, Tasks
<1>2. s \in TaskState /\ s.pc = "clean" /\ s.of = task["app"].of /\ s.sure = task["app"].sure
  BY <1>1 DEF TaskState
<1> HIDE DEF s
<1>3. task'["app"] = s
  BY <1>1
<1>4. Reached'
  <2>1. ~Looping' /\ ~Made' /\ ~MakingOne'
    BY <1>1, <1>2, <1>3 DEF Looping, Made, MakingOne
  <2> QED BY <1>1, <1>2, <1>3, <2>1, TurnReached
<1> QED BY <1>1, <1>2, <1>4, ATurnKeeps

(* A message is made: it is to be counted, and is in no queue yet. *)
LEMMA MakeMessageKeeps ==
  ASSUME ServerInv, MakeMessage
  PROVE  ServerInv'
<1> DEFINE of == task["app"].of
           s == [task["app"] EXCEPT !.pc = "made one"]
           r == [due |-> Up(of), read |-> NotRead]
           one == [buffer |-> of, up |-> TRUE]
<1>1. /\ task["app"].pc = "texting" /\ Counted("app") /\ task["app"].rest # <<>>
      /\ task' = [task EXCEPT !["app"] = s] /\ counting' = [counting EXCEPT !["app"] = r]
      /\ UNCHANGED <<clients, client, bufferList, guard, calls, early, count, miscounted>>
      /\ task \in [Tasks -> TaskState] /\ task["app"] \in TaskState /\ "app" \in Tasks /\ "tcp" \in Tasks
      /\ counting \in [Tasks -> CountState]
  BY DEF MakeMessage, Counts, ServerInv, ServerTypes, Tasks
<1>2. s \in TaskState /\ s.pc = "made one" /\ s.of = of /\ s.sure = task["app"].sure /\ s.rest = task["app"].rest
  BY <1>1 DEF TaskState
<1>3. task' \in [Tasks -> TaskState] /\ task'["app"] = s /\ task'["tcp"] = task["tcp"]
  <2> HIDE DEF s
  <2> QED BY <1>1, <1>2
<1>4. /\ ~MakingOne /\ MakingOne' /\ Made /\ Made' /\ Looping /\ Looping'
      /\ of \in DOMAIN count /\ of \in Nat
  BY <1>1, <1>2, <1>3 DEF MakingOne, Made, Looping, ServerInv, MadeKept, TaskState
<1> HIDE DEF s
<1>5. Up(of) = <<one>> /\ one \in Due /\ one.buffer = of
  BY <1>4 DEF Up, Due
<1>6. r \in CountState /\ r.due = Up(of) /\ r.read = NotRead
  <2> HIDE DEF one, of
  <2>1. Up(of) \in Seq(Due)
    BY <1>5
  <2> QED BY <2>1 DEF CountState
<1> HIDE DEF r
<1>7. counting' \in [Tasks -> CountState] /\ counting'["app"] = r /\ counting'["tcp"] = counting["tcp"]
  BY <1>1, <1>6
<1>8. \A b \in Nat \ {0} : Uses(b)' = Uses(b) + (IF b = of THEN 1 ELSE 0) /\ Uses(b) \in Nat
  <2>1. ASSUME NEW b \in Nat \ {0} PROVE Uses(b)' = Uses(b) + (IF b = of THEN 1 ELSE 0) /\ Uses(b) \in Nat
    <3>1. Times(counting["app"].due, b) = 0
      BY <1>1, FS_EmptySet DEF Counted, Times, PlacesOf
    <3>2. Times(counting'["app"].due, b) = IF b = of THEN 1 ELSE 0
      <4> HIDE DEF one, of
      <4>1. Times(<<one>>, b) = IF b = of THEN 1 ELSE 0
        BY <1>5, OneTime
      <4> QED BY <1>5, <1>6, <1>7, <4>1
    <3>3. Held(b)' = Held(b)
      BY <1>1 DEF Held
    <3>4. Uses(b) \in Nat /\ Cardinality(Held(b)) \in Nat /\ Times(counting["tcp"].due, b) \in Nat
      BY <1>1, UsesIsNat DEF ServerInv
    <3>5. Uses(b) = Cardinality(Held(b)) + Times(counting["app"].due, b) + Times(counting["tcp"].due, b)
      BY DEF Uses
    <3>6. Uses(b)' = Cardinality(Held(b)) + Times(counting'["app"].due, b) + Times(counting["tcp"].due, b)
      BY <1>7, <3>3 DEF Uses
    <3> HIDE DEF Times, of
    <3> QED BY <3>1, <3>2, <3>4, <3>5, <3>6
  <2> QED BY <2>1
<1>9. Exact'
  <2>1. ASSUME NEW b \in DOMAIN count, b \notin miscounted PROVE count[b] = Uses(b)' + InHand(b)'
    <3>1. b \in Nat \ {0}
      BY DEF ServerInv, ServerTypes
    <3>2. count[b] = Uses(b) + InHand(b) /\ InHand(b) = 0
      BY <1>4, <2>1 DEF ServerInv, Exact, InHand
    <3>3. InHand(b)' = IF b = of THEN -1 ELSE 0
      <4>1. ~Counted("app")'
        <5> HIDE DEF one, of
        <5>1. <<one>> # <<>>
          OBVIOUS
        <5> QED BY <1>5, <1>6, <1>7, <5>1 DEF Counted
      <4>2. Making(b)' <=> b = of
        BY <1>2, <1>3, <1>4 DEF Making
      <4> HIDE DEF of
      <4> QED BY <1>4, <4>1, <4>2 DEF InHand
    <3> HIDE DEF Uses, InHand, of
    <3> QED BY <1>8, <3>1, <3>2, <3>3
  <2>2. \A b \in Nat \ {0} : IsFiniteSet(Held(b)')
    <3>1. \A b : Held(b)' = Held(b)
      BY <1>1 DEF Held
    <3> QED BY <3>1 DEF ServerInv, Exact
  <2>3. \A b \in DOMAIN count' : b \notin miscounted' => count'[b] = Uses(b)' + InHand(b)'
    BY <1>1, <2>1
  <2> QED BY <2>2, <2>3 DEF Exact
<1>10. Dues'
  BY <1>2, <1>3, <1>4, <1>6, <1>7 DEF ServerInv, Dues, AllDown, Counted
<1>11. Reads'
  <2>1. ASSUME NEW u \in Tasks, counting'[u].read # NotRead
        PROVE  /\ ~Counted(u)' /\ counting'[u].due[1].buffer # 0
               /\ \/ counting'[u].due[1].buffer \in miscounted'
                  \/ /\ counting'[u].read = count'[counting'[u].due[1].buffer]
                     /\ \A w \in Tasks : w # u => ~At(w, counting[u].due[1].buffer)'
    <3>1. u = "tcp" /\ counting'[u] = counting[u]
      BY <1>6, <1>7, <2>1 DEF Tasks
    <3>2. /\ ~Counted(u) /\ counting[u].due[1].buffer # 0
          /\ \/ counting[u].due[1].buffer \in miscounted
             \/ counting[u].read = count[counting[u].due[1].buffer]
      BY <2>1, <3>1 DEF ServerInv, Reads
    <3>3. \A w \in Tasks : w # u => w = "app"
      BY <3>1 DEF Tasks
    <3>4. ~At("app", counting[u].due[1].buffer)'
      BY <1>6, <1>7 DEF At
    <3>5. ~Counted(u)'
      BY <3>1, <3>2 DEF Counted
    <3> QED BY <1>1, <3>1, <3>2, <3>3, <3>4, <3>5
  <2> QED BY <2>1 DEF Reads
<1>12. UsedKept' /\ Guarded' /\ Removable' /\ MadeKept'
  <2>1. ASSUME NEW t \in Tasks
        PROVE  /\ Cleans(t)' <=> Cleans(t)
               /\ task'[t].pc = "removing" => task[t].pc = "removing" /\ task'[t].rest = task[t].rest
    BY <1>1, <1>2, <1>3 DEF Cleans, Tasks
  <2>2. Made' => Made /\ task'["app"].of = task["app"].of
    BY <1>2, <1>3, <1>4
  <2>3. \A b \in Nat \ {0} : Uses(b)' # 0 => Uses(b) # 0 \/ Making(b)
    <3>1. \A b \in Nat \ {0} : b # of => Uses(b)' = Uses(b) + 0 /\ Uses(b) \in Nat
      BY <1>8
    <3>2. Making(of)
      BY <1>4 DEF Making
    <3> HIDE DEF Uses, of
    <3> QED BY <3>1, <3>2
  <2>4. miscounted \subseteq miscounted' /\ DOMAIN count' = DOMAIN count
    BY <1>1
  <2> QED BY <1>1, <2>1, <2>2, <2>3, <2>4, QuietKeeps
<1>13. Reached'
  <2>1. \A o : Awaits(o)' <=> Awaits(o)
    BY <1>2, <1>3, <1>4 DEF Awaits
  <2>2. \A o \in 1..Ids : /\ Connected(o)' => InList(o)'
                          /\ client'[o].status = "none" => ~InList(o)' /\ client'[o].messages = <<>>
                          /\ Awaits(o)' /\ Connected(o)' => Len(client'[o].messages) < ClientQueueLimit
    BY <1>1, <2>1 DEF ServerInv, Reached, Connected, InList
  <2>3. task'["app"].rest = task["app"].rest /\ task["app"].rest # <<>>
    BY <1>1, <1>2, <1>3
  <2> QED BY <1>1, <1>4, <2>2, <2>3 DEF ServerInv, Reached, Distinct
<1>14. ServerTypes'
  BY <1>1, <1>3, <1>7 DEF ServerInv, ServerTypes
<1> QED BY <1>9, <1>10, <1>11, <1>12, <1>13, <1>14 DEF ServerInv

(* The message is queued, or finds no place. *)
LEMMA TextQueuesKeeps ==
  ASSUME ServerInv, TextQueues
  PROVE  ServerInv'
<1> DEFINE rest == task["app"].rest
           of == task["app"].of
           id == Head(rest)
           s == [task["app"] EXCEPT !.pc = "texting", !.rest = Tail(rest)]
<1>1. /\ task["app"].pc = "made one" /\ Counted("app") /\ task' = [task EXCEPT !["app"] = s]
      /\ Enqueue("app", id, of) /\ UNCHANGED <<clients, bufferList, guard, calls, early>>
      /\ task \in [Tasks -> TaskState] /\ task["app"] \in TaskState /\ "app" \in Tasks /\ "tcp" \in Tasks
      /\ client \in [1..Ids -> ClientState]
  BY DEF TextQueues, ServerInv, ServerTypes, Tasks
<1>2. /\ MakingOne /\ Made /\ Looping /\ of \in DOMAIN count /\ of \in Nat
      /\ rest \in Seq(Nat \ {0}) /\ rest # <<>> /\ Distinct(rest) /\ \A i \in DOMAIN rest : rest[i] \in 1..Ids
  BY <1>1 DEF MakingOne, Made, Looping, ServerInv, MadeKept, Reached, TaskState
<1>3. /\ Tail(rest) \in Seq(Nat \ {0}) /\ Distinct(Tail(rest))
      /\ \E k \in DOMAIN rest : rest[k] = id
      /\ \A i \in DOMAIN Tail(rest) : Tail(rest)[i] # id /\ \E k \in DOMAIN rest : rest[k] = Tail(rest)[i]
  <2> HIDE DEF rest
  <2> QED BY <1>2, TailDistinct
<1>4. id \in 1..Ids
  BY <1>2, <1>3
<1>5. s \in TaskState /\ s.pc = "texting" /\ s.of = of /\ s.sure = task["app"].sure /\ s.rest = Tail(rest)
  <2> DEFINE z == Tail(rest)
  <2> HIDE DEF z
  <2> QED BY <1>1, <1>3 DEF TaskState, z
<1> HIDE DEF s, id
<1>6. task' \in [Tasks -> TaskState] /\ task'["app"] = s /\ task'["tcp"] = task["tcp"]
  BY <1>1, <1>5
<1>7. PICK d \in ClientState, due \in Seq(Due) :
        Passed(client[id], of, d, due) /\ client' = [client EXCEPT ![id] = d] /\ Counts("app", due)
  BY <1>1, <1>2, <1>4, EnqueueKeeps, Zenon
<1>8. /\ d.status = client[id].status /\ AllDown(due)
      /\ \A x \in Nat : Times(d.messages, x) + Times(due, x) = Times(client[id].messages, x) + IF x = of THEN 1 ELSE 0
  BY <1>7 DEF Passed
<1>9. \A x : Puts("app", x) = IF x = of THEN 1 ELSE 0
  BY <1>2 DEF Puts
<1>10. Made' /\ ~MakingOne' /\ Looping'
  BY <1>5, <1>6 DEF Made, MakingOne, Looping
<1>11. task'["tcp"].pc # "idle" => Counted("tcp")'
  <2>1. counting'["tcp"] = counting["tcp"]
    BY <1>1, <1>7 DEF Counts, ServerInv, ServerTypes
  <2> QED BY <1>6, <2>1 DEF ServerInv, Dues, Counted
<1>12. /\ counting' \in [Tasks -> CountState]
       /\ \A x \in Nat \ {0} : Uses(x)' = Uses(x) + Puts("app", x)
       /\ Dues' /\ Reads' /\ Exact'
  <2>1. \A x \in Nat \ {0} :
          Times(d.messages, x) + Times(due, x) = Times(client[id].messages, x) + Puts("app", x)
    BY <1>8, <1>9
  <2> QED BY <1>1, <1>2, <1>4, <1>5, <1>6, <1>7, <1>8, <1>10, <1>11, <2>1, Moves
<1>13. UNCHANGED <<count, miscounted>>
  BY <1>7 DEF Counts
<1>14. UsedKept' /\ Guarded' /\ Removable' /\ MadeKept'
  <2>1. ASSUME NEW t \in Tasks
        PROVE  /\ Cleans(t)' <=> Cleans(t)
               /\ task'[t].pc = "removing" => task[t].pc = "removing" /\ task'[t].rest = task[t].rest
    BY <1>1, <1>5, <1>6 DEF Cleans, Tasks
  <2>2. \A b \in Nat \ {0} : Uses(b)' # 0 => Uses(b) # 0 \/ Making(b)
    <3>1. \A b \in Nat \ {0} : b # of => Uses(b)' = Uses(b) + 0 /\ Uses(b) \in Nat
      BY <1>9, <1>12, UsesIsNat DEF ServerInv
    <3>2. Making(of)
      BY <1>2 DEF Making
    <3> HIDE DEF Uses, of
    <3> QED BY <3>1, <3>2
  <2>3. Made' => Made /\ task'["app"].of = task["app"].of
    BY <1>2, <1>5, <1>6
  <2>4. miscounted \subseteq miscounted' /\ DOMAIN count' = DOMAIN count
    BY <1>13
  <2> QED BY <1>1, <2>1, <2>2, <2>3, <2>4, QuietKeeps
<1>15. client' \in [1..Ids -> ClientState] /\ client'[id] = d /\ \A o \in 1..Ids : o # id => client'[o] = client[o]
  BY <1>1, <1>4, <1>7
<1>16. Reached'
  <2>1. ASSUME NEW o \in 1..Ids
        PROVE  /\ Connected(o)' => InList(o)'
               /\ client'[o].status = "none" => ~InList(o)' /\ client'[o].messages = <<>>
               /\ Awaits(o)' /\ Connected(o)' => Len(client'[o].messages) < ClientQueueLimit
    <3>1. /\ Connected(o) => InList(o)
          /\ client[o].status = "none" => ~InList(o) /\ client[o].messages = <<>>
          /\ Awaits(o) /\ Connected(o) => Len(client[o].messages) < ClientQueueLimit
      BY DEF ServerInv, Reached
    <3>2. CASE o # id
      <4>1. Awaits(o)' => Awaits(o)
        BY <1>2, <1>3, <1>5, <1>6, <1>10 DEF Awaits
      <4> QED BY <1>1, <1>15, <3>1, <3>2, <4>1 DEF Connected, InList
    <3>3. CASE o = id
      <4>1. ~Awaits(o)'
        BY <1>3, <1>5, <1>6, <1>10, <3>3 DEF Awaits
      <4>2. d.status = "none" => d.messages = <<>>
        BY <1>7, <1>8, <3>1, <3>3 DEF Passed
      <4> QED BY <1>1, <1>8, <1>15, <3>1, <3>3, <4>1, <4>2 DEF Connected, InList
    <3> QED BY <3>2, <3>3
  <2>2. Distinct(clients)'
    BY <1>1 DEF ServerInv, Reached, Distinct
  <2>3. Distinct(task["app"].rest)' /\ \A i \in DOMAIN task'["app"].rest : task'["app"].rest[i] \in 1..Ids
    <3>1. task'["app"].rest = Tail(rest)
      BY <1>5, <1>6
    <3>2. \A i \in DOMAIN Tail(rest) : Tail(rest)[i] \in 1..Ids
      BY <1>2, <1>3
    <3> HIDE DEF rest
    <3> QED BY <1>3, <3>1, <3>2 DEF Distinct
  <2> QED BY <1>10, <2>1, <2>2, <2>3 DEF Reached
<1>17. ServerTypes'
  BY <1>1, <1>6, <1>12, <1>13, <1>15 DEF ServerInv, ServerTypes
<1> QED BY <1>12, <1>14, <1>16, <1>17 DEF ServerInv

-----------------------------------------------------------------------------
(* Buffers are made and deleted. *)

LEMMA MakeBufferKeeps ==
  ASSUME ServerInv, MakeBuffer
  PROVE  ServerInv'
<1> DEFINE b == calls["app"]
           s == [pc |-> "made", of |-> b, rest |-> <<>>, sure |-> AvailableForWriteAll]
<1>1. /\ Counted("app") /\ task["app"].pc = "idle" /\ guard = "none" /\ guard' = "none"
      /\ b > 0 /\ calls' = [calls EXCEPT !["app"] = @ - 1]
      /\ bufferList' = Append(bufferList, b) /\ task' = [task EXCEPT !["app"] = s]
      /\ UNCHANGED <<clients, client, early, counters>>
      /\ task \in [Tasks -> TaskState] /\ "app" \in Tasks /\ "tcp" \in Tasks
      /\ bufferList \in Seq(Nat \ {0}) /\ calls \in CallState
  BY DEF MakeBuffer, Called, IsIdle, NewBuffer, Add, ServerInv, ServerTypes, Tasks
<1>2. calls' \in CallState /\ calls'["app"] <= calls["app"]
  BY <1>1, Decreased DEF ServerInv
<1>3. PICK n \in Nat : count \in [1..n -> Nat] /\ b <= n
  BY DEF ServerInv, ServerTypes
<1>4. b \in Nat \ {0} /\ b \in DOMAIN count
  BY <1>1, <1>3 DEF CallState
<1>5. s \in TaskState /\ s.pc = "made" /\ s.of = b /\ s.rest = <<>> /\ s.sure = AvailableForWriteAll
  BY <1>4 DEF TaskState, AvailableForWriteAll
<1> HIDE DEF s
<1>6. task' \in [Tasks -> TaskState] /\ task'["app"] = s /\ task'["tcp"] = task["tcp"]
  BY <1>1, <1>5
<1>7. ~Made /\ ~MakingOne /\ ~MakingOne' /\ ~Looping' /\ Made'
  BY <1>1, <1>5, <1>6 DEF Made, MakingOne, Looping
<1>8. (\A x : Uses(x)' = Uses(x)) /\ Reads' /\ Exact'
  <2>1. \A x : InHand(x)' = InHand(x)
    BY <1>7 DEF InHand
  <2>2. \A o \in 1..Ids : client'[o].messages = client[o].messages
    BY <1>1
  <2> QED BY <1>1, <2>1, <2>2, UncountedKeeps
<1>9. bufferList' \in Seq(Nat \ {0}) /\ \A x : (Kept(x) \/ x = b) => Kept(x)'
  <2>1. /\ bufferList' \in Seq(Nat \ {0}) /\ Len(bufferList') = Len(bufferList) + 1 /\ Len(bufferList) \in Nat
        /\ \A i \in 1..Len(bufferList) : bufferList'[i] = bufferList[i]
        /\ bufferList'[Len(bufferList) + 1] = b
    BY <1>1, <1>4
  <2>2. /\ \A i \in DOMAIN bufferList : i \in DOMAIN bufferList' /\ bufferList'[i] = bufferList[i]
        /\ Len(bufferList) + 1 \in DOMAIN bufferList'
    BY <1>1, <2>1
  <2> QED BY <1>1, <2>1, <2>2 DEF Kept, counters
<1>10. UsedKept' /\ MadeKept'
  BY <1>1, <1>4, <1>5, <1>6, <1>8, <1>9 DEF ServerInv, UsedKept, MadeKept, counters
<1>11. Guarded' /\ Removable'
  <2>1. \A t \in Tasks : ~Cleans(t)
    BY <1>1 DEF ServerInv, Guarded, Tasks
  <2>2. \A t \in Tasks : ~Cleans(t)' /\ task'[t].pc # "removing"
    BY <1>5, <1>6, <2>1 DEF Cleans, Tasks
  <2> QED BY <1>1, <2>2 DEF Guarded, Removable, Tasks
<1>12. Dues'
  BY <1>1, <1>6, <1>7 DEF ServerInv, Dues, AllDown, Counted, counters
<1>13. Reached'
  <2>1. ASSUME NEW o \in 1..Ids
        PROVE  /\ Connected(o)' => InList(o)'
               /\ client'[o].status = "none" => ~InList(o)' /\ client'[o].messages = <<>>
               /\ Awaits(o)' /\ Connected(o)' => Len(client'[o].messages) < ClientQueueLimit
    <3>1. (Connected(o)' <=> Connected(o)) /\ (InList(o)' <=> InList(o)) /\ client' = client
      BY <1>1 DEF Connected, InList
    <3>2. ASSUME Awaits(o)', Connected(o) PROVE Len(client[o].messages) < ClientQueueLimit
      <4>1. AvailableForWriteAll /\ InList(o)
        BY <1>5, <1>6, <3>2 DEF Awaits, ServerInv, Reached
      <4>2. ~QueueIsFull(o)
        BY <4>1 DEF AvailableForWriteAll, InList
      <4>3. Len(client[o].messages) \in Nat /\ ClientQueueLimit \in Nat
        BY ServerAssumption DEF ServerInv, ServerTypes, ClientState
      <4> QED BY <4>2, <4>3 DEF QueueIsFull
    <3> QED BY <3>1, <3>2 DEF ServerInv, Reached
  <2>2. Distinct(clients)'
    BY <1>1 DEF ServerInv, Reached, Distinct
  <2> QED BY <1>7, <2>1, <2>2 DEF Reached
<1>14. ServerTypes'
  <2>1. \E m \in Nat : count' \in [1..m -> Nat] /\ calls'["app"] <= m
    <3>1. calls'["app"] \in Nat /\ b \in Nat
      BY <1>2, <1>4 DEF CallState
    <3>2. calls'["app"] <= n
      BY <1>2, <1>3, <3>1
    <3> QED BY <1>1, <1>3, <3>2 DEF counters
  <2> QED BY <1>1, <1>2, <1>6, <1>9, <2>1 DEF ServerInv, ServerTypes, counters
<1> QED BY <1>8, <1>10, <1>11, <1>12, <1>13, <1>14 DEF ServerInv

(* A task that goes through the buffers: what no step of it changes. *)
LEMMA CleanerKeeps ==
  ASSUME ServerInv, NEW t \in Tasks, UNCHANGED <<clients, client, calls, counters>>,
         NEW s \in TaskState, task' = [task EXCEPT ![t] = s],
         task[t].pc \in {"clean", "cleaning", "removing"}, s.pc \in {"idle", "cleaning", "removing", "run"},
         t = "tcp" => s.of = task[t].of, bufferList' \in Seq(Nat \ {0})
  PROVE  /\ ServerTypes' /\ Dues' /\ Reads' /\ Exact' /\ Reached'
         /\ \A x : Uses(x)' = Uses(x)
         /\ task'[t] = s /\ \A u \in Tasks : u # t => task'[u] = task[u]
         /\ Made' <=> Made
         /\ Made => task'["app"] = task["app"]
<1>1. task \in [Tasks -> TaskState] /\ "app" \in Tasks /\ "tcp" \in Tasks
  BY DEF ServerInv, ServerTypes, Tasks
<1>2. task' \in [Tasks -> TaskState] /\ task'[t] = s /\ \A u \in Tasks : u # t => task'[u] = task[u]
  BY <1>1
<1>3. (Made' <=> Made) /\ (Made => task'["app"] = task["app"])
  BY <1>1, <1>2 DEF Made
<1>4. (MakingOne' <=> MakingOne) /\ (Looping' <=> Looping) /\ (MakingOne => Made) /\ (Looping => Made)
  BY <1>1, <1>2 DEF MakingOne, Looping, Made
<1>5. (\A x : Uses(x)' = Uses(x)) /\ Reads' /\ Exact'
  <2>1. \A x : InHand(x)' = InHand(x)
    BY <1>3, <1>4 DEF InHand, Making, Counted, counters
  <2> QED BY <2>1, UncountedKeeps
<1>6. task'["tcp"].pc # "idle" => task["tcp"].pc # "idle" /\ task'["tcp"].of = task["tcp"].of
  BY <1>1, <1>2
<1>7. ServerTypes'
  BY <1>2, <1>6 DEF ServerInv, ServerTypes, counters
<1>8. Dues'
  BY <1>3, <1>4, <1>6 DEF ServerInv, Dues, AllDown, Counted, counters
<1>9. Reached'
  <2>1. \A o : Awaits(o)' <=> Awaits(o)
    BY <1>3, <1>4 DEF Awaits
  <2> QED BY <1>3, <1>4, <2>1 DEF ServerInv, Reached, Connected, InList, Distinct
<1> QED BY <1>2, <1>3, <1>5, <1>7, <1>8, <1>9

LEMMA CleanStartsKeeps ==
  ASSUME ServerInv, NEW t \in Tasks, CleanStarts(t)
  PROVE  ServerInv'
<1> DEFINE s == [task[t] EXCEPT !.pc = "cleaning", !.rest = bufferList]
<1>1. /\ task[t].pc = "clean" /\ guard = "none" /\ guard' = t /\ task' = [task EXCEPT ![t] = s]
      /\ UNCHANGED <<clients, client, bufferList, calls, early, counters>>
      /\ task[t] \in TaskState /\ bufferList \in Seq(Nat \ {0})
  BY DEF CleanStarts, Take, ServerInv, ServerTypes
<1>2. s \in TaskState /\ s.pc = "cleaning" /\ s.of = task[t].of
  BY <1>1 DEF TaskState
<1> HIDE DEF s
<1>3. /\ ServerTypes' /\ Dues' /\ Reads' /\ Exact' /\ Reached'
      /\ \A x : Uses(x)' = Uses(x)
      /\ task'[t] = s /\ \A u \in Tasks : u # t => task'[u] = task[u]
      /\ Made' <=> Made
      /\ Made => task'["app"] = task["app"]
  BY <1>1, <1>2, CleanerKeeps
<1>4. \A u \in Tasks : ~Cleans(u)
  BY <1>1 DEF ServerInv, Guarded, Tasks
<1>5. Guarded' /\ Removable'
  BY <1>1, <1>2, <1>3, <1>4 DEF Guarded, Removable, Cleans
<1>6. UsedKept' /\ MadeKept'
  BY <1>1, <1>3 DEF ServerInv, UsedKept, MadeKept, Kept, counters
<1> QED BY <1>3, <1>5, <1>6 DEF ServerInv

LEMMA CleanLooksKeeps ==
  ASSUME ServerInv, NEW t \in Tasks, CleanLooks(t)
  PROVE  ServerInv'
<1> DEFINE rest == task[t].rest
           b == Head(rest)
           passes == [task[t] EXCEPT !.rest = Tail(rest)]
           removes == [task[t] EXCEPT !.pc = "removing"]
<1>1. /\ task[t].pc = "cleaning" /\ rest # <<>> /\ rest \in Seq(Nat \ {0}) /\ task[t] \in TaskState
      /\ UNCHANGED <<clients, client, bufferList, guard, calls, counters>>
      /\ bufferList \in Seq(Nat \ {0}) /\ guard = t
  BY DEF CleanLooks, ServerInv, ServerTypes, TaskState, Guarded, Cleans
<1>2. b \in Nat \ {0} /\ Tail(rest) \in Seq(Nat \ {0})
  <2> HIDE DEF rest
  <2> QED BY <1>1, HeadTailProperties
<1>3. \A u \in Tasks : u # t => ~Cleans(u)
  BY <1>1 DEF ServerInv, Guarded
<1>4. CASE /\ ~CanDelete(b) /\ task' = [task EXCEPT ![t] = passes] /\ UNCHANGED early
  <2>1. passes \in TaskState /\ passes.pc = "cleaning" /\ passes.of = task[t].of
    <3> DEFINE z == Tail(rest)
    <3> HIDE DEF z
    <3> QED BY <1>1, <1>2 DEF TaskState, z
  <2> HIDE DEF passes
  <2>2. /\ ServerTypes' /\ Dues' /\ Reads' /\ Exact' /\ Reached'
        /\ \A x : Uses(x)' = Uses(x)
        /\ task'[t] = passes /\ \A u \in Tasks : u # t => task'[u] = task[u]
        /\ Made' <=> Made
        /\ Made => task'["app"] = task["app"]
    BY <1>1, <1>4, <2>1, CleanerKeeps
  <2>3. Guarded' /\ Removable'
    BY <1>1, <1>3, <2>1, <2>2 DEF ServerInv, Guarded, Removable, Cleans
  <2>4. UsedKept' /\ MadeKept'
    BY <1>1, <1>4, <2>2 DEF ServerInv, UsedKept, MadeKept, Kept, counters
  <2> QED BY <2>2, <2>3, <2>4 DEF ServerInv
<1>5. CASE /\ CanDelete(b) /\ task' = [task EXCEPT ![t] = removes]
           /\ early' = IF task["app"].pc = "made" /\ task["app"].of = b THEN early \cup {b} ELSE early
  <2>1. removes \in TaskState /\ removes.pc = "removing" /\ removes.of = task[t].of /\ removes.rest = rest
    BY <1>1 DEF TaskState
  <2> HIDE DEF removes
  <2>2. /\ ServerTypes' /\ Dues' /\ Reads' /\ Exact' /\ Reached'
        /\ \A x : Uses(x)' = Uses(x)
        /\ task'[t] = removes /\ \A u \in Tasks : u # t => task'[u] = task[u]
        /\ Made' <=> Made
        /\ Made => task'["app"] = task["app"]
    BY <1>1, <1>5, <2>1, CleanerKeeps
  <2>3. Guarded'
    BY <1>1, <2>1, <2>2 DEF ServerInv, Guarded, Cleans
  <2>4. b \in early' \cup miscounted \/ (Uses(b) = 0 /\ ~Making(b))
    <3>1. CASE task["app"].pc = "made" /\ task["app"].of = b
      BY <1>5, <3>1
    <3>2. CASE ~(task["app"].pc = "made" /\ task["app"].of = b)
      <4>1. ~Making(b)
        BY <1>5, <3>2 DEF Making, Made, CanDelete, Holding
      <4>2. b \notin miscounted => Uses(b) = 0
        <5>1. CASE b \in DOMAIN count
          <6>1. b \notin miscounted => count[b] = Uses(b) + InHand(b)
            BY <5>1 DEF ServerInv, Exact
          <6>2. count[b] = 0 /\ InHand(b) = 0 /\ Uses(b) \in Nat
            BY <1>2, <1>5, <4>1, UsesIsNat DEF CanDelete, InHand, ServerInv
          <6> HIDE DEF Uses, b, InHand
          <6> QED BY <6>1, <6>2
        <5>2. CASE b \notin DOMAIN count
          BY <1>2, <5>2 DEF ServerInv, UsedKept
        <5> QED BY <5>1, <5>2
      <4> QED BY <4>1, <4>2
    <3> QED BY <3>1, <3>2
  <2>5. Removable'
    <3>1. ASSUME NEW x, x = b
          PROVE  x \in early' \cup miscounted' \/ (Uses(x)' = 0 /\ ~Making(x)')
      <4>1. Making(x)' => Making(x)
        BY <2>2 DEF Making
      <4>2. miscounted' = miscounted /\ Uses(x)' = Uses(x)
        BY <1>1, <2>2 DEF counters
      <4> HIDE DEF b, Uses
      <4> QED BY <2>4, <3>1, <4>1, <4>2
    <3>2. Doomed(t)' = b /\ task'[t].rest # <<>>
      BY <1>1, <2>1, <2>2 DEF Doomed
    <3>3. ASSUME NEW u \in Tasks, task'[u].pc = "removing" PROVE u = t
      BY <1>3, <2>2, <3>3 DEF Cleans
    <3>4. Doomed(t)' \in early' \cup miscounted' \/ (Uses(Doomed(t))' = 0 /\ ~Making(Doomed(t))')
      <4> HIDE DEF b
      <4> QED BY <3>1, <3>2 DEF Uses, Held, Making
    <3> QED BY <3>2, <3>3, <3>4 DEF Removable
  <2>6. UsedKept' /\ MadeKept'
    <3>1. \A x : Kept(x) => Kept(x)'
      BY <1>1, <1>5 DEF Kept, counters
    <3> QED BY <1>1, <2>2, <3>1 DEF ServerInv, UsedKept, MadeKept, counters
  <2> QED BY <2>2, <2>3, <2>5, <2>6 DEF ServerInv
<1> QED BY <1>4, <1>5 DEF CleanLooks

LEMMA CleanRemovesKeeps ==
  ASSUME ServerInv, NEW t \in Tasks, CleanRemoves(t)
  PROVE  ServerInv'
<1> DEFINE b == Doomed(t)
<1>1. /\ task[t].pc = "removing" /\ task[t] \in TaskState /\ bufferList' = Taken(bufferList, b)
      /\ UNCHANGED <<clients, client, guard, calls, early, counters>>
      /\ bufferList \in Seq(Nat \ {0}) /\ guard = t
      /\ task[t].rest # <<>> /\ task[t].rest \in Seq(Nat \ {0})
      /\ b \in early \cup miscounted \/ (Uses(b) = 0 /\ ~Making(b))
  BY DEF CleanRemoves, Doomed, ServerInv, ServerTypes, TaskState, Guarded, Cleans, Removable
<1>2. PICK rest \in {Tail(task[t].rest), <<>>} :
        task' = [task EXCEPT ![t] = [task[t] EXCEPT !.pc = "cleaning", !.rest = rest]]
  BY DEF CleanRemoves, ServerInv, ServerTypes
<1> DEFINE s == [task[t] EXCEPT !.pc = "cleaning", !.rest = rest]
<1>3. rest \in Seq(Nat \ {0})
  <2> DEFINE z == task[t].rest
  <2>1. z \in Seq(Nat \ {0}) /\ z # <<>>
    BY <1>1
  <2> HIDE DEF z
  <2>2. Tail(z) \in Seq(Nat \ {0}) /\ <<>> \in Seq(Nat \ {0})
    BY <2>1, HeadTailProperties
  <2> QED BY <2>2 DEF z
<1>4. s \in TaskState /\ s.pc = "cleaning" /\ s.of = task[t].of
  BY <1>1, <1>3 DEF TaskState
<1> HIDE DEF s
<1>5. /\ bufferList' \in Seq(Nat \ {0})
      /\ \A i \in DOMAIN bufferList : bufferList[i] # b => \E k \in DOMAIN bufferList' : bufferList'[k] = bufferList[i]
  <2> HIDE DEF b
  <2> QED BY <1>1, TakenOut
<1>6. /\ ServerTypes' /\ Dues' /\ Reads' /\ Exact' /\ Reached'
      /\ \A x : Uses(x)' = Uses(x)
      /\ task'[t] = s /\ \A u \in Tasks : u # t => task'[u] = task[u]
      /\ Made' <=> Made
      /\ Made => task'["app"] = task["app"]
  BY <1>1, <1>2, <1>4, <1>5, CleanerKeeps DEF s
<1>7. Guarded' /\ Removable'
  <2>1. \A u \in Tasks : u # t => ~Cleans(u)
    BY <1>1 DEF ServerInv, Guarded
  <2> QED BY <1>1, <1>4, <1>6, <2>1 DEF ServerInv, Guarded, Removable, Cleans
<1>8. ASSUME NEW x, Kept(x), x # b \/ x \in early \cup miscounted PROVE Kept(x)'
  <2> HIDE DEF b
  <2> QED BY <1>1, <1>5, <1>8 DEF Kept, counters
<1>9. UsedKept'
  <2>1. ASSUME NEW x \in Nat \ {0}, Uses(x)' # 0 PROVE Kept(x)' /\ x \in DOMAIN count'
    <3>1. Kept(x) /\ x \in DOMAIN count /\ Uses(x) # 0
      BY <1>6, <2>1 DEF ServerInv, UsedKept
    <3>2. x = b => x \in early \cup miscounted
      BY <1>1, <3>1
    <3> QED BY <1>1, <1>8, <3>1, <3>2 DEF counters
  <2> QED BY <2>1 DEF UsedKept
<1>10. MadeKept'
  <2>1. ASSUME Made' PROVE task'["app"].of \in DOMAIN count' /\ Kept(task["app"].of)'
    <3> DEFINE x == task["app"].of
    <3>1. Made /\ task'["app"] = task["app"] /\ x \in DOMAIN count /\ Kept(x)
      BY <1>6, <2>1 DEF ServerInv, MadeKept
    <3>2. x = b => x \in early \cup miscounted
      BY <1>1, <3>1 DEF Making
    <3>3. ASSUME NEW y, y = x PROVE Kept(y)'
      <4> HIDE DEF b
      <4> QED BY <1>8, <3>1, <3>2, <3>3
    <3>4. Kept(task["app"].of)'
      BY <3>1, <3>3 DEF Kept
    <3> QED BY <1>1, <3>1, <3>4 DEF counters
  <2> QED BY <2>1 DEF MadeKept
<1> QED BY <1>6, <1>7, <1>9, <1>10 DEF ServerInv

LEMMA CleanEndsKeeps ==
  ASSUME ServerInv, NEW t \in Tasks, CleanEnds(t)
  PROVE  ServerInv'
<1> DEFINE s == IF t = "app" THEN Idle ELSE [task[t] EXCEPT !.pc = "run"]
<1>1. /\ task[t].pc = "cleaning" /\ guard = t /\ guard' = "none" /\ task' = [task EXCEPT ![t] = s]
      /\ UNCHANGED <<clients, client, bufferList, calls, early, counters>>
      /\ task[t] \in TaskState /\ bufferList \in Seq(Nat \ {0})
  BY DEF CleanEnds, Give, ServerInv, ServerTypes
<1>2. s \in TaskState /\ s.pc \in {"idle", "run"} /\ (t = "tcp" => s.of = task[t].of)
  <2>1. Idle \in TaskState
    BY DEF Idle, TaskState
  <2> QED BY <1>1, <2>1 DEF TaskState, Idle
<1> HIDE DEF s
<1>3. /\ ServerTypes' /\ Dues' /\ Reads' /\ Exact' /\ Reached'
      /\ \A x : Uses(x)' = Uses(x)
      /\ task'[t] = s /\ \A u \in Tasks : u # t => task'[u] = task[u]
      /\ Made' <=> Made
      /\ Made => task'["app"] = task["app"]
  BY <1>1, <1>2, CleanerKeeps
<1>4. \A u \in Tasks : u # t => ~Cleans(u)
  BY <1>1 DEF ServerInv, Guarded
<1>5. \A u \in Tasks : ~Cleans(u)' /\ task'[u].pc # "removing"
  BY <1>2, <1>3, <1>4 DEF Cleans
<1>6. Guarded' /\ Removable'
  BY <1>1, <1>5 DEF Guarded, Removable, Tasks
<1>7. UsedKept' /\ MadeKept'
  BY <1>1, <1>3 DEF ServerInv, UsedKept, MadeKept, Kept, counters
<1> QED BY <1>3, <1>6, <1>7 DEF ServerInv

LEMMA ServerStep ==
  ASSUME ServerInv, ServerNext
  PROVE  ServerInv'
<1>1. ASSUME NEW t \in Tasks, Goes(t) PROVE ServerInv'
  <2>1. CASE Counting(t)
    BY <2>1, CountReadsKeeps, CountWritesKeeps, CountSkipsKeeps DEF Counting
  <2>2. CASE Clean(t)
    BY <2>2, CleanStartsKeeps, CleanLooksKeeps, CleanRemovesKeeps, CleanEndsKeeps DEF Clean
  <2>3. CASE TextGoes
    BY <2>3, LockBufferKeeps, TextAllKeeps, TextPassesKeeps, MakeMessageKeeps, TextQueuesKeeps, UnlockBufferKeeps
       DEF TextGoes
  <2>4. CASE AckRuns
    BY <2>4, AckRunsKeeps
  <2> QED BY <1>1, <2>1, <2>2, <2>3, <2>4 DEF Goes
<1>2. ASSUME NEW id \in 1..Ids,
             \/ Text(id) \/ Control(id)
             \/ Join(id) \/ Disconnect(id) \/ Answer(id) \/ PeerCloses(id)
             \/ \E control, message \in BOOLEAN : Ack(id, control, message)
      PROVE  ServerInv'
  <2>1. CASE Disconnect(id)
    BY <2>1, LeaveKeeps DEF Disconnect
  <2>2. CASE \E control, message \in BOOLEAN : Ack(id, control, message)
    BY <2>2, AckKeeps
  <2> QED BY <1>2, <2>1, <2>2, TextKeeps, ControlKeeps, JoinKeeps, AnswerKeeps, PeerClosesKeeps
<1> QED BY <1>1, <1>2, MakeBufferKeeps, CleanupClientsKeeps DEF ServerNext

LEMMA ServerRests ==
  ASSUME ServerInv, UNCHANGED serverVars
  PROVE  ServerInv'
<1>1. /\ UNCHANGED <<clients, client, bufferList, guard, task, calls, early, counters>>
      /\ UNCHANGED <<count, counting, miscounted>>
  BY DEF serverVars, counters
<1>2. ServerTypes'
  BY <1>1 DEF ServerInv, ServerTypes
<1>3. (\A b : Uses(b)' = Uses(b)) /\ Reads' /\ Exact'
  <2>1. \A b : InHand(b)' = InHand(b)
    BY <1>1 DEF InHand, Making, Made, MakingOne, Counted
  <2> QED BY <1>1, <2>1, UncountedKeeps
<1>4. UsedKept' /\ Guarded' /\ Removable' /\ MadeKept'
  <2>1. \A t \in Tasks : /\ Cleans(t)' <=> Cleans(t)
                         /\ task'[t].pc = "removing" => task[t].pc = "removing" /\ task'[t].rest = task[t].rest
    BY <1>1 DEF Cleans
  <2>2. Made' => Made /\ task'["app"].of = task["app"].of
    BY <1>1 DEF Made
  <2>3. \A b \in Nat \ {0} : Uses(b)' # 0 => Uses(b) # 0 \/ Making(b)
    BY <1>3
  <2> QED BY <1>1, <2>1, <2>2, <2>3, QuietKeeps
<1>5. Dues'
  BY <1>1 DEF ServerInv, Dues, MakingOne, AllDown, Counted
<1>6. Reached'
  BY <1>1 DEF ServerInv, Reached, Connected, InList, Awaits, Made, Looping, MakingOne, Distinct
<1> QED BY <1>2, <1>3, <1>4, <1>5, <1>6 DEF ServerInv

(* What the calls of the application and the callbacks of the clients keep: *)
(* who holds the lock of the buffers, which of them may be deleted, what   *)
(* the counter of a buffer says of the messages that refer to it, and      *)
(* which clients a broadcast still has to come to.                         *)
THEOREM ServerInvariant == Spec => []ServerInv
<1>1. Init => ServerInv
  <2>1. [app |-> 0, tcp |-> 0, join |-> 0] \in CallState
    BY DEF CallState
  <2>2. Calls \subseteq CallState
    BY ServerAssumption DEF CallState
  <2>3. ASSUME Init PROVE \E left \in CallState : ServerStart(left)
    <3>1. NoServer => \E left \in CallState : ServerStart(left)
      BY <2>1 DEF NoServer
    <3>2. ServerInit => \E left \in CallState : ServerStart(left)
      BY <2>2 DEF ServerInit
    <3> QED BY <2>3, <3>1, <3>2 DEF Init
  <2> QED BY <2>3, ServerStarts
<1>2. ServerInv /\ [Next]_vars => ServerInv'
  <2>1. ASSUME ServerInv, ServerNext PROVE ServerInv'
    BY <2>1, ServerStep
  <2>2. ASSUME ServerInv, UNCHANGED serverVars PROVE ServerInv'
    BY <2>2, ServerRests
  <2> QED BY <2>1, <2>2 DEF Next, vars
<1> QED BY <1>1, <1>2, PTL DEF Spec

LEMMA HeldIsAlive ==
  ASSUME ServerInv
  PROVE  BuffersHeld
<1>1. ASSUME NEW id \in 1..Ids, NEW i \in DOMAIN client[id].messages PROVE Kept(client[id].messages[i].buffer)
  <2> DEFINE b == client[id].messages[i].buffer
  <2>1. client[id].messages \in Seq(Message)
    BY DEF ServerInv, ServerTypes, ClientState
  <2>2. b \in Nat /\ i \in Nat
    <3>1. client[id].messages[i] \in Message
      BY <2>1
    <3> QED BY <2>1, <3>1 DEF Message
  <2>3. CASE b = 0
    BY <2>3 DEF Kept
  <2>4. CASE b # 0
    <3>1. <<id, i>> \in Held(b)
      BY <2>2 DEF Held, PlacesOf
    <3>2. IsFiniteSet(Held(b))
      BY <2>2, <2>4 DEF ServerInv, Exact
    <3>3. Cardinality(Held(b)) # 0
      <4> DEFINE H == Held(b)
      <4> HIDE DEF H
      <4> QED BY <3>1, <3>2, FS_EmptySet DEF H
    <3> HIDE DEF b
    <3>4. /\ Cardinality(Held(b)) \in Nat /\ Times(counting["app"].due, b) \in Nat
          /\ Times(counting["tcp"].due, b) \in Nat
      BY <2>2, <2>4, UsesIsNat DEF ServerInv, Tasks
    <3>5. Uses(b) # 0
      <4> HIDE DEF Held, Times
      <4> QED BY <3>3, <3>4 DEF Uses
    <3> QED BY <2>2, <2>4, <3>5 DEF ServerInv, UsedKept, b
  <2> QED BY <2>3, <2>4
<1>2. ASSUME NEW t \in Tasks, NEW i \in DOMAIN counting[t].due PROVE Kept(counting[t].due[i].buffer)
  <2> DEFINE b == counting[t].due[i].buffer
  <2>1. counting[t].due \in Seq(Due)
    BY DEF ServerInv, ServerTypes, CountState
  <2>2. b \in Nat
    <3>1. counting[t].due[i] \in Due
      BY <2>1
    <3> QED BY <3>1 DEF Due
  <2>3. CASE b = 0
    BY <2>3 DEF Kept
  <2>4. CASE b # 0
    <3>1. Times(counting[t].due, b) # 0
      BY <2>1, NoTimes
    <3>2. Uses(b) # 0
      BY <2>2, <2>4, <3>1, UsesIsNat DEF ServerInv
    <3> QED BY <2>2, <2>4, <3>2 DEF ServerInv, UsedKept
  <2> QED BY <2>3, <2>4
<1> QED BY <1>1, <1>2 DEF BuffersHeld, Kept

(* No message refers to a buffer that has been deleted, nor does a task    *)
(* count in one, in whatever order the task of the application and that of *)
(* AsyncTCP call, be they many clients or few: but for a buffer that       *)
(* _cleanBuffers() has found deletable between makeBuffer() and lock(),    *)
(* and for one in whose counter a task wrote while the other was between   *)
(* reading and writing it.                                                 *)
THEOREM NoBufferLost == Spec => []BuffersHeld
<1>1. ServerInv => BuffersHeld
  BY HeldIsAlive
<1> QED BY <1>1, ServerInvariant, PTL

(* A turn of textAll() puts a message into the queue of its client, if     *)
(* that is connected and a broadcast still has to come to it.              *)
LEMMA TurnReaches ==
  ASSUME ServerInv, TextQueues, task["app"].sure, NEW id, id = Head(task["app"].rest), Connected(id)
  PROVE  \E i \in DOMAIN client'[id].messages : client'[id].messages[i].buffer = task["app"].of
<1> DEFINE rest == task["app"].rest
           of == task["app"].of
<1>1. /\ task["app"].pc = "made one" /\ Enqueue("app", id, of)
      /\ client \in [1..Ids -> ClientState] /\ "app" \in Tasks /\ of \in Nat
      /\ rest \in Seq(Nat \ {0})
  BY DEF TextQueues, ServerInv, ServerTypes, Tasks, TaskState
<1>2. Made /\ MakingOne /\ Looping
  BY <1>1 DEF Made, MakingOne, Looping
<1>3. rest # <<>> /\ Distinct(rest) /\ \A i \in DOMAIN rest : rest[i] \in 1..Ids
  BY <1>2 DEF ServerInv, Reached
<1>4. \E k \in DOMAIN rest : rest[k] = id
  <2> HIDE DEF rest
  <2>1. \E k \in DOMAIN rest : rest[k] = Head(rest)
    BY <1>1, <1>3, TailDistinct
  <2> QED BY <2>1 DEF rest
<1>5. id \in 1..Ids /\ Awaits(id)
  BY <1>2, <1>3, <1>4 DEF Awaits
<1>6. PICK d \in ClientState, due \in Seq(Due) :
        Passed(client[id], of, d, due) /\ client' = [client EXCEPT ![id] = d] /\ Counts("app", due)
  BY <1>1, <1>5, EnqueueKeeps, Zenon
<1>7. Len(client[id].messages) < ClientQueueLimit
  BY <1>5 DEF ServerInv, Reached
<1>8. \E k \in DOMAIN d.messages : d.messages[k].buffer = of
  BY <1>6, <1>7 DEF Passed, Connected
<1>9. client'[id] = d
  BY <1>1, <1>5, <1>6
<1> QED BY <1>8, <1>9

(* Nothing but a turn of textAll() takes a client off those that are left. *)
LEMMA OnlyTurns ==
  ASSUME ServerInv, ServerNext, Looping, task'["app"].rest # task["app"].rest
  PROVE  TextPasses \/ TextQueues
<1>1. /\ task \in [Tasks -> TaskState] /\ "app" \in Tasks /\ "tcp" \in Tasks /\ task["app"] \in TaskState
      /\ task["app"].pc \in {"texting", "made one"}
  BY DEF ServerInv, ServerTypes, Tasks, Looping
<1>2. ~UNCHANGED task /\ ~\E s : task' = [task EXCEPT !["tcp"] = s]
  BY <1>1
<1>3. ASSUME NEW t \in Tasks, Counting(t) PROVE FALSE
  BY <1>2, <1>3 DEF Counting, CountReads, CountWrites, CountSkips
<1>4. ASSUME NEW t \in Tasks, Clean(t) PROVE FALSE
  <2>1. CASE t = "app"
    BY <1>1, <1>4, <2>1 DEF Clean, CleanStarts, CleanLooks, CleanRemoves, CleanEnds
  <2>2. CASE t = "tcp"
    <3>1. task'["app"] = task["app"]
      BY <1>1, <1>4, <2>2 DEF Clean, CleanStarts, CleanLooks, CleanRemoves, CleanEnds, Tasks
    <3> QED BY <3>1
  <2> QED BY <2>1, <2>2 DEF Tasks
<1>5. ~(LockBuffer \/ TextAll \/ UnlockBuffer \/ MakeMessage)
  <2>1. ASSUME MakeMessage PROVE FALSE
    <3>1. task' = [task EXCEPT !["app"] = [task["app"] EXCEPT !.pc = "made one"]]
      BY <2>1 DEF MakeMessage
    <3> QED BY <1>1, <3>1 DEF TaskState
  <2>2. ASSUME UnlockBuffer PROVE FALSE
    <3>1. task' = [task EXCEPT !["app"] = [task["app"] EXCEPT !.pc = "clean"]]
      BY <2>2 DEF UnlockBuffer
    <3> QED BY <1>1, <3>1 DEF TaskState
  <2> QED BY <1>1, <2>1, <2>2 DEF LockBuffer, TextAll
<1>6. ~AckRuns
  BY <1>2 DEF AckRuns
<1>7. ~(MakeBuffer \/ CleanupClients)
  BY <1>1, <1>2 DEF MakeBuffer, CleanupClients, Called, IsIdle
<1>8. ASSUME NEW id \in 1..Ids PROVE ~(Text(id) \/ Control(id) \/ Join(id) \/ Disconnect(id) \/ PeerCloses(id))
  BY <1>2 DEF Text, Control, Join, Disconnect, PeerCloses, Leave
<1>9. ASSUME NEW id \in 1..Ids PROVE ~Answer(id)
  <2>1. ASSUME Answer(id) PROVE task'["app"].rest = task["app"].rest
    <3>1. task' = [task EXCEPT !["app"] = [task["app"] EXCEPT !.sure = FALSE]]
      BY <2>1 DEF Answer
    <3> QED BY <1>1, <3>1 DEF TaskState
  <2> QED BY <2>1
<1>10. ASSUME NEW id \in 1..Ids, NEW control \in BOOLEAN, NEW message \in BOOLEAN
       PROVE  ~Ack(id, control, message)
  BY <1>2 DEF Ack, Leave
<1>11. ~\E t \in Tasks : Goes(t) /\ ~(TextPasses \/ TextQueues)
  BY <1>3, <1>4, <1>5, <1>6 DEF Goes, TextGoes
<1> QED BY <1>7, <1>8, <1>9, <1>10, <1>11 DEF ServerNext

(* When availableForWriteAll() has said yes, textAll() puts its message    *)
(* into the queue of every client that is connected when its turn comes,   *)
(* whatever the task of AsyncTCP has done in between, other than answering *)
(* a client.                                                               *)
THEOREM BroadcastsAreComplete == Spec => BroadcastsReach
<1> DEFINE Reaches ==
      task["app"].pc \in {"texting", "made one"} /\ task["app"].sure /\ task'["app"].rest # task["app"].rest =>
        \E id \in {Head(task["app"].rest)} : Connected(id) =>
          \E i \in DOMAIN client'[id].messages : client'[id].messages[i].buffer = task["app"].of
<1>1. ServerInv /\ [Next]_vars => [Reaches]_serverVars
  <2>1. ASSUME ServerInv, ServerNext PROVE Reaches
    <3>1. ASSUME Looping, task["app"].sure, task'["app"].rest # task["app"].rest,
                 NEW id, id = Head(task["app"].rest), Connected(id)
          PROVE  \E i \in DOMAIN client'[id].messages : client'[id].messages[i].buffer = task["app"].of
      <4>1. ~TextPasses
        BY <3>1 DEF TextPasses
      <4>2. TextQueues
        BY <2>1, <3>1, <4>1, OnlyTurns
      <4> QED BY <2>1, <3>1, <4>2, TurnReaches
    <3> QED BY <3>1 DEF Looping
  <2> QED BY <2>1 DEF Next, vars, eventVars, socketVars
<1> QED BY <1>1, ServerInvariant, PTL DEF Spec, BroadcastsReach

-----------------------------------------------------------------------------
(* What a web socket hands on: what holds of it in every state *)

Coming == segment \o input
OfData(op) == op \in {"text", "continuation"}

SocketTypes ==
  /\ segment \in Seq(Symbol) /\ input \in Seq(Symbol) /\ handed \in Seq(Symbol)
  /\ frame \in [open : BOOLEAN, op : {"text", "continuation", "ping", "pong", "close"},
                len : Nat, index : Nat]
  /\ frame.open => frame.index < frame.len

(* _pinfo and _pstate agree with the symbol that comes next, *)
Agrees ==
  Coming # <<>> =>
    IF frame.open THEN /\ Coming[1].at = frame.index + 1
                       /\ Coming[1].op = frame.op /\ Coming[1].len = frame.len
    ELSE Coming[1].at = 0

(* and what has been handed on is in order and goes right up to it.        *)
Complete(z) == OfData(z.op) => z.at = z.len
Succeeds(z, y) ==
  IF y.frame = z.frame THEN y.at = z.at + 1
  ELSE y.at = 1 /\ y.frame > z.frame /\ Complete(z)

InOrder(h) ==
  \A i \in DOMAIN h :
    /\ IF i = 1 THEN h[1].at = 1 ELSE Succeeds(h[i - 1], h[i])
    /\ ~OfData(h[i].op) => h[i].at < h[i].len

UpTo(c, h) ==
  c # <<>> =>
    IF c[1].at > 1
      THEN /\ h # <<>> /\ h[Len(h)].frame = c[1].frame
           /\ h[Len(h)].at = c[1].at - 1 /\ h[Len(h)].op = c[1].op
      ELSE h # <<>> => h[Len(h)].frame < c[1].frame /\ Complete(h[Len(h)])

GoesOn == UpTo(Coming, handed)

SocketInv == SocketTypes /\ Framed(Coming) /\ Agrees /\ GoesOn /\ HandedInOrder

LEMMA OrderIs == HandedInOrder <=> InOrder(handed)
  BY Zenon DEF HandedInOrder, InOrder, Succeeds, Complete, IsData, OfData

LEMMA SocketStarts ==
  ASSUME Init
  PROVE  SocketInv
<1>1. /\ segment = <<>> /\ frame = NoFrame /\ handed = <<>>
      /\ input \in Seq(Symbol) /\ Framed(input) /\ (input # <<>> => input[1].at = 0)
  <2>1. CASE \E s \in Scenarios : SocketInit(s)
    BY <2>1, PeerAssumption DEF SocketInit
  <2>2. CASE NoSocket
    <3>1. Framed(<<>>)
      BY DEF Framed
    <3> QED BY <2>2, <3>1 DEF NoSocket
  <2> QED BY <2>1, <2>2 DEF Init
<1>2. Coming = input
  BY <1>1 DEF Coming
<1>3. SocketTypes
  BY <1>1 DEF SocketTypes, NoFrame
<1>4. Agrees /\ GoesOn
  BY <1>1, <1>2 DEF Agrees, GoesOn, UpTo, NoFrame, Symbol
<1>5. HandedInOrder
  BY <1>1 DEF HandedInOrder, IsData
<1> QED BY <1>1, <1>2, <1>3, <1>4, <1>5 DEF SocketInv

(* What is left of a framed sequence when some of it has gone is framed. *)
LEMMA FramedRest ==
  ASSUME NEW s \in Seq(Symbol), Framed(s), NEW n \in 0..Len(s),
         NEW r \in Seq(Symbol), Len(r) = Len(s) - n, \A k \in 1..Len(r) : r[k] = s[n + k]
  PROVE  Framed(r)
<1>1. ASSUME NEW i \in DOMAIN r, NEW j \in DOMAIN r, i <= j
      PROVE  LET x == r[i]
                 y == r[j]
                 at == x.at + j - i
             IN  /\ at <= x.len => y = [frame |-> x.frame, op |-> x.op, len |-> x.len, at |-> at]
                 /\ at > x.len => y.frame > x.frame
                 /\ at = x.len + 1 => y.at = 0
  <2>1. i \in Int /\ j \in Int /\ n \in Int /\ i \in 1..Len(r) /\ j \in 1..Len(r)
    OBVIOUS
  <2>2. n + i \in DOMAIN s /\ n + j \in DOMAIN s /\ n + i <= n + j
    BY <1>1, <2>1
  <2>3. r[i] = s[n + i] /\ r[j] = s[n + j] /\ r[i].at \in Nat
    <3>1. r[i] \in Symbol
      BY <2>1
    <3>2. r[i].at \in Nat
      BY <3>1 DEF Symbol
    <3>3. \A k \in 1..Len(r) : r[k] = s[n + k]
      OBVIOUS
    <3> QED BY <2>1, <3>2, <3>3
  <2>4. r[i].at + (n + j) - (n + i) = r[i].at + j - i
    BY <2>1, <2>3
  <2> DEFINE a == n + i
             b == n + j
  <2>5. LET x == s[a]
            y == s[b]
            at == x.at + b - a
        IN  /\ at <= x.len => y = [frame |-> x.frame, op |-> x.op, len |-> x.len, at |-> at]
            /\ at > x.len => y.frame > x.frame
            /\ at = x.len + 1 => y.at = 0
    <3> HIDE DEF a, b
    <3>1. a \in DOMAIN s /\ b \in DOMAIN s /\ a <= b
      BY <2>2 DEF a, b
    <3> QED BY <3>1 DEF Framed
  <2> QED BY <2>3, <2>4, <2>5
<1> QED BY <1>1 DEF Framed

(* The connection ends: nothing comes any more. *)
LEMMA GoneKeeps ==
  ASSUME SocketInv, segment' = <<>>, input' = <<>>, UNCHANGED <<frame, handed>>
  PROVE  SocketInv'
<1>1. Coming' = <<>>
  BY DEF Coming
<1>2. Framed(<<>>)
  BY DEF Framed
<1>3. SocketTypes'
  BY DEF SocketInv, SocketTypes
<1>4. HandedInOrder'
  BY DEF SocketInv, HandedInOrder, IsData
<1> QED BY <1>1, <1>2, <1>3, <1>4 DEF SocketInv, Agrees, GoesOn, UpTo

(* However what comes is cut into segments, it comes in the same order. *)
LEMMA SegmentKeeps ==
  ASSUME SocketInv, SocketSegment
  PROVE  SocketInv'
<1>1. PICK n \in 1..Len(input) :
        segment' = SubSeq(input, 1, n) /\ input' = SubSeq(input, n + 1, Len(input))
  BY DEF SocketSegment
<1>2. segment = <<>> /\ UNCHANGED <<frame, handed>>
  BY DEF SocketSegment, SocketIdle
<1>3. input \in Seq(Symbol) /\ Len(input) \in Nat
  BY DEF SocketInv, SocketTypes
<1>4. /\ segment' \in Seq(Symbol) /\ Len(segment') = n /\ \A k \in 1..n : segment'[k] = input[k]
      /\ input' \in Seq(Symbol) /\ Len(input') = Len(input) - n
      /\ \A k \in 1..(Len(input) - n) : input'[k] = input[n + k]
  BY <1>1, <1>3
<1>5. Coming = input
  BY <1>2, <1>3 DEF Coming
<1>6. Coming' = input
  <2> DEFINE c == segment' \o input'
  <2>1. /\ c \in Seq(Symbol) /\ Len(c) = Len(segment') + Len(input')
        /\ \A i \in 1..Len(segment') : c[i] = segment'[i]
        /\ \A i \in 1..Len(input') : c[Len(segment') + i] = input'[i]
    <3>1. segment' \in Seq(Symbol) /\ input' \in Seq(Symbol)
      BY <1>4
    <3> QED BY <3>1, Joined
  <2> HIDE DEF c
  <2>2. Len(c) = Len(input)
    BY <1>3, <1>4, <2>1
  <2>3. ASSUME NEW k \in 1..Len(input) PROVE c[k] = input[k]
    <3>1. CASE k \in 1..n
      BY <1>4, <2>1, <3>1
    <3>2. CASE k \notin 1..n
      <4>1. k - n \in 1..(Len(input) - n) /\ n + (k - n) = k
        <5>1. n \in Nat /\ k \in Nat /\ k > n /\ k <= Len(input)
          BY <1>3, <3>2
        <5> QED BY <1>3, <5>1
      <4>2. input'[k - n] = input[n + (k - n)]
        BY <1>4, <4>1
      <4>3. c[n + (k - n)] = input'[k - n]
        BY <1>4, <2>1, <4>1
      <4> QED BY <4>1, <4>2, <4>3
    <3> QED BY <3>1, <3>2
  <2>4. c = input
    BY <1>3, <2>1, <2>2, <2>3
  <2> QED BY <2>4 DEF c, Coming
<1>7. SocketTypes'
  BY <1>2, <1>4 DEF SocketInv, SocketTypes
<1>8. HandedInOrder'
  BY <1>2 DEF SocketInv, HandedInOrder, IsData
<1> QED BY <1>2, <1>5, <1>6, <1>7, <1>8 DEF SocketInv, Agrees, GoesOn, UpTo

LEMMA Part ==
  ASSUME NEW X, NEW s \in Seq(X), NEW a \in Nat, NEW b \in Nat, a <= b, b <= Len(s)
  PROVE  /\ SubSeq(s, a + 1, b) \in Seq(X) /\ Len(SubSeq(s, a + 1, b)) = b - a
         /\ \A k \in 1..(b - a) : SubSeq(s, a + 1, b)[k] = s[a + k]
  OBVIOUS

(* Of what comes, c, m symbols are taken and r is left. *)
Left(c, m, r) ==
  r \in Seq(Symbol) /\ Len(r) = Len(c) - m /\ \A k \in 1..Len(r) : r[k] = c[m + k]

LEMMA Suffix ==
  ASSUME NEW s \in Seq(Symbol), NEW t \in Seq(Symbol), NEW m \in Nat, m <= Len(s)
  PROVE  Left(s \o t, m, SubSeq(s, m + 1, Len(s)) \o t)
<1> DEFINE b == SubSeq(s, m + 1, Len(s))
<1>1. /\ b \in Seq(Symbol) /\ Len(b) = Len(s) - m /\ \A k \in 1..(Len(s) - m) : b[k] = s[m + k]
      /\ Len(s) \in Nat /\ Len(t) \in Nat
  <2>1. Len(s) \in Nat /\ Len(t) \in Nat
    OBVIOUS
  <2>2. /\ SubSeq(s, m + 1, Len(s)) \in Seq(Symbol) /\ Len(SubSeq(s, m + 1, Len(s))) = Len(s) - m
        /\ \A k \in 1..(Len(s) - m) : SubSeq(s, m + 1, Len(s))[k] = s[m + k]
    <3> HIDE DEF b
    <3> QED BY <2>1, Part
  <2> QED BY <2>1, <2>2
<1> HIDE DEF b
<1>2. /\ b \o t \in Seq(Symbol) /\ Len(b \o t) = Len(b) + Len(t)
      /\ \A i \in 1..Len(b) : (b \o t)[i] = b[i]
      /\ \A i \in 1..Len(t) : (b \o t)[Len(b) + i] = t[i]
  <2>1. b \in Seq(Symbol)
    BY <1>1
  <2> QED BY <2>1, Joined
<1>3. /\ s \o t \in Seq(Symbol) /\ Len(s \o t) = Len(s) + Len(t)
      /\ \A i \in 1..Len(s) : (s \o t)[i] = s[i]
      /\ \A i \in 1..Len(t) : (s \o t)[Len(s) + i] = t[i]
  BY Joined
<1>4. ASSUME NEW k \in 1..(Len(s \o t) - m) PROVE (b \o t)[k] = (s \o t)[m + k]
  <2>1. k \in Nat /\ k >= 1 /\ k <= Len(s) + Len(t) - m
    BY <1>1, <1>3
  <2>2. CASE k <= Len(s) - m
    <3>1. k \in 1..(Len(s) - m) /\ k \in 1..Len(b) /\ m + k \in 1..Len(s)
      BY <1>1, <2>1, <2>2
    <3>2. (b \o t)[k] = b[k] /\ b[k] = s[m + k] /\ (s \o t)[m + k] = s[m + k]
      BY <1>1, <1>2, <1>3, <3>1
    <3> QED BY <3>2
  <2>3. CASE k > Len(s) - m
    <3>1. PICK i \in 1..Len(t) : k = Len(b) + i /\ m + k = Len(s) + i
      <4>1. LET i == k - (Len(s) - m) IN i \in 1..Len(t) /\ k = Len(b) + i /\ m + k = Len(s) + i
        BY <1>1, <2>1, <2>3
      <4> QED BY <4>1
    <3>2. (b \o t)[Len(b) + i] = t[i] /\ (s \o t)[Len(s) + i] = t[i]
      BY <1>2, <1>3
    <3> QED BY <3>1, <3>2
  <2> QED BY <2>1, <2>2, <2>3, <1>1
<1>6. Len(b \o t) = Len(s \o t) - m
  BY <1>1, <1>2, <1>3
<1>7. Left(s \o t, m, b \o t)
  BY <1>2, <1>4, <1>6, Zenon DEF Left
<1> QED BY <1>7 DEF b

(* The symbols that come next are of one frame, and consecutive in it. *)
LEMMA Consecutive ==
  ASSUME NEW s \in Seq(Symbol), Framed(s), s # <<>>, NEW x \in Nat, NEW skip \in {0, 1},
         s[1].at = x + 1 - skip, NEW k \in 1..(Len(s) - skip)
  PROVE  /\ x + k <= s[1].len =>
              s[skip + k] = [frame |-> s[1].frame, op |-> s[1].op, len |-> s[1].len, at |-> x + k]
         /\ x + k > s[1].len => s[skip + k].frame > s[1].frame
         /\ x + k = s[1].len + 1 => s[skip + k].at = 0
<1> DEFINE j == skip + k
<1>1. Len(s) \in Nat /\ k \in Nat /\ skip \in Nat /\ k >= 1 /\ k + skip <= Len(s)
  OBVIOUS
<1>2. 1 \in DOMAIN s /\ j \in DOMAIN s /\ 1 <= j
  BY <1>1
<1>3. s[1].at + j - 1 = x + k
  BY <1>1
<1> HIDE DEF j
<1>4. LET y == s[j]
          at == s[1].at + j - 1
      IN  /\ at <= s[1].len => y = [frame |-> s[1].frame, op |-> s[1].op, len |-> s[1].len, at |-> at]
          /\ at > s[1].len => y.frame > s[1].frame
          /\ at = s[1].len + 1 => y.at = 0
  BY <1>2 DEF Framed
<1> QED BY <1>3, <1>4 DEF j


LEMMA Ends ==
  ASSUME NEW s, s \in Seq(Symbol), s # <<>>
  PROVE  /\ Len(s) \in Nat /\ Len(s) >= 1 /\ 1 \in DOMAIN s /\ Len(s) \in DOMAIN s
         /\ s[1].frame \in Nat /\ s[Len(s)].frame \in Nat
<1>1. Len(s) \in Nat /\ Len(s) >= 1 /\ 1 \in DOMAIN s /\ Len(s) \in DOMAIN s
  OBVIOUS
<1>2. s[1] \in Symbol /\ s[Len(s)] \in Symbol
  BY <1>1
<1> QED BY <1>1, <1>2 DEF Symbol

LEMMA Under ==
  ASSUME NEW a \in Nat, NEW b \in Nat, NEW f \in Nat, a < f, b = f \/ b > f
  PROVE  a < b
  OBVIOUS

LEMMA Beyond ==
  ASSUME NEW i \in Nat, NEW a \in Nat, NEW n \in Nat, i > a + 1, i <= a + n
  PROVE  i - a - 1 \in 1..n /\ (i - a - 1) + 1 \in 1..n /\ a + (i - a - 1) = i - 1 /\ a + ((i - a - 1) + 1) = i
  OBVIOUS

(* The payload of a turn is handed on from where it was, unless it ends a  *)
(* control frame: of what comes, c, r is left, and of the bytes handed on, *)
(* h, there are g.                                                         *)
WithPayload(h, c, l, x, skip, n, g) ==
  /\ g \in Seq(Symbol)
  /\ IF x + n < l \/ OfData(c[1].op)
       THEN /\ Len(g) = Len(h) + n /\ \A i \in 1..Len(h) : g[i] = h[i]
            /\ \A i \in 1..n : g[Len(h) + i] = c[skip + i]
       ELSE g = h

Turn(c, l, x, skip, n, r, h, g) ==
  /\ c \in Seq(Symbol) /\ Framed(c) /\ c # <<>>
  /\ l \in Nat /\ x \in Nat /\ skip \in {0, 1} /\ n \in Nat
  /\ skip + n <= Len(c) /\ x + n <= l /\ (n = 0 => x = 0) /\ (skip = 1 => x = 0)
  /\ c[1].at = x + 1 - skip /\ c[1].len = l /\ Left(c, skip + n, r)
  /\ h \in Seq(Symbol) /\ WithPayload(h, c, l, x, skip, n, g) /\ InOrder(h) /\ UpTo(c, h)

Follows(c, l, x, n, r) ==
  r # <<>> => IF x + n < l THEN r[1].at = x + n + 1 /\ r[1].op = c[1].op /\ r[1].len = l
              ELSE r[1].at = 0

LEMMA PayloadGoesOn ==
  ASSUME NEW c, NEW l, NEW x, NEW skip, NEW n, NEW r, NEW h, NEW g, Turn(c, l, x, skip, n, r, h, g)
  PROVE  Follows(c, l, x, n, r) /\ InOrder(g) /\ UpTo(r, g)
<1> SUFFICES ASSUME c \in Seq(Symbol), Framed(c), c # <<>>, l \in Nat, x \in Nat, skip \in {0, 1},
                    n \in Nat, skip + n <= Len(c), x + n <= l, n = 0 => x = 0,
                    skip = 1 => x = 0, c[1].at = x + 1 - skip, c[1].len = l, Left(c, skip + n, r),
                    h \in Seq(Symbol), WithPayload(h, c, l, x, skip, n, g), InOrder(h), UpTo(c, h)
             PROVE  Follows(c, l, x, n, r) /\ InOrder(g) /\ UpTo(r, g)
  BY Zenon DEF Turn
<1>1. PICK F \in Nat : F = c[1].frame
  <2>1. c[1] \in Symbol
    OBVIOUS
  <2> QED BY <2>1 DEF Symbol
<1>2. PICK op : op = c[1].op
  OBVIOUS
<1>3. ASSUME NEW k \in 1..(Len(c) - skip)
      PROVE  /\ x + k <= l => c[skip + k] = [frame |-> F, op |-> op, len |-> l, at |-> x + k]
             /\ x + k > l => c[skip + k].frame > F
             /\ x + k = l + 1 => c[skip + k].at = 0
  <2>1. /\ x + k <= c[1].len => c[skip + k] = [frame |-> c[1].frame, op |-> c[1].op, len |-> c[1].len, at |-> x + k]
        /\ x + k > c[1].len => c[skip + k].frame > c[1].frame
        /\ x + k = c[1].len + 1 => c[skip + k].at = 0
    BY Consecutive
  <2> QED BY <1>1, <1>2, <2>1
<1>4. /\ Len(c) \in Nat /\ Len(h) \in Nat /\ Len(g) \in Nat /\ Len(r) \in Nat
      /\ r \in Seq(Symbol) /\ Len(r) = Len(c) - (skip + n)
  BY DEF Left, WithPayload
<1>5. ASSUME r # <<>>
      PROVE  /\ x + n < l => r[1] = [frame |-> F, op |-> op, len |-> l, at |-> x + (n + 1)]
             /\ x + n = l => r[1].frame > F /\ r[1].at = 0
  <2>1. 1 \in 1..Len(r) /\ n + 1 \in 1..(Len(c) - skip)
    BY <1>4, <1>5
  <2>2. r[1] = c[skip + n + 1]
    BY <2>1 DEF Left
  <2>3. skip + n + 1 = skip + (n + 1)
    OBVIOUS
  <2>4. /\ x + (n + 1) <= l => c[skip + (n + 1)] = [frame |-> F, op |-> op, len |-> l, at |-> x + (n + 1)]
        /\ x + (n + 1) > l => c[skip + (n + 1)].frame > F
        /\ x + (n + 1) = l + 1 => c[skip + (n + 1)].at = 0
    BY <1>3, <2>1
  <2> HIDE <1>3
  <2>5. /\ x + (n + 1) <= l => r[1] = [frame |-> F, op |-> op, len |-> l, at |-> x + (n + 1)]
        /\ x + (n + 1) > l => r[1].frame > F
        /\ x + (n + 1) = l + 1 => r[1].at = 0
    BY <2>2, <2>3, <2>4
  <2> QED BY <2>5
<1>6. Follows(c, l, x, n, r)
  <2>1. ASSUME r # <<>>, x + n < l PROVE r[1].at = x + n + 1 /\ r[1].op = c[1].op /\ r[1].len = l
    <3>1. x + (n + 1) = x + n + 1
      OBVIOUS
    <3>2. r[1] = [frame |-> F, op |-> op, len |-> l, at |-> x + (n + 1)]
      BY <1>5, <2>1
    <3> QED BY <1>2, <3>1, <3>2
  <2>2. ASSUME r # <<>>, ~(x + n < l) PROVE r[1].at = 0
    <3>1. x + n = l
      BY <2>2
    <3> QED BY <1>5, <2>2, <3>1, Zenon
  <2> QED BY <2>1, <2>2, Zenon DEF Follows
<1>7. IF x > 0
        THEN h # <<>> /\ h[Len(h)].frame = F /\ h[Len(h)].at = x /\ h[Len(h)].op = op
        ELSE h # <<>> => h[Len(h)].frame < F /\ Complete(h[Len(h)])
  <2>1. (c[1].at > 1 <=> x > 0) /\ (x > 0 => c[1].at - 1 = x)
    OBVIOUS
  <2>2. IF c[1].at > 1
          THEN /\ h # <<>> /\ h[Len(h)].frame = F /\ h[Len(h)].at = c[1].at - 1
               /\ h[Len(h)].op = op
          ELSE h # <<>> => h[Len(h)].frame < F /\ Complete(h[Len(h)])
    BY <1>1, <1>2, Zenon DEF UpTo
  <2> QED BY <2>1, <2>2
<1>8. CASE ~(x + n < l \/ OfData(op))
  <2>1. g = h /\ x + n = l
    <3>1. ~(x + n < l) => x + n = l
      OBVIOUS
    <3> QED BY <1>2, <1>8, <3>1, Zenon DEF WithPayload
  <2>2. ASSUME r # <<>>, h # <<>> PROVE h[Len(h)].frame < r[1].frame /\ Complete(h[Len(h)])
    <3>1. h[Len(h)].frame \in Nat /\ r[1].frame \in Nat
      BY <1>4, <2>2, Ends, Zenon
    <3>2. r[1].frame > F
      BY <1>5, <2>1, <2>2, Zenon
    <3>3. h[Len(h)].frame = F \/ h[Len(h)].frame < F
      BY <1>7, <2>2, Zenon
    <3>4. Complete(h[Len(h)])
      BY <1>7, <1>8, <2>2, Zenon DEF Complete
    <3> QED BY <3>1, <3>2, <3>3, <3>4
  <2>3. r # <<>> => ~(r[1].at > 1)
    <3>1. r # <<>> => r[1].at = 0
      BY <1>5, <2>1, Zenon
    <3> QED BY <3>1
  <2>4. UpTo(r, g)
    BY <2>1, <2>2, <2>3, Zenon DEF UpTo
  <2> QED BY <1>6, <2>1, <2>4, Zenon
<1>9. CASE x + n < l \/ OfData(op)
  <2>1. /\ Len(g) = Len(h) + n /\ \A i \in 1..Len(h) : g[i] = h[i]
        /\ \A i \in 1..n : g[Len(h) + i] = [frame |-> F, op |-> op, len |-> l, at |-> x + i]
    <3>1. /\ Len(g) = Len(h) + n /\ \A i \in 1..Len(h) : g[i] = h[i]
          /\ \A i \in 1..n : g[Len(h) + i] = c[skip + i]
      BY <1>2, <1>9, Zenon DEF WithPayload
    <3>2. ASSUME NEW i \in 1..n PROVE c[skip + i] = [frame |-> F, op |-> op, len |-> l, at |-> x + i]
      <4>1. i \in 1..(Len(c) - skip) /\ x + i <= l
        BY <1>4
      <4> QED BY <1>3, <4>1
    <3> QED BY <3>1, <3>2, Zenon
  <2> DEFINE Short(i) == ~OfData(g[i].op) => g[i].at < g[i].len
  <2>2. ASSUME NEW k \in 1..n PROVE Short(Len(h) + k)
    <3>1. g[Len(h) + k].op = op /\ g[Len(h) + k].at = x + k /\ g[Len(h) + k].len = l
      <4>1. g[Len(h) + k] = [frame |-> F, op |-> op, len |-> l, at |-> x + k]
        BY <2>1, Zenon
      <4> HIDE <2>1
      <4> QED BY <4>1
    <3>2. x + n < l => x + k < l
      OBVIOUS
    <3> QED BY <1>9, <3>1, <3>2, Zenon
  <2>3. ASSUME NEW i \in DOMAIN g
        PROVE  (IF i = 1 THEN g[1].at = 1 ELSE Succeeds(g[i - 1], g[i])) /\ Short(i)
    <3>1. CASE i <= Len(h)
      <4>1. i \in 1..Len(h) /\ (i # 1 => i - 1 \in 1..Len(h)) /\ DOMAIN h = 1..Len(h)
        BY <1>4, <3>1
      <4>2. i \in DOMAIN h /\ g[i] = h[i] /\ (i # 1 => g[i - 1] = h[i - 1])
        BY <2>1, <4>1
      <4>3. /\ IF i = 1 THEN h[1].at = 1 ELSE Succeeds(h[i - 1], h[i])
            /\ ~OfData(h[i].op) => h[i].at < h[i].len
        BY <4>2, Zenon DEF InOrder
      <4> QED BY <4>2, <4>3, Zenon
    <3>2. CASE i = Len(h) + 1
      <4>1. 1 \in 1..n
        BY <1>4, <2>1, <3>2
      <4>2. g[i] = [frame |-> F, op |-> op, len |-> l, at |-> x + 1] /\ Short(i)
        BY <2>1, <2>2, <3>2, <4>1, Zenon
      <4>3. CASE i = 1
        <5>1. h = <<>>
          BY <1>4, <3>2, <4>3
        <5>2. ~(x > 0)
          BY <1>7, <5>1, Zenon
        <5>3. x + 1 = 1
          BY <5>2
        <5>4. g[1] = [frame |-> F, op |-> op, len |-> l, at |-> x + 1]
          BY <4>2, <4>3, Zenon
        <5>5. g[1].at = 1
          BY <5>3, <5>4
        <5> QED BY <4>2, <4>3, <5>5, Zenon
      <4>4. CASE i # 1
        <5>1. h # <<>> /\ i - 1 = Len(h) /\ g[i - 1] = h[Len(h)]
          <6>1. i - 1 = Len(h) /\ Len(h) \in 1..Len(h) /\ h # <<>>
            BY <1>4, <3>2, <4>4
          <6> QED BY <2>1, <6>1
        <5>2. h[Len(h)].frame \in Nat
          BY <5>1, Ends, Zenon
        <5>3. g[i].frame = F /\ g[i].at = x + 1
          BY <4>2
        <5>4. IF x > 0 THEN h[Len(h)].frame = F /\ h[Len(h)].at = x
              ELSE h[Len(h)].frame < F /\ Complete(h[Len(h)])
          BY <1>7, <5>1, Zenon
        <5>5. CASE x > 0
          <6>1. g[i].frame = g[i - 1].frame /\ g[i].at = g[i - 1].at + 1
            BY <5>1, <5>3, <5>4, <5>5
          <6> QED BY <4>2, <4>4, <6>1, Zenon DEF Succeeds
        <5>6. CASE ~(x > 0)
          <6>1. h[Len(h)].frame < F /\ Complete(h[Len(h)])
            BY <5>4, <5>6, Zenon
          <6>2. F > h[Len(h)].frame /\ F # h[Len(h)].frame /\ x + 1 = 1
            BY <5>2, <5>6, <6>1
          <6>3. Succeeds(g[i - 1], g[i])
            BY <5>1, <5>3, <6>1, <6>2, Zenon DEF Succeeds
          <6> QED BY <4>2, <4>4, <6>3, Zenon
        <5> QED BY <5>5, <5>6
      <4> QED BY <4>3, <4>4, Zenon
    <3>3. CASE i > Len(h) + 1
      <4> DEFINE k == i - Len(h) - 1
      <4>1. k \in 1..n /\ k + 1 \in 1..n /\ Len(h) + k = i - 1 /\ Len(h) + (k + 1) = i /\ i # 1
        <5>1. i \in 1..Len(g) /\ Len(g) = Len(h) + n
          BY <1>4, <2>1
        <5>2. PICK a \in Nat : a = Len(h)
          BY <1>4
        <5>3. i \in Nat /\ i > a + 1 /\ i <= a + n
          BY <3>3, <5>1, <5>2
        <5>4. i - a - 1 \in 1..n /\ (i - a - 1) + 1 \in 1..n /\ a + (i - a - 1) = i - 1 /\ a + ((i - a - 1) + 1) = i
          BY <5>3, Beyond, Zenon
        <5> QED BY <5>2, <5>3, <5>4
      <4> HIDE DEF k
      <4>2. /\ g[i] = [frame |-> F, op |-> op, len |-> l, at |-> x + (k + 1)]
            /\ g[i - 1] = [frame |-> F, op |-> op, len |-> l, at |-> x + k]
        BY <2>1, <4>1
      <4>3. g[i].frame = g[i - 1].frame /\ g[i].at = g[i - 1].at + 1
        BY <4>1, <4>2
      <4>4. Short(i)
        <5>1. Short(Len(h) + (k + 1))
          BY <2>2, <4>1, Zenon
        <5> QED BY <4>1, <5>1, Zenon
      <4> QED BY <4>1, <4>3, <4>4, Zenon DEF Succeeds
    <3> QED BY <1>4, <3>1, <3>2, <3>3
  <2>4. ASSUME n > 0 PROVE UpTo(r, g)
    <3>1. g # <<>> /\ Len(g) = Len(h) + n /\ n \in 1..n
      <4>1. Len(g) = Len(h) + n
        BY <2>1, Zenon
      <4>2. Len(g) # 0 /\ n \in 1..n
        BY <1>4, <2>4, <4>1
      <4> QED BY <4>1, <4>2
    <3>2. /\ g[Len(g)].frame = F /\ g[Len(g)].at = x + n
          /\ g[Len(g)].op = op /\ g[Len(g)].len = l
      <4>1. g[Len(h) + n] = [frame |-> F, op |-> op, len |-> l, at |-> x + n]
        BY <2>1, <3>1, Zenon
      <4> QED BY <3>1, <4>1
    <3>3. CASE x + n < l
      <4>1. r # <<>> => r[1].frame = F /\ r[1].op = op /\ r[1].at = x + (n + 1)
        BY <1>5, <3>3
      <4>2. r # <<>> => r[1].at > 1 /\ r[1].at - 1 = x + n
        BY <2>4, <4>1
      <4>3. r # <<>> => /\ r[1].at > 1 /\ g[Len(g)].frame = r[1].frame
                        /\ g[Len(g)].at = r[1].at - 1 /\ g[Len(g)].op = r[1].op
        BY <3>2, <4>1, <4>2, Zenon
      <4> QED BY <3>1, <4>3, Zenon DEF UpTo
    <3>4. CASE x + n = l
      <4>1. r # <<>> => r[1].frame > F /\ r[1].at = 0
        BY <1>5, <3>4
      <4>2. r # <<>> => F < r[1].frame /\ ~(r[1].at > 1)
        BY <4>1
      <4>3. r # <<>> => g[Len(g)].frame < r[1].frame
        BY <3>2, <4>2
      <4>4. Complete(g[Len(g)])
        BY <3>2, <3>4, Zenon DEF Complete
      <4> QED BY <4>2, <4>3, <4>4, Zenon DEF UpTo
    <3> QED BY <3>3, <3>4
  <2>5. ASSUME n = 0 PROVE UpTo(r, g)
    <3>1. x = 0 /\ Len(g) = Len(h) /\ ~(x > 0)
      BY <1>4, <2>1, <2>5
    <3>2. g # <<>> => h # <<>> /\ g[Len(g)] = h[Len(h)]
      BY <1>4, <2>1, <3>1
    <3>3. g # <<>> => g[Len(g)].frame < F /\ Complete(g[Len(g)])
      BY <1>7, <3>1, <3>2, Zenon
    <3>4. r # <<>> => ~(r[1].at > 1) /\ (r[1].frame = F \/ r[1].frame > F)
      BY <1>5, <2>5, <3>1
    <3>5. ASSUME r # <<>>, g # <<>> PROVE g[Len(g)].frame < r[1].frame
      <4>1. g[Len(g)].frame \in Nat /\ r[1].frame \in Nat
        <5>1. g \in Seq(Symbol)
          BY DEF WithPayload
        <5> QED BY <1>4, <3>5, <5>1, Ends, Zenon
      <4>2. g[Len(g)].frame < F /\ (r[1].frame = F \/ r[1].frame > F)
        BY <3>3, <3>4, <3>5, Zenon
      <4> QED BY <4>1, <4>2, Under, Zenon
    <3> QED BY <3>3, <3>4, <3>5, Zenon DEF UpTo
  <2>6. UpTo(r, g)
    BY <2>4, <2>5
  <2>7. InOrder(g)
    BY <2>3, Zenon DEF InOrder
  <2> QED BY <1>6, <2>6, <2>7, Zenon
<1> QED BY <1>8, <1>9

(* A turn of the loop of _onData(): a header if the frame is over, and n   *)
(* bytes of the payload, from the x-th on                                  *)
OneTurn(op, l, x, skip, n) ==
  /\ op \in {"text", "continuation", "ping", "pong", "close"} /\ l \in Nat /\ x \in Nat
  /\ skip \in {0, 1} /\ n \in Nat
  /\ skip + n <= Len(segment) /\ x + n <= l /\ (n = 0 => x = 0) /\ (skip = 1 => x = 0)
  /\ Coming[1].op = op /\ Coming[1].len = l /\ Coming[1].at = x + 1 - skip
  /\ frame' = [open |-> x + n < l, op |-> op, len |-> l, index |-> x + n] /\ input' = input
  /\ segment' = SubSeq(segment, skip + n + 1, Len(segment))
  /\ handed' = IF x + n < l \/ OfData(op) THEN handed \o SubSeq(segment, skip + 1, skip + n)
               ELSE handed

LEMMA TurnKeeps ==
  ASSUME SocketInv, Coming # <<>>,
         NEW op, NEW l, NEW x, NEW skip, NEW n, OneTurn(op, l, x, skip, n)
  PROVE  SocketInv'
<1> SUFFICES ASSUME op \in {"text", "continuation", "ping", "pong", "close"}, l \in Nat, x \in Nat,
                    skip \in {0, 1}, n \in Nat,
                    skip + n <= Len(segment), x + n <= l, n = 0 => x = 0, skip = 1 => x = 0,
                    Coming[1].op = op, Coming[1].len = l, Coming[1].at = x + 1 - skip,
                    frame' = [open |-> x + n < l, op |-> op, len |-> l, index |-> x + n], input' = input,
                    segment' = SubSeq(segment, skip + n + 1, Len(segment)),
                    handed' = IF x + n < l \/ OfData(op) THEN handed \o SubSeq(segment, skip + 1, skip + n)
                              ELSE handed
             PROVE  SocketInv'
  BY Zenon DEF OneTurn
<1>1. /\ segment \in Seq(Symbol) /\ input \in Seq(Symbol) /\ handed \in Seq(Symbol)
      /\ Framed(Coming) /\ InOrder(handed) /\ UpTo(Coming, handed)
  BY OrderIs, Zenon DEF SocketInv, SocketTypes, GoesOn
<1>2. /\ Coming \in Seq(Symbol) /\ Len(Coming) = Len(segment) + Len(input)
      /\ \A i \in 1..Len(segment) : Coming[i] = segment[i]
  BY <1>1, Joined, Zenon DEF Coming
<1>3. PICK m \in Nat : m = skip + n
  OBVIOUS
<1>4. Len(segment) \in Nat /\ Len(input) \in Nat /\ m <= Len(segment) /\ m <= Len(Coming) /\ skip <= m
  BY <1>1, <1>2, <1>3
<1>5. segment' = SubSeq(segment, m + 1, Len(segment)) /\ segment' \in Seq(Symbol)
  <2>1. segment' = SubSeq(segment, m + 1, Len(segment))
    BY <1>3, Zenon
  <2>2. SubSeq(segment, m + 1, Len(segment)) \in Seq(Symbol)
    BY <1>1, <1>4, Part
  <2> QED BY <2>1, <2>2, Zenon
<1>6. Left(Coming, m, Coming')
  <2>1. Coming' = SubSeq(segment, m + 1, Len(segment)) \o input
    BY <1>5, Zenon DEF Coming
  <2>2. Left(segment \o input, m, SubSeq(segment, m + 1, Len(segment)) \o input)
    BY <1>1, <1>4, Suffix
  <2> QED BY <2>1, <2>2, Zenon DEF Coming
<1>7. WithPayload(handed, Coming, l, x, skip, n, handed')
  <2>1. CASE ~(x + n < l \/ OfData(op))
    BY <1>1, <2>1, Zenon DEF WithPayload
  <2>2. CASE x + n < l \/ OfData(op)
    <3> DEFINE data == SubSeq(segment, skip + 1, m)
    <3>1. handed' = handed \o data
      BY <1>3, <2>2, Zenon
    <3>2. data \in Seq(Symbol) /\ Len(data) = m - skip /\ \A k \in 1..(m - skip) : data[k] = segment[skip + k]
      <4>1. segment \in Seq(Symbol) /\ skip \in Nat /\ skip <= m /\ m <= Len(segment)
        BY <1>1, <1>4
      <4> QED BY <4>1, Part, SMTT(30)
    <3> HIDE DEF data
    <3>3. m - skip = n
      BY <1>3
    <3>4. /\ handed' \in Seq(Symbol) /\ Len(handed') = Len(handed) + Len(data)
          /\ \A i \in 1..Len(handed) : handed'[i] = handed[i]
          /\ \A i \in 1..Len(data) : handed'[Len(handed) + i] = data[i]
      <4>1. handed \in Seq(Symbol) /\ data \in Seq(Symbol)
        BY <1>1, <3>2, Zenon
      <4>2. /\ handed \o data \in Seq(Symbol) /\ Len(handed \o data) = Len(handed) + Len(data)
            /\ \A i \in 1..Len(handed) : (handed \o data)[i] = handed[i]
            /\ \A i \in 1..Len(data) : (handed \o data)[Len(handed) + i] = data[i]
        BY <4>1, Joined
      <4> QED BY <3>1, <4>2, Zenon
    <3>5. ASSUME NEW i \in 1..n PROVE handed'[Len(handed) + i] = Coming[skip + i]
      <4>1. skip + i \in 1..Len(segment)
        BY <1>3, <1>4
      <4>2. Coming[skip + i] = segment[skip + i]
        BY <1>2, <4>1, Zenon
      <4> QED BY <3>2, <3>3, <3>4, <4>2, Zenon
    <3> QED BY <2>2, <3>2, <3>3, <3>4, <3>5, Zenon DEF WithPayload
  <2> QED BY <2>1, <2>2, Zenon
<1>8. Follows(Coming, l, x, n, Coming') /\ InOrder(handed') /\ UpTo(Coming', handed')
  <2>1. Left(Coming, skip + n, Coming') /\ skip + n <= Len(Coming)
    BY <1>3, <1>4, <1>6, Zenon
  <2>2. Turn(Coming, l, x, skip, n, Coming', handed, handed')
    BY <1>1, <1>2, <1>7, <2>1, Zenon DEF Turn
  <2> QED BY <2>2, PayloadGoesOn, Zenon
<1>9. Framed(Coming')
  <2>1. m \in 0..Len(Coming)
    BY <1>2, <1>4
  <2>2. Coming' \in Seq(Symbol) /\ Len(Coming') = Len(Coming) - m /\ \A k \in 1..Len(Coming') : Coming'[k] = Coming[m + k]
    BY <1>6, Zenon DEF Left
  <2> QED BY <1>1, <1>2, <2>1, <2>2, FramedRest, Zenon
<1>10. SocketTypes'
  <2>1. frame' \in [open : BOOLEAN, op : {"text", "continuation", "ping", "pong", "close"}, len : Nat, index : Nat]
    OBVIOUS
  <2>2. frame'.open => frame'.index < frame'.len
    OBVIOUS
  <2>3. handed' \in Seq(Symbol) /\ input' \in Seq(Symbol)
    BY <1>1, <1>7, Zenon DEF WithPayload
  <2> QED BY <1>5, <2>1, <2>2, <2>3, Zenon DEF SocketTypes
<1>11. Agrees'
  <2>1. /\ frame'.open = (x + n < l) /\ frame'.op = op /\ frame'.len = l /\ frame'.index = x + n
    OBVIOUS
  <2> QED BY <1>8, <2>1, Zenon DEF Agrees, Follows
<1>12. GoesOn' /\ HandedInOrder'
  <2>1. InOrder(handed') => HandedInOrder'
    BY Zenon DEF HandedInOrder, InOrder, Succeeds, Complete, IsData, OfData
  <2> QED BY <1>8, <2>1, Zenon DEF GoesOn
<1> QED BY <1>9, <1>10, <1>11, <1>12, Zenon DEF SocketInv

LEMMA BehindFirst ==
  ASSUME NEW s \in Seq(Symbol), s # <<>>, NEW a \in Nat, NEW b \in Nat, a <= b, b <= Len(s) - 1
  PROVE  SubSeq(Tail(s), a + 1, b) = SubSeq(s, a + 2, b + 1)
<1>1. /\ Len(s) \in Nat /\ Tail(s) \in Seq(Symbol) /\ Len(Tail(s)) = Len(s) - 1
      /\ \A k \in 1..(Len(s) - 1) : Tail(s)[k] = s[k + 1]
  OBVIOUS
<1>2. /\ SubSeq(Tail(s), a + 1, b) \in Seq(Symbol) /\ Len(SubSeq(Tail(s), a + 1, b)) = b - a
      /\ \A k \in 1..(b - a) : SubSeq(Tail(s), a + 1, b)[k] = Tail(s)[a + k]
  BY <1>1, Part
<1>3. /\ SubSeq(s, (a + 1) + 1, b + 1) \in Seq(Symbol) /\ Len(SubSeq(s, (a + 1) + 1, b + 1)) = (b + 1) - (a + 1)
      /\ \A k \in 1..((b + 1) - (a + 1)) : SubSeq(s, (a + 1) + 1, b + 1)[k] = s[(a + 1) + k]
  <2>1. a + 1 \in Nat /\ b + 1 \in Nat /\ a + 1 <= b + 1 /\ b + 1 <= Len(s)
    BY <1>1
  <2> QED BY <2>1, Part
<1>4. (a + 1) + 1 = a + 2 /\ (b + 1) - (a + 1) = b - a
  OBVIOUS
<1> DEFINE u == SubSeq(Tail(s), a + 1, b)
           v == SubSeq(s, a + 2, b + 1)
<1>5. u \in Seq(Symbol) /\ v \in Seq(Symbol) /\ Len(u) = b - a /\ Len(v) = b - a
  BY <1>2, <1>3, <1>4, Zenon
<1>6. ASSUME NEW k \in 1..(b - a) PROVE u[k] = v[k]
  <2>1. a + k \in 1..(Len(s) - 1) /\ (a + k) + 1 = (a + 1) + k
    BY <1>1
  <2>2. u[k] = Tail(s)[a + k] /\ Tail(s)[a + k] = s[(a + k) + 1]
    BY <1>1, <1>2, <2>1, Zenon
  <2>3. v[k] = s[(a + 1) + k]
    BY <1>3, <1>4, Zenon
  <2> QED BY <2>1, <2>2, <2>3, Zenon
<1> HIDE DEF u, v
<1>7. u = v
  BY <1>5, <1>6
<1> QED BY <1>7, Zenon DEF u, v

(* _onData(): what it does is a turn of the loop, or the end. *)
LEMMA DataKeeps ==
  ASSUME SocketInv, SocketData
  PROVE  SocketInv'
<1> DEFINE f == IF frame.open THEN frame
                ELSE [open |-> TRUE, op |-> segment[1].op, len |-> segment[1].len, index |-> 0]
           after == IF frame.open THEN segment ELSE Tail(segment)
           taken == Least(f.len - f.index, Len(after))
<1>1. \/ /\ frame' = Read(f, taken) /\ segment' = SubSeq(after, taken + 1, Len(after)) /\ input' = input
         /\ handed' = IF Read(f, taken).open \/ OfData(f.op)
                        THEN handed \o SubSeq(after, 1, taken) ELSE handed
      \/ SocketGone
  BY Zenon DEF SocketData, OfData
<1>2. CASE SocketGone
  BY <1>2, GoneKeeps DEF SocketGone
<1>3. segment # <<>>
  BY DEF SocketData
<1>4. segment \in Seq(Symbol) /\ input \in Seq(Symbol) /\ Len(segment) \in Nat /\ segment[1] \in Symbol
  BY <1>3 DEF SocketInv, SocketTypes
<1>5. Coming \in Seq(Symbol) /\ Coming # <<>> /\ Coming[1] = segment[1]
  <2>1. /\ segment \o input \in Seq(Symbol) /\ Len(segment \o input) = Len(segment) + Len(input)
        /\ \A i \in 1..Len(segment) : (segment \o input)[i] = segment[i]
    BY <1>4, Joined, Zenon
  <2>2. Len(input) \in Nat /\ 1 \in 1..Len(segment)
    BY <1>3, <1>4
  <2>3. Len(segment \o input) # 0
    BY <1>4, <2>1, <2>2
  <2> QED BY <2>1, <2>2, <2>3 DEF Coming
<1>6. /\ frame \in [open : BOOLEAN, op : {"text", "continuation", "ping", "pong", "close"}, len : Nat, index : Nat]
      /\ (frame.open => frame.index < frame.len) /\ Agrees
  BY Zenon DEF SocketInv, SocketTypes
<1>7. CASE /\ frame' = Read(f, taken) /\ segment' = SubSeq(after, taken + 1, Len(after)) /\ input' = input
           /\ handed' = IF Read(f, taken).open \/ OfData(f.op)
                          THEN handed \o SubSeq(after, 1, taken) ELSE handed
  <2>1. CASE frame.open
    <3>1. f = frame /\ after = segment
      BY <2>1, Zenon
    <3>2. PICK op, l, x, n : op = frame.op /\ l = frame.len /\ x = frame.index /\ n = Least(l - x, Len(segment))
      OBVIOUS
    <3>3. op \in {"text", "continuation", "ping", "pong", "close"} /\ l \in Nat /\ x \in Nat /\ x < l
      BY <1>6, <2>1, <3>2
    <3>4. n \in Nat /\ n <= Len(segment) /\ x + n <= l /\ n # 0
      BY <1>3, <1>4, <3>2, <3>3 DEF Least
    <3>5. taken = n
      BY <3>1, <3>2, Zenon
    <3>6. frame = [open |-> TRUE, op |-> op, len |-> l, index |-> x]
      BY <1>6, <2>1, <3>2
    <3>7. frame' = [open |-> x + n < l, op |-> op, len |-> l, index |-> x + n]
      <4>1. frame' = Read(frame, n)
        BY <1>7, <3>1, <3>5, Zenon
      <4> QED BY <3>6, <4>1 DEF Read
    <3>8. Coming[1].op = op /\ Coming[1].len = l /\ Coming[1].at = x + 1
      BY <1>5, <1>6, <2>1, <3>2, Zenon DEF Agrees
    <3>9. /\ segment' = SubSeq(segment, n + 1, Len(segment)) /\ input' = input
          /\ handed' = IF x + n < l \/ OfData(op) THEN handed \o SubSeq(segment, 1, n) ELSE handed
      <4>1. f.op = op
        BY <3>1, <3>2, Zenon
      <4>2. Read(f, taken).open = (x + n < l)
        BY <3>1, <3>5, <3>6 DEF Read
      <4> QED BY <1>7, <3>1, <3>5, <4>1, <4>2, Zenon
    <3>10. 0 + n = n /\ 0 + n + 1 = n + 1 /\ x + 1 - 0 = x + 1 /\ 0 + 1 = 1 /\ 0 \in {0, 1} /\ 0 # 1
      BY <3>3, <3>4
    <3>11. OneTurn(op, l, x, 0, n)
      BY <3>3, <3>4, <3>7, <3>8, <3>9, <3>10, Zenon DEF OneTurn
    <3> QED BY <1>5, <3>11, TurnKeeps, Zenon
  <2>2. CASE ~frame.open
    <3>1. /\ f = [open |-> TRUE, op |-> segment[1].op, len |-> segment[1].len, index |-> 0]
          /\ after = Tail(segment)
      BY <2>2, Zenon
    <3>2. PICK op, l, n : op = segment[1].op /\ l = segment[1].len /\ n = Least(l - 0, Len(after))
      OBVIOUS
    <3>3. op \in {"text", "continuation", "ping", "pong", "close"} /\ l \in Nat
      BY <1>4, <3>2 DEF Symbol
    <3>4. /\ after \in Seq(Symbol) /\ Len(after) \in Nat /\ Len(after) = Len(segment) - 1
          /\ \A k \in 1..Len(after) : after[k] = segment[k + 1]
      BY <1>3, <1>4, <3>1
    <3>5. f = [open |-> TRUE, op |-> op, len |-> l, index |-> 0]
      BY <3>1, <3>2, Zenon
    <3> HIDE DEF after
    <3>6. n \in Nat /\ n <= Len(after) /\ n <= l /\ 1 + n <= Len(segment)
      BY <1>4, <3>2, <3>3, <3>4 DEF Least
    <3>7. taken = n
      BY <3>2, <3>5
    <3>8. frame' = [open |-> n < l, op |-> op, len |-> l, index |-> n]
      <4>1. frame' = Read([open |-> TRUE, op |-> op, len |-> l, index |-> 0], n)
        BY <1>7, <3>5, <3>7, Zenon
      <4>2. frame' = [open |-> 0 + n < l, op |-> op, len |-> l, index |-> 0 + n]
        BY <4>1 DEF Read
      <4>3. 0 + n = n
        BY <3>6
      <4> QED BY <4>2, <4>3, Zenon
    <3>9. SubSeq(after, n + 1, Len(after)) = SubSeq(segment, n + 2, Len(segment))
      <4>1. n \in Nat /\ n <= Len(after) /\ Len(after) <= Len(segment) - 1 /\ Len(after) + 1 = Len(segment)
        BY <1>4, <3>4, <3>6
      <4>2. SubSeq(Tail(segment), n + 1, Len(after)) = SubSeq(segment, n + 2, Len(after) + 1)
        BY <1>3, <1>4, <3>4, <4>1, BehindFirst, Zenon
      <4> QED BY <3>1, <4>1, <4>2, Zenon
    <3>10. SubSeq(after, 1, n) = SubSeq(segment, 2, n + 1)
      <4>1. 0 \in Nat /\ 0 <= n /\ n <= Len(segment) - 1 /\ 0 + 1 = 1 /\ 0 + 2 = 2
        BY <1>4, <3>4, <3>6
      <4>2. SubSeq(Tail(segment), 0 + 1, n) = SubSeq(segment, 0 + 2, n + 1)
        BY <1>3, <1>4, <3>6, <4>1, BehindFirst, Zenon
      <4> QED BY <3>1, <4>1, <4>2, Zenon
    <3>11. Coming[1].op = op /\ Coming[1].len = l /\ Coming[1].at = 0
      BY <1>5, <1>6, <2>2, <3>2, Zenon DEF Agrees
    <3>12. /\ segment' = SubSeq(segment, n + 2, Len(segment)) /\ input' = input
           /\ handed' = IF 0 + n < l \/ OfData(op) THEN handed \o SubSeq(segment, 2, n + 1) ELSE handed
      <4>1. f.op = op
        BY <3>5
      <4>2. Read(f, taken).open = (0 + n < l)
        BY <3>5, <3>7 DEF Read
      <4> QED BY <1>7, <3>7, <3>9, <3>10, <4>1, <4>2, Zenon
    <3>13. 1 + n = n + 1 /\ 1 + n + 1 = n + 2 /\ 0 + 1 - 1 = 0 /\ 1 + 1 = 2 /\ 0 + n = n /\ 1 \in {0, 1} /\ 0 \in Nat
      BY <3>3, <3>6
    <3>14. OneTurn(op, l, 0, 1, n)
      BY <3>3, <3>6, <3>8, <3>11, <3>12, <3>13, Zenon DEF OneTurn
    <3> QED BY <1>5, <3>14, TurnKeeps, Zenon
  <2> QED BY <2>1, <2>2
<1> QED BY <1>1, <1>2, <1>7

(* The other calls and callbacks leave what comes, and what has been handed *)
(* on, alone, or are the end.                                              *)
LEMMA SocketStays ==
  ASSUME SocketInv, UNCHANGED <<input, segment, frame, handed>>
  PROVE  SocketInv'
<1>1. Coming' = Coming
  BY Zenon DEF Coming
<1>2. SocketTypes' /\ Agrees' /\ GoesOn' /\ HandedInOrder'
  BY <1>1, Zenon DEF SocketInv, SocketTypes, Agrees, GoesOn, HandedInOrder, IsData
<1> QED BY <1>1, <1>2, Zenon DEF SocketInv

LEMMA SocketStep ==
  ASSUME SocketInv, [Next]_vars
  PROVE  SocketInv'
<1>1. CASE UNCHANGED <<input, segment, frame, handed>>
  BY <1>1, SocketStays
<1>2. CASE EventNext /\ UNCHANGED <<socketVars, serverVars>>
  BY <1>1, <1>2 DEF socketVars
<1>3. CASE ServerNext /\ UNCHANGED <<stream, eventVars, socketVars>>
  BY <1>1, <1>3 DEF socketVars
<1>4. CASE SocketNext
  <2>1. CASE \E v \in {0, 8, 13}, key, admitted \in BOOLEAN : SocketRequest(v, key, admitted)
    BY <1>1, <2>1, Zenon DEF SocketRequest
  <2>2. CASE SocketOpens
    BY <1>1, <2>2, Zenon DEF SocketOpens
  <2>3. CASE SocketEnds
    BY <2>3, GoneKeeps, Zenon DEF SocketEnds, SocketGone
  <2>4. CASE SocketAck
    <3>1. SocketGone \/ UNCHANGED <<input, segment, frame, handed>>
      BY <2>4, Zenon DEF SocketAck
    <3> QED BY <1>1, <3>1, GoneKeeps, Zenon DEF SocketGone
  <2>5. CASE SocketPoll
    BY <1>1, <2>5, Zenon DEF SocketPoll
  <2>6. CASE SocketSegment
    BY <2>6, SegmentKeeps
  <2>7. CASE SocketData
    BY <2>7, DataKeeps
  <2>8. CASE SendMessage
    BY <1>1, <2>8, Zenon DEF SendMessage
  <2>9. CASE SendFailsToCopy
    BY <1>1, <2>9, Zenon DEF SendFailsToCopy
  <2>10. CASE PrintFails
    BY <1>1, <2>10, Zenon DEF PrintFails
  <2>11. CASE SendControl
    BY <1>1, <2>11, Zenon DEF SendControl
  <2>12. CASE PeerAcks /\ UNCHANGED socketVars
    BY <1>1, <2>12, Zenon DEF socketVars
  <2> QED BY <1>4, <2>1, <2>2, <2>3, <2>4, <2>5, <2>6, <2>7, <2>8, <2>9, <2>10, <2>11, <2>12, Zenon DEF SocketNext
<1>5. CASE UNCHANGED vars
  BY <1>1, <1>5, Zenon DEF vars, socketVars
<1> QED BY <1>2, <1>3, <1>4, <1>5, Zenon DEF Next

(* What has been handed on of the peer's frames is in order and goes right *)
(* up to what comes next, and _pinfo and _pstate say where that is.        *)
THEOREM SocketInvariant == Spec => []SocketInv
<1>1. Init => SocketInv
  BY SocketStarts
<1>2. SocketInv /\ [Next]_vars => SocketInv'
  BY SocketStep
<1> QED BY <1>1, <1>2, PTL DEF Spec

(* _onData() hands the application the payload of the peer's frames in     *)
(* order, each byte once and with its position in the frame, and all of a  *)
(* data frame before anything that comes later, wherever a segment ends    *)
(* but inside a header; of a control frame it hands on the pieces that     *)
(* come before the last, and never the last.                               *)
THEOREM PayloadHandedInOrder == Spec => []HandedInOrder
<1>1. SocketInv => HandedInOrder
  BY DEF SocketInv
<1> QED BY <1>1, SocketInvariant, PTL

-----------------------------------------------------------------------------
(* The loops over the queue of events *)

Turns(queue, failing, f, n) ==
  /\ DOMAIN f = 0..n /\ f[0] = [queue |-> queue, out |-> <<>>]
  /\ \A i \in 1..n : f[i] = SendOne(f[i - 1], i, failing)

(* The loop of _runQueue() has a turn for each event of the queue. *)
LEMMA LoopTurns ==
  ASSUME NEW queue, NEW failing, Len(queue) \in Nat
  PROVE  \E f : Turns(queue, failing, f, Len(queue)) /\ RunLoop(queue, failing) = f[Len(queue)]
<1> DEFINE start == [queue |-> queue, out |-> <<>>]
           By(f, n) == f = [i \in 0..n |-> IF i = 0 THEN start ELSE SendOne(f[i - 1], i, failing)]
           bad == {n \in Nat : ~\E f : By(f, n)}
<1>1. bad = {}
  <2> SUFFICES ASSUME bad # {} PROVE FALSE
    OBVIOUS
  <2>1. bad \in SUBSET Nat
    OBVIOUS
  <2>2. PICK n \in bad : \A k \in bad : n <= k
    <3> HIDE DEF bad
    <3> QED BY <2>1, Smallest
  <2>3. n # 0
    <3> DEFINE g == [i \in 0..0 |-> start]
    <3>1. By(g, 0)
      OBVIOUS
    <3> QED BY <3>1
  <2>4. n - 1 \in Nat /\ n - 1 \notin bad
    <3>1. n \in Nat
      OBVIOUS
    <3> HIDE DEF bad
    <3> QED BY <2>2, <2>3, <3>1
  <2>5. PICK g : By(g, n - 1)
    BY <2>4
  <2>9. n \in Nat
    OBVIOUS
  <2> HIDE DEF bad
  <2> DEFINE h == [i \in 0..n |-> IF i = 0 THEN start ELSE SendOne(g[i - 1], i, failing)]
  <2>6. \A i \in 0..(n - 1) : h[i] = g[i]
    <3>1. \A i \in 0..(n - 1) : g[i] = IF i = 0 THEN start ELSE SendOne(g[i - 1], i, failing)
      BY <2>5
    <3>2. \A i \in 0..(n - 1) : i \in 0..n
      BY <2>4, <2>9
    <3>3. \A i \in 0..n : h[i] = IF i = 0 THEN start ELSE SendOne(g[i - 1], i, failing)
      OBVIOUS
    <3> QED BY <3>1, <3>2, <3>3
  <2>7. \A i \in 0..n : i # 0 => h[i - 1] = g[i - 1]
    <3>1. \A i \in 0..n : i # 0 => i - 1 \in 0..(n - 1)
      BY <2>9
    <3> HIDE DEF h
    <3> QED BY <2>6, <3>1
  <2>8. By(h, n)
    <3>1. h = [i \in 0..n |-> IF i = 0 THEN start ELSE SendOne(h[i - 1], i, failing)]
      <4> DEFINE r == [i \in 0..n |-> IF i = 0 THEN start ELSE SendOne(h[i - 1], i, failing)]
      <4>1. \A i \in 0..n : h[i] = r[i]
        BY <2>7
      <4>2. DOMAIN h = 0..n /\ DOMAIN r = 0..n
        OBVIOUS
      <4>3. h = [i \in 0..n |-> h[i]] /\ r = [i \in 0..n |-> r[i]]
        OBVIOUS
      <4> HIDE DEF h, r
      <4>4. h = r
        BY <4>1, <4>3
      <4> QED BY <4>4 DEF r
    <3> QED BY <3>1
  <2>10. n \notin bad
    <3> HIDE DEF h, By
    <3> QED BY <2>8 DEF bad
  <2> QED BY <2>10, <2>2
<1> DEFINE n == Len(queue)
<1>2. \E f : By(f, n)
  BY <1>1
<1> DEFINE f == CHOOSE f : By(f, n)
<1>3. By(f, n)
  BY <1>2
<1>4. RunLoop(queue, failing) = f[n]
  BY DEF RunLoop
<1> HIDE DEF f
<1>5. Turns(queue, failing, f, n)
  <2>1. DOMAIN f = 0..n
    BY <1>3
  <2>2. f[0] = start
    BY <1>3
  <2>3. \A i \in 1..n : f[i] = SendOne(f[i - 1], i, failing)
    BY <1>3
  <2> QED BY <2>1, <2>2, <2>3 DEF Turns
<1> QED BY <1>4, <1>5

(* What is credited to the i-th event of a queue, out of what is left over *)
(* by the ones before it                                                   *)
Shares(queue, n, left) ==
  /\ DOMAIN left = 0..Len(queue) /\ left[0] = n
  /\ \A i \in 1..Len(queue) : left[i] = left[i - 1] - Credit(queue[i], left[i - 1])

(* The loop of _onAck() *)
LEMMA Shared ==
  ASSUME NEW queue, NEW n, Len(queue) \in Nat
  PROVE  \E left :
           /\ Shares(queue, n, left)
           /\ Credited(queue, n) =
                [i \in DOMAIN queue |-> [queue[i] EXCEPT !.acked = @ + Credit(queue[i], left[i - 1])]]
<1> DEFINE By(f, l) == f = [i \in 0..l |-> IF i = 0 THEN n ELSE f[i - 1] - Credit(queue[i], f[i - 1])]
           bad == {l \in Nat : ~\E f : By(f, l)}
<1>1. bad = {}
  <2> SUFFICES ASSUME bad # {} PROVE FALSE
    OBVIOUS
  <2>1. bad \in SUBSET Nat
    OBVIOUS
  <2>2. PICK l \in bad : \A k \in bad : l <= k
    <3> HIDE DEF bad
    <3> QED BY <2>1, Smallest
  <2>3. l # 0
    <3> DEFINE g == [i \in 0..0 |-> n]
    <3>1. By(g, 0)
      OBVIOUS
    <3> QED BY <3>1
  <2>4. l - 1 \in Nat /\ l - 1 \notin bad
    <3>1. l \in Nat
      OBVIOUS
    <3> HIDE DEF bad
    <3> QED BY <2>2, <2>3, <3>1
  <2>5. PICK g : By(g, l - 1)
    BY <2>4
  <2>6. l \in Nat
    OBVIOUS
  <2> HIDE DEF bad
  <2> DEFINE h == [i \in 0..l |-> IF i = 0 THEN n ELSE g[i - 1] - Credit(queue[i], g[i - 1])]
  <2>7. \A i \in 0..(l - 1) : h[i] = g[i]
    <3>1. \A i \in 0..(l - 1) : g[i] = IF i = 0 THEN n ELSE g[i - 1] - Credit(queue[i], g[i - 1])
      BY <2>5
    <3>2. \A i \in 0..(l - 1) : i \in 0..l
      BY <2>4, <2>6
    <3>3. \A i \in 0..l : h[i] = IF i = 0 THEN n ELSE g[i - 1] - Credit(queue[i], g[i - 1])
      OBVIOUS
    <3> QED BY <3>1, <3>2, <3>3
  <2>8. \A i \in 0..l : i # 0 => h[i - 1] = g[i - 1]
    <3>1. \A i \in 0..l : i # 0 => i - 1 \in 0..(l - 1)
      BY <2>6
    <3> HIDE DEF h
    <3> QED BY <2>7, <3>1
  <2>9. By(h, l)
    <3> DEFINE r == [i \in 0..l |-> IF i = 0 THEN n ELSE h[i - 1] - Credit(queue[i], h[i - 1])]
    <3>1. \A i \in 0..l : h[i] = r[i]
      BY <2>8
    <3>2. h = [i \in 0..l |-> h[i]] /\ r = [i \in 0..l |-> r[i]]
      OBVIOUS
    <3> HIDE DEF h, r
    <3>3. h = r
      BY <3>1, <3>2
    <3> QED BY <3>3 DEF r
  <2>10. l \notin bad
    <3> HIDE DEF h, By
    <3> QED BY <2>9 DEF bad
  <2> QED BY <2>10, <2>2
<1>2. \E f : By(f, Len(queue))
  BY <1>1
<1> DEFINE left == CHOOSE f : By(f, Len(queue))
<1>3. By(left, Len(queue))
  BY <1>2
<1>4. Credited(queue, n) =
        [i \in DOMAIN queue |-> [queue[i] EXCEPT !.acked = @ + Credit(queue[i], left[i - 1])]]
  BY DEF Credited
<1> HIDE DEF left
<1>5. Shares(queue, n, left)
  <2>1. DOMAIN left = 0..Len(queue)
    BY <1>3
  <2>2. left[0] = n
    BY <1>3
  <2>3. \A i \in 1..Len(queue) : left[i] = left[i - 1] - Credit(queue[i], left[i - 1])
    BY <1>3
  <2> QED BY <2>1, <2>2, <2>3 DEF Shares
<1> QED BY <1>4, <1>5

LEMMA Upward ==
  ASSUME NEW N \in Nat, NEW S, 0 \in S, \A j \in 1..N : j - 1 \in S => j \in S
  PROVE  \A j \in 0..N : j \in S
<1> DEFINE bad == {j \in Nat : j <= N /\ j \notin S}
<1>1. CASE bad = {}
  <2>1. \A j \in 0..N : j \notin bad
    BY <1>1
  <2> QED BY <2>1
<1>2. CASE bad # {}
  <2>1. PICK n \in bad : \A k \in bad : n <= k
    <3>1. bad \in SUBSET Nat
      OBVIOUS
    <3> HIDE DEF bad
    <3> QED BY <1>2, <3>1, Smallest
  <2>2. n \in Nat /\ n <= N /\ n \notin S /\ n # 0
    OBVIOUS
  <2>3. n - 1 \notin bad
    <3> HIDE DEF bad
    <3> QED BY <2>1, <2>2
  <2>4. n - 1 \in S
    BY <2>2, <2>3
  <2> QED BY <2>2, <2>4
<1> QED BY <1>1, <1>2

-----------------------------------------------------------------------------
(* The queue of events: what is credited, and what leaves it *)

EventMessage == [event : Nat, len : Nat, sent : BOOLEAN, acked : Nat]

(* The queue holds the last of the events that were accepted. *)
Lined(q, acc) ==
  /\ q \in Seq(EventMessage) /\ acc \in Seq(Nat) /\ Len(q) <= Len(acc)
  /\ \A i \in 1..Len(q) :
       /\ q[i].event = Len(acc) - Len(q) + i /\ q[i].len = acc[q[i].event]
       /\ q[i].acked <= q[i].len

(* s[i] is how long the first i events are. *)
Sums(s, acc) ==
  /\ s \in [0..Len(acc) -> Nat] /\ s[0] = 0
  /\ \A i \in 1..Len(acc) : s[i] = s[i - 1] + acc[i]
  /\ \A i, j \in 0..Len(acc) : i <= j => s[i] <= s[j]

(* No more than c bytes have been credited, and behind the front none. *)
FrontAcked(q) == IF q = <<>> THEN 0 ELSE q[1].acked
Paid(q, acc, s, c) ==
  /\ s[Len(acc) - Len(q)] + FrontAcked(q) <= c
  /\ \A i \in 2..Len(q) : q[i].acked = 0

LEMMA CreditBounds ==
  ASSUME NEW m \in EventMessage, m.acked <= m.len, NEW n \in Nat
  PROVE  /\ Credit(m, n) \in Nat /\ Credit(m, n) <= n /\ m.acked + Credit(m, n) <= m.len
         /\ m.acked + Credit(m, n) # m.len => Credit(m, n) = n
         /\ n = 0 => Credit(m, n) = 0
  BY DEF Credit, Least, EventMessage

LEMMA SharesAreLeft ==
  ASSUME NEW q, NEW acc, Lined(q, acc), NEW n \in Nat, NEW left, Shares(q, n, left)
  PROVE  \A i \in 0..Len(q) : left[i] \in Nat
<1> DEFINE S == {i \in 0..Len(q) : left[i] \in Nat}
<1>1. Len(q) \in Nat /\ \A i \in 1..Len(q) : q[i] \in EventMessage /\ q[i].acked <= q[i].len
  BY DEF Lined
<1>2. 0 \in S
  BY <1>1 DEF Shares
<1>3. ASSUME NEW j \in 1..Len(q), j - 1 \in S PROVE j \in S
  <2>1. left[j - 1] \in Nat /\ left[j] = left[j - 1] - Credit(q[j], left[j - 1])
    BY <1>3 DEF Shares
  <2>2. Credit(q[j], left[j - 1]) \in Nat /\ Credit(q[j], left[j - 1]) <= left[j - 1]
    BY <1>1, <2>1, CreditBounds
  <2>3. left[j] \in Nat
    BY <2>1, <2>2
  <2> QED BY <2>3, <1>1
<1> HIDE DEF S
<1>4. \A j \in 0..Len(q) : j \in S
  BY <1>1, <1>2, <1>3, Upward
<1> QED BY <1>4 DEF S

(* The events at the front that are done with leave the queue. *)
LEMMA Remains ==
  ASSUME NEW q \in Seq(EventMessage)
  PROVE  \E m \in 1..(Len(q) + 1) :
           /\ Remaining(q, EventFinished) = SubSeq(q, m, Len(q))
           /\ \A i \in 1..(m - 1) : q[i].acked = q[i].len
           /\ m <= Len(q) => q[m].acked # q[m].len
<1> DEFINE I == {i \in DOMAIN q : ~EventFinished(q[i])} \cup {Len(q) + 1}
<1>1. Len(q) \in Nat /\ DOMAIN q = 1..Len(q)
  OBVIOUS
<1>2. I \in SUBSET Nat /\ I # {} /\ \A i \in I : i \in 1..(Len(q) + 1)
  BY <1>1
<1>3. Min(I) \in I /\ \A i \in I : Min(I) <= i
  <2> HIDE DEF I
  <2> QED BY <1>2, Smallest
<1>4. PICK m \in I : m = Min(I) /\ \A i \in I : m <= i
  <2> HIDE DEF I
  <2> QED BY <1>3
<1>5. m \in 1..(Len(q) + 1)
  BY <1>2
<1>6. Remaining(q, EventFinished) = SubSeq(q, m, Len(q))
  BY <1>4 DEF Remaining
<1>7. \A i \in 1..(m - 1) : i \notin I
  <2> HIDE DEF I
  <2> QED BY <1>4, <1>5
<1>8. \A i \in 1..(m - 1) : q[i].acked = q[i].len
  BY <1>1, <1>5, <1>7 DEF EventFinished
<1>9. m <= Len(q) => q[m].acked # q[m].len
  BY <1>1, <1>5 DEF EventFinished
<1> QED BY <1>5, <1>6, <1>8, <1>9

(* What is left of q, in r, after n more bytes have been credited *)
Settled(q, r, m, acc, s, c) ==
  /\ Lined(r, acc) /\ Paid(r, acc, s, c) /\ m \in 1..(Len(q) + 1) /\ Len(r) = Len(q) - (m - 1)
  /\ \A j \in 1..Len(r) : r[j].sent = q[m - 1 + j].sent
  /\ \A i \in 1..(m - 1) : s[Len(acc) - Len(q) + i] <= c

LEMMA Settles ==
  ASSUME NEW q, NEW acc, NEW s, NEW c \in Int, NEW n \in Nat,
         Lined(q, acc), Sums(s, acc), Paid(q, acc, s, c)
  PROVE  \E m : Settled(q, Remaining(Credited(q, n), EventFinished), m, acc, s, c + n)
<1> DEFINE base == Len(acc) - Len(q)
           old(j) == IF j < Len(q) THEN q[j + 1].acked ELSE 0
<1>1. /\ q \in Seq(EventMessage) /\ acc \in Seq(Nat) /\ Len(q) \in Nat /\ Len(acc) \in Nat
      /\ base \in Nat /\ base + Len(q) = Len(acc)
      /\ \A i \in 1..Len(q) : /\ q[i] \in EventMessage /\ q[i].acked <= q[i].len
                              /\ q[i].event = base + i /\ q[i].len = acc[base + i]
  BY DEF Lined
<1>2. PICK left : /\ Shares(q, n, left)
                  /\ Credited(q, n) =
                       [i \in DOMAIN q |-> [q[i] EXCEPT !.acked = @ + Credit(q[i], left[i - 1])]]
  BY <1>1, Shared
<1>3. \A i \in 0..Len(q) : left[i] \in Nat
  BY <1>2, SharesAreLeft
<1>17. \A i \in 1..Len(q) : q[i].acked \in Nat /\ q[i].len \in Nat
  BY <1>1 DEF EventMessage
<1>18. \A i \in 0..Len(q) : old(i) \in Nat
  <2> SUFFICES ASSUME NEW i \in 0..Len(q) PROVE old(i) \in Nat
    OBVIOUS
  <2>1. i < Len(q) => i + 1 \in 1..Len(q)
    BY <1>1
  <2> QED BY <1>17, <2>1
<1> DEFINE d == Credited(q, n)
<1>4. ASSUME NEW i \in 1..Len(q)
      PROVE  /\ d[i] \in EventMessage /\ d[i].event = q[i].event /\ d[i].len = q[i].len
             /\ d[i].sent = q[i].sent /\ d[i].acked = q[i].acked + Credit(q[i], left[i - 1])
             /\ d[i].acked <= d[i].len
             /\ left[i] = left[i - 1] - Credit(q[i], left[i - 1])
             /\ d[i].acked # d[i].len => Credit(q[i], left[i - 1]) = left[i - 1]
             /\ left[i - 1] = 0 => Credit(q[i], left[i - 1]) = 0
             /\ Credit(q[i], left[i - 1]) \in Nat /\ Credit(q[i], left[i - 1]) <= left[i - 1]
  <2> DEFINE x == Credit(q[i], left[i - 1])
  <2>0. i - 1 \in 0..Len(q) /\ i \in DOMAIN q
    <3>1. Len(q) \in Nat /\ DOMAIN q = 1..Len(q)
      BY <1>1
    <3> QED BY <3>1
  <2>1. left[i - 1] \in Nat /\ q[i] \in EventMessage /\ q[i].acked <= q[i].len
    BY <1>1, <1>3, <2>0, Zenon
  <2>2. /\ x \in Nat /\ x <= left[i - 1] /\ q[i].acked + x <= q[i].len
        /\ q[i].acked + x # q[i].len => x = left[i - 1]
        /\ left[i - 1] = 0 => x = 0
    BY <2>1, CreditBounds
  <2>3. left[i] = left[i - 1] - x
    BY <1>2 DEF Shares
  <2>4. d[i] = [q[i] EXCEPT !.acked = @ + x]
    BY <1>2, <2>0, Zenon
  <2> HIDE DEF x, d
  <2>5. /\ d[i] \in EventMessage /\ d[i].event = q[i].event /\ d[i].len = q[i].len
        /\ d[i].sent = q[i].sent /\ d[i].acked = q[i].acked + x
    BY <2>1, <2>2, <2>4 DEF EventMessage
  <2> QED BY <2>2, <2>3, <2>5 DEF x
<1>5. d \in Seq(EventMessage) /\ Len(d) = Len(q)
  <2>1. DOMAIN d = 1..Len(q)
    BY <1>1, <1>2
  <2>2. d = [i \in 1..Len(q) |-> d[i]]
    BY <1>1, <1>2
  <2> HIDE DEF d
  <2> QED BY <1>1, <1>4, <2>1, <2>2
<1>6. Sums(s, acc) /\ \A i \in 0..Len(acc) : s[i] \in Nat
  BY DEF Sums
<1> HIDE DEF d
<1>7. \A i \in 1..Len(q) : s[base + i] = s[base + (i - 1)] + q[i].len
  <2> SUFFICES ASSUME NEW i \in 1..Len(q) PROVE s[base + i] = s[base + (i - 1)] + q[i].len
    OBVIOUS
  <2>1. base + i \in 1..Len(acc) /\ (base + i) - 1 = base + (i - 1)
    BY <1>1
  <2>2. s[base + i] = s[(base + i) - 1] + acc[base + i]
    BY <1>6, <2>1 DEF Sums
  <2> QED BY <1>1, <2>1, <2>2
<1> DEFINE Acked(j) == \A i \in 1..j : d[i].acked = d[i].len
           P(j) == s[base + j] + old(j) + left[j] <= c + n
           S == {j \in 0..Len(q) : Acked(j) => P(j)}
<1>8. \A j \in 0..Len(q) : j \in S
  <2>1. 0 \in S
    <3>1. left[0] = n
      BY <1>2 DEF Shares
    <3>2. s[base] + old(0) <= c /\ s[base] \in Nat /\ old(0) \in Nat
      <4>1. old(0) = FrontAcked(q)
        BY <1>1 DEF FrontAcked
      <4>2. FrontAcked(q) \in Nat
        BY <1>1 DEF FrontAcked, EventMessage
      <4> QED BY <1>1, <1>6, <4>1, <4>2 DEF Paid
    <3>3. base + 0 = base
      BY <1>1
    <3> HIDE DEF base, old
    <3>4. P(0)
      BY <3>1, <3>2, <3>3
    <3> QED BY <3>4, <1>1
  <2>2. ASSUME NEW j \in 1..Len(q), j - 1 \in S PROVE j \in S
    <3> SUFFICES ASSUME Acked(j) PROVE P(j)
      BY <1>1
    <3>1. Acked(j - 1)
      BY <1>1
    <3>2. P(j - 1)
      BY <2>2, <3>1
    <3>3. old(j) = 0 /\ old(j - 1) = q[j].acked
      BY <1>1 DEF Paid
    <3>4. d[j].acked = d[j].len
      OBVIOUS
    <3>5. /\ left[j] = left[j - 1] - (q[j].len - q[j].acked) /\ left[j - 1] \in Nat
          /\ q[j].len \in Nat /\ q[j].acked \in Nat
      <4>1. left[j - 1] \in Nat
        <5>1. j - 1 \in 0..Len(q)
          BY <1>1
        <5> QED BY <1>3, <5>1
      <4>2. q[j].len \in Nat /\ q[j].acked \in Nat
        BY <1>17
      <4>3. /\ d[j].acked = q[j].acked + Credit(q[j], left[j - 1]) /\ d[j].len = q[j].len
            /\ left[j] = left[j - 1] - Credit(q[j], left[j - 1]) /\ Credit(q[j], left[j - 1]) \in Nat
        BY <1>4
      <4> QED BY <3>4, <4>1, <4>2, <4>3
    <3>6. s[base + j] = s[base + (j - 1)] + q[j].len /\ s[base + (j - 1)] \in Nat
      <4>1. base + (j - 1) \in 0..Len(acc)
        BY <1>1
      <4> QED BY <1>6, <1>7, <4>1
    <3> HIDE DEF base, old, Acked
    <3> QED BY <3>2, <3>3, <3>5, <3>6
  <2> HIDE DEF S
  <2> QED BY <1>1, <2>1, <2>2, Upward
<1>9. PICK m \in 1..(Len(d) + 1) :
        /\ Remaining(d, EventFinished) = SubSeq(d, m, Len(d))
        /\ \A i \in 1..(m - 1) : d[i].acked = d[i].len
        /\ m <= Len(d) => d[m].acked # d[m].len
  BY <1>5, Remains
<1> DEFINE r == SubSeq(d, m, Len(d))
<1>10. /\ m \in 1..(Len(q) + 1) /\ r \in Seq(EventMessage) /\ Len(r) = Len(q) - (m - 1)
       /\ \A j \in 1..Len(r) : r[j] = d[m - 1 + j] /\ m - 1 + j \in 1..Len(q)
  BY <1>1, <1>5
<1>11. P(m - 1) /\ m - 1 \in 0..Len(q) /\ left[m - 1] \in Nat /\ s[base + (m - 1)] \in Nat
  <2>1. m - 1 \in 0..Len(q) /\ base + (m - 1) \in 0..Len(acc)
    BY <1>1, <1>10
  <2>2. Acked(m - 1)
    BY <1>9
  <2>3. P(m - 1)
    BY <1>8, <2>1, <2>2
  <2> QED BY <1>3, <1>6, <2>1, <2>3
<1> HIDE DEF r
<1>12. Lined(r, acc)
  <2>1. ASSUME NEW i \in 1..Len(r)
        PROVE  /\ r[i].event = Len(acc) - Len(r) + i /\ r[i].len = acc[r[i].event]
               /\ r[i].acked <= r[i].len
    <3> DEFINE k == m - 1 + i
    <3>1. k \in 1..Len(q) /\ r[i] = d[k]
      BY <1>10
    <3>2. d[k].event = base + k /\ d[k].len = acc[base + k] /\ d[k].acked <= d[k].len
      BY <1>1, <1>4, <3>1
    <3>3. Len(acc) - Len(r) + i = base + k
      BY <1>1, <1>10
    <3> QED BY <3>1, <3>2, <3>3
  <2>2. Len(r) <= Len(acc)
    BY <1>1, <1>10
  <2> QED BY <1>1, <1>10, <2>1, <2>2 DEF Lined
<1>13. Paid(r, acc, s, c + n)
  <2>1. Len(acc) - Len(r) = base + (m - 1)
    BY <1>1, <1>10
  <2>2. s[base + (m - 1)] + FrontAcked(r) <= c + n
    <3>1. CASE r = <<>>
      <4>1. old(m - 1) \in Nat
        <5> HIDE DEF old
        <5> QED BY <1>11, <1>18
      <4>2. FrontAcked(r) = 0
        BY <3>1 DEF FrontAcked
      <4> HIDE DEF old, base
      <4> QED BY <1>11, <4>1, <4>2
    <3>2. CASE r # <<>>
      <4>1. 1 \in 1..Len(r) /\ m - 1 + 1 = m /\ m \in 1..Len(q)
        BY <1>10, <3>2
      <4>2. r[1] = d[m]
        BY <1>10, <4>1
      <4>3. d[m].acked = q[m].acked + Credit(q[m], left[m - 1])
        BY <1>4, <4>1
      <4>4. Credit(q[m], left[m - 1]) \in Nat /\ Credit(q[m], left[m - 1]) <= left[m - 1]
        BY <1>4, <4>1
      <4>5. old(m - 1) = q[m].acked /\ q[m].acked \in Nat
        BY <1>1, <1>17, <4>1
      <4>6. FrontAcked(r) = q[m].acked + Credit(q[m], left[m - 1])
        BY <3>2, <4>2, <4>3 DEF FrontAcked
      <4> HIDE DEF old, base
      <4> QED BY <1>11, <4>4, <4>5, <4>6
    <3> QED BY <3>1, <3>2
  <2>3. ASSUME NEW i \in 2..Len(r) PROVE r[i].acked = 0
    <3> DEFINE k == m - 1 + i
    <3>1. k \in 1..Len(q) /\ r[i] = d[k] /\ k >= m + 1 /\ m \in 1..Len(q)
      BY <1>10
    <3>2. \A l \in 0..(Len(q) - m) : left[m + l] = 0
      <4> DEFINE Z == {l \in 0..(Len(q) - m) : left[m + l] = 0}
      <4>1. 0 \in Z
        <5>1. d[m].acked # d[m].len
          BY <1>5, <1>9, <3>1
        <5>2. left[m] = left[m - 1] - Credit(q[m], left[m - 1]) /\ Credit(q[m], left[m - 1]) = left[m - 1]
          BY <1>4, <3>1, <5>1
        <5>3. left[m] = 0 /\ m + 0 = m
          BY <1>11, <5>2
        <5> QED BY <5>3, <3>1
      <4>2. ASSUME NEW l \in 1..(Len(q) - m), l - 1 \in Z PROVE l \in Z
        <5>1. m + l \in 1..Len(q) /\ (m + l) - 1 = m + (l - 1)
          BY <3>1
        <5>2. left[m + (l - 1)] = 0
          BY <4>2
        <5>3. left[m + l] = left[(m + l) - 1] - Credit(q[m + l], left[(m + l) - 1])
          BY <1>4, <5>1
        <5>4. left[(m + l) - 1] = 0 => Credit(q[m + l], left[(m + l) - 1]) = 0
          BY <1>4, <5>1
        <5>5. left[m + l] = 0
          BY <5>1, <5>2, <5>3, <5>4
        <5> QED BY <5>5
      <4> HIDE DEF Z
      <4>3. Len(q) - m \in Nat
        BY <3>1
      <4>4. \A l \in 0..(Len(q) - m) : l \in Z
        BY <4>1, <4>2, <4>3, Upward
      <4> QED BY <4>4 DEF Z
    <3>3. left[k - 1] = 0
      <4>1. (k - 1) - m \in 0..(Len(q) - m) /\ m + ((k - 1) - m) = k - 1
        BY <3>1
      <4> HIDE DEF k
      <4> QED BY <3>2, <4>1
    <3>4. d[k].acked = q[k].acked + Credit(q[k], left[k - 1]) /\ (left[k - 1] = 0 => Credit(q[k], left[k - 1]) = 0)
      BY <1>4, <3>1
    <3>5. q[k].acked = 0
      <4>1. k \in 2..Len(q)
        BY <3>1
      <4> QED BY <4>1 DEF Paid
    <3> QED BY <3>1, <3>3, <3>4, <3>5
  <2> QED BY <2>1, <2>2, <2>3 DEF Paid
<1>14. \A j \in 1..Len(r) : r[j].sent = q[m - 1 + j].sent
  BY <1>4, <1>10
<1>15. ASSUME NEW i \in 1..(m - 1) PROVE s[Len(acc) - Len(q) + i] <= c + n
  <2>1. base + i \in 0..Len(acc) /\ base + (m - 1) \in 0..Len(acc) /\ base + i <= base + (m - 1)
    BY <1>1, <1>10
  <2>2. s[base + i] <= s[base + (m - 1)] /\ s[base + i] \in Nat
    BY <1>6, <2>1 DEF Sums
  <2>3. old(m - 1) \in Nat
    <3> HIDE DEF old
    <3> QED BY <1>11, <1>18
  <2>4. s[base + i] <= c + n
    <3> HIDE DEF old, base
    <3> QED BY <1>11, <2>2, <2>3
  <2> QED BY <2>4
<1>16. Settled(q, r, m, acc, s, c + n)
  BY <1>10, <1>12, <1>13, <1>14, <1>15 DEF Settled
<1> QED BY <1>9, <1>16 DEF r, d

-----------------------------------------------------------------------------
(* Events on the wire *)

Byte == ({"head"} \X Nat) \cup ({"event"} \X Nat \X Nat)
IsEvent(b) == b[1] = "event"
On(w, e) == \E i \in 1..Len(w) : IsEvent(w[i]) /\ w[i][2] = e
Beats(acc, bad, d, e) == d > e /\ (acc[d] < acc[e] \/ bad)

(* What EventsIntact says of the wire; the head is in front. *)
Spelled(w, acc, i) ==
  /\ w[i][2] \in 1..Len(acc) /\ w[i][3] \in 1..acc[w[i][2]] /\ i > EventHead
  /\ \A k \in 1..acc[w[i][2]] :
       i - w[i][3] + k \in 1..Len(w) /\ w[i - w[i][3] + k] = <<"event", w[i][2], k>>
InTurn(w, acc, bad, i, j) ==
  \/ w[i][2] < w[j][2] \/ (w[i][2] = w[j][2] /\ w[i][3] < w[j][3])
  \/ Beats(acc, bad, w[i][2], w[j][2])
Intact(w, acc, bad) ==
  /\ w \in Seq(Byte) /\ Len(w) >= EventHead
  /\ \A i \in 1..Len(w) : IsEvent(w[i]) => Spelled(w, acc, i)
  /\ \A i, j \in 1..Len(w) : IsEvent(w[i]) /\ IsEvent(w[j]) /\ i < j => InTurn(w, acc, bad, i, j)
  /\ \A i \in 1..Len(w) : i > EventHead => IsEvent(w[i])

LEMMA JoinedBytes ==
  ASSUME NEW s \in Seq(Byte), NEW t \in Seq(Byte)
  PROVE  /\ s \o t \in Seq(Byte) /\ Len(s \o t) = Len(s) + Len(t)
         /\ \A i \in 1..Len(s) : (s \o t)[i] = s[i]
         /\ \A i \in 1..Len(t) : (s \o t)[Len(s) + i] = t[i]
  BY Joined

LEMMA TheBytes ==
  ASSUME NEW m \in EventMessage
  PROVE  /\ EventBytes(m) \in Seq(Byte) /\ Len(EventBytes(m)) = m.len
         /\ \A i \in 1..m.len : /\ EventBytes(m)[i] = <<"event", m.event, i>>
                                /\ IsEvent(EventBytes(m)[i])
                                /\ EventBytes(m)[i][2] = m.event /\ EventBytes(m)[i][3] = i
<1>1. m.len \in Nat /\ m.event \in Nat
  BY DEF EventMessage
<1>2. \A i \in 1..m.len : <<"event", m.event, i>> \in Byte
  BY <1>1 DEF Byte
<1>3. EventBytes(m) \in [1..m.len -> Byte]
  BY <1>1, <1>2 DEF EventBytes
<1>4. \A i \in 1..m.len : EventBytes(m)[i] = <<"event", m.event, i>>
  BY <1>1 DEF EventBytes
<1>5. EventBytes(m) \in Seq(Byte) /\ Len(EventBytes(m)) = m.len
  BY <1>1, <1>3
<1> QED BY <1>4, <1>5 DEF IsEvent

(* An event that is not on the wire goes out behind what is there. *)
CanGo(w, acc, bad, m) ==
  /\ Intact(w, acc, bad) /\ acc \in Seq(Nat) /\ bad \in BOOLEAN
  /\ m \in EventMessage /\ m.event \in 1..Len(acc) /\ m.len = acc[m.event] /\ ~On(w, m.event)
  /\ \A d \in 1..Len(acc) : On(w, d) /\ d > m.event => Beats(acc, bad, d, m.event)
WentOut(w, acc, bad, m, v) ==
  Intact(v, acc, bad) /\ \A e : On(v, e) <=> (On(w, e) \/ (e = m.event /\ m.len > 0))

LEMMA GoesOut ==
  ASSUME NEW w, NEW acc, NEW bad, NEW m, CanGo(w, acc, bad, m)
  PROVE  WentOut(w, acc, bad, m, w \o EventBytes(m))
<1> SUFFICES ASSUME acc \in Seq(Nat), bad \in BOOLEAN, Intact(w, acc, bad), m \in EventMessage,
                    m.event \in 1..Len(acc), m.len = acc[m.event], ~On(w, m.event),
                    \A d \in 1..Len(acc) : On(w, d) /\ d > m.event => Beats(acc, bad, d, m.event)
             PROVE  /\ Intact(w \o EventBytes(m), acc, bad)
                    /\ \A e : On(w \o EventBytes(m), e) <=> (On(w, e) \/ (e = m.event /\ m.len > 0))
  BY Zenon DEF CanGo, WentOut
<1> DEFINE b == EventBytes(m)
           v == w \o b
           n == Len(w)
<1>1. w \in Seq(Byte) /\ n \in Nat /\ n >= EventHead /\ EventHead \in Nat
  <2>1. EventHead \in Nat
    BY EventAssumption, StreamAssumption
  <2> QED BY <2>1 DEF Intact
<1>2. m.len \in Nat /\ m.event \in Nat
  BY DEF EventMessage
<1>3. /\ b \in Seq(Byte) /\ Len(b) = m.len
      /\ \A i \in 1..m.len : /\ b[i] = <<"event", m.event, i>> /\ IsEvent(b[i])
                             /\ b[i][2] = m.event /\ b[i][3] = i
  BY TheBytes
<1> HIDE DEF b
<1>4. /\ v \in Seq(Byte) /\ Len(v) = n + m.len
      /\ \A i \in 1..n : v[i] = w[i]
      /\ \A i \in 1..m.len : v[n + i] = b[i]
  <2>1. /\ w \o b \in Seq(Byte) /\ Len(w \o b) = Len(w) + Len(b)
        /\ \A i \in 1..Len(w) : (w \o b)[i] = w[i]
        /\ \A i \in 1..Len(b) : (w \o b)[Len(w) + i] = b[i]
    BY <1>1, <1>3, JoinedBytes, Zenon
  <2>2. Len(b) = m.len
    BY <1>3, Zenon
  <2> HIDE DEF v
  <2>3. v = w \o b
    BY Zenon DEF v
  <2> QED BY <2>1, <2>2, <2>3, Zenon
<1> HIDE DEF v
<1>5. ASSUME NEW i \in 1..Len(v)
      PROVE  \/ i \in 1..n /\ v[i] = w[i]
             \/ /\ i > n /\ i - n \in 1..m.len /\ v[i] = <<"event", m.event, i - n>>
                /\ IsEvent(v[i]) /\ v[i][2] = m.event /\ v[i][3] = i - n
  <2>1. CASE i <= n
    <3>1. i \in 1..n
      BY <1>1, <1>4, <2>1
    <3> QED BY <1>4, <3>1
  <2>2. CASE i > n
    <3>1. i - n \in 1..m.len /\ n + (i - n) = i
      BY <1>1, <1>2, <1>4, <2>2
    <3>2. v[n + (i - n)] = b[i - n]
      BY <1>4, <3>1
    <3>3. /\ b[i - n] = <<"event", m.event, i - n>> /\ IsEvent(b[i - n])
          /\ b[i - n][2] = m.event /\ b[i - n][3] = i - n
      BY <1>3, <3>1
    <3> QED BY <2>2, <3>1, <3>2, <3>3
  <2> QED BY <1>1, <1>4, <2>1, <2>2
<1>6. ASSUME NEW i \in 1..Len(v), IsEvent(v[i]) PROVE Spelled(v, acc, i)
  <2>1. ASSUME i \in 1..n, v[i] = w[i] PROVE Spelled(v, acc, i)
    <3>1. Spelled(w, acc, i)
      BY <1>6, <2>1 DEF Intact
    <3>2. ASSUME NEW k \in 1..acc[w[i][2]]
          PROVE  i - w[i][3] + k \in 1..Len(v) /\ v[i - w[i][3] + k] = <<"event", w[i][2], k>>
      <4>1. i - w[i][3] + k \in 1..n /\ w[i - w[i][3] + k] = <<"event", w[i][2], k>>
        BY <3>1 DEF Spelled
      <4>2. \A x \in 1..n : x \in 1..Len(v) /\ v[x] = w[x]
        BY <1>1, <1>2, <1>4
      <4> QED BY <4>1, <4>2, Zenon
    <3> QED BY <2>1, <3>1, <3>2 DEF Spelled
  <2>2. ASSUME i > n, i - n \in 1..m.len, v[i][2] = m.event, v[i][3] = i - n PROVE Spelled(v, acc, i)
    <3>1. ASSUME NEW k \in 1..m.len
          PROVE  i - (i - n) + k \in 1..Len(v) /\ v[i - (i - n) + k] = <<"event", m.event, k>>
      <4>1. i - (i - n) + k = n + k /\ n + k \in 1..Len(v)
        <5>1. i \in Int /\ k \in Int /\ 1 <= k /\ k <= m.len
          BY <1>2
        <5>3. n + k \in 1..Len(v)
          BY <1>1, <1>2, <1>4, <5>1
        <5>4. n \in Int
          BY <1>1
        <5>5. i - (i - n) + k = n + k
          <6> HIDE DEF n, v, b
          <6> QED BY <5>1, <5>4
        <5> QED BY <5>3, <5>5, Zenon
      <4> QED BY <1>3, <1>4, <4>1
    <3>2. i > EventHead
      BY <1>1, <1>4, <2>2
    <3> QED BY <2>2, <3>1, <3>2 DEF Spelled
  <2> QED BY <1>5, <2>1, <2>2
<1>7. ASSUME NEW i \in 1..Len(v), NEW j \in 1..Len(v), IsEvent(v[i]), IsEvent(v[j]), i < j
      PROVE  InTurn(v, acc, bad, i, j)
  <2>1. ASSUME j \in 1..n, v[j] = w[j] PROVE InTurn(v, acc, bad, i, j)
    <3>1. i \in 1..n /\ v[i] = w[i]
      <4>1. i \in 1..n
        BY <1>1, <1>7, <2>1
      <4> QED BY <1>4, <4>1
    <3>2. InTurn(w, acc, bad, i, j)
      BY <1>7, <2>1, <3>1 DEF Intact
    <3> QED BY <2>1, <3>1, <3>2 DEF InTurn
  <2>2. ASSUME j > n, v[j][2] = m.event, v[j][3] = j - n PROVE InTurn(v, acc, bad, i, j)
    <3>1. ASSUME i \in 1..n, v[i] = w[i] PROVE InTurn(v, acc, bad, i, j)
      <4>1. On(w, v[i][2])
        BY <1>7, <3>1 DEF On
      <4>2. v[i][2] \in 1..Len(acc) /\ v[i][2] \in Nat
        <5>1. Spelled(w, acc, i)
          BY <1>7, <3>1 DEF Intact
        <5> QED BY <3>1, <5>1 DEF Spelled
      <4>3. v[i][2] # m.event
        BY <4>1
      <4>4. v[i][2] > m.event => Beats(acc, bad, v[i][2], m.event)
        BY <4>1, <4>2
      <4>5. v[i][2] < m.event \/ v[i][2] > m.event
        BY <1>2, <4>2, <4>3
      <4> QED BY <2>2, <4>4, <4>5, Zenon DEF InTurn
    <3>2. ASSUME i > n, v[i][2] = m.event, v[i][3] = i - n PROVE InTurn(v, acc, bad, i, j)
      <4>1. i - n < j - n
        BY <1>1, <1>4, <1>7
      <4> QED BY <2>2, <3>2, <4>1 DEF InTurn
    <3> QED BY <1>5, <3>1, <3>2
  <2> QED BY <1>5, <2>1, <2>2
<1>8. ASSUME NEW i \in 1..Len(v), i > EventHead PROVE IsEvent(v[i])
  BY <1>5, <1>8 DEF Intact
<1>9. Intact(v, acc, bad)
  <2>1. Len(v) >= EventHead
    BY <1>1, <1>2, <1>4
  <2> QED BY <1>4, <1>6, <1>7, <1>8, <2>1 DEF Intact
<1>10. ASSUME NEW e PROVE On(v, e) <=> (On(w, e) \/ (e = m.event /\ m.len > 0))
  <2>1. ASSUME On(v, e) PROVE On(w, e) \/ (e = m.event /\ m.len > 0)
    <3>1. PICK i \in 1..Len(v) : IsEvent(v[i]) /\ v[i][2] = e
      BY <2>1 DEF On
    <3>2. ASSUME i \in 1..n, v[i] = w[i] PROVE On(w, e)
      BY <3>1, <3>2 DEF On
    <3>3. ASSUME i - n \in 1..m.len, v[i][2] = m.event PROVE e = m.event /\ m.len > 0
      BY <1>2, <3>1, <3>3
    <3> QED BY <1>5, <3>2, <3>3
  <2>2. ASSUME On(w, e) PROVE On(v, e)
    <3>1. PICK i \in 1..n : IsEvent(w[i]) /\ w[i][2] = e
      BY <2>2 DEF On
    <3>2. i \in 1..Len(v)
      BY <1>1, <1>2, <1>4
    <3> QED BY <1>4, <3>1, <3>2 DEF On
  <2>3. ASSUME e = m.event, m.len > 0 PROVE On(v, e)
    <3>1. 1 \in 1..m.len /\ n + 1 \in 1..Len(v)
      BY <1>1, <1>2, <1>4, <2>3
    <3>2. IsEvent(v[n + 1]) /\ v[n + 1][2] = e
      BY <1>3, <1>4, <2>3, <3>1
    <3> QED BY <3>1, <3>2 DEF On
  <2> QED BY <2>1, <2>2, <2>3
<1> QED BY <1>9, <1>10 DEF v, b

-----------------------------------------------------------------------------
(* The queue and the wire, and one turn after the other of the loop *)

(* An event that waits is not on the wire, and longer than any that has    *)
(* passed it.                                                              *)
Waits(m, w, acc, bad) ==
  /\ m.len > 0 /\ ~On(w, m.event)
  /\ \A d \in 1..Len(acc) : On(w, d) /\ d > m.event => Beats(acc, bad, d, m.event)
Sound(q, w, acc, bad) ==
  /\ Lined(q, acc) /\ Intact(w, acc, bad) /\ bad \in BOOLEAN
  /\ \A i \in 1..Len(q) : q[i].sent => q[i].len = 0 \/ On(w, q[i].event)
  /\ \A i \in 1..Len(q) : ~q[i].sent => Waits(q[i], w, acc, bad)

(* After i turns: what was passed over is longer than what there is still  *)
(* room for.                                                               *)
SameEvent(x, m) == x.event = m.event /\ x.len = m.len /\ x.acked = m.acked /\ (m.sent => x.sent)
Looped(q, w, acc, bad, failing, r, i) ==
  /\ r.out \in Seq(Byte) /\ Len(r.out) <= Space /\ Len(r.queue) = Len(q)
  /\ \A j \in 1..Len(q) : SameEvent(r.queue[j], q[j])
  /\ Sound(r.queue, w \o r.out, acc, bad)
  /\ \A j \in 1..i : ~r.queue[j].sent => j = failing \/ r.queue[j].len > Space - Len(r.out)

AnEvent(q, acc, i, m) ==
  /\ m \in EventMessage /\ m.event \in 1..Len(acc) /\ m.event \in Nat
  /\ m.len = acc[m.event] /\ m.len \in Nat
  /\ m.event = Len(acc) - Len(q) + i

LEMMA LinedEvent ==
  ASSUME NEW q, NEW acc, NEW i \in 1..Len(q), Lined(q, acc)
  PROVE  AnEvent(q, acc, i, q[i])
<1>1. q \in Seq(EventMessage) /\ acc \in Seq(Nat) /\ Len(q) <= Len(acc)
  BY DEF Lined
<1>2. q[i].event = Len(acc) - Len(q) + i /\ q[i].len = acc[q[i].event]
  BY DEF Lined
<1>3. q[i] \in EventMessage
  BY <1>1
<1>4. q[i].len \in Nat /\ q[i].event \in Nat
  BY <1>3 DEF EventMessage
<1>5. q[i].event \in 1..Len(acc)
  <2>1. Len(q) \in Nat /\ Len(acc) \in Nat
    BY <1>1
  <2>2. Len(acc) - Len(q) + i \in 1..Len(acc)
    BY <1>1, <2>1
  <2> QED BY <1>2, <2>2
<1> QED BY <1>2, <1>3, <1>4, <1>5 DEF AnEvent

(* An event may go that is shorter than those before it that wait, unless  *)
(* a call has failed.                                                      *)
MayGo(q, w, acc, bad, i) ==
  /\ Sound(q, w, acc, bad) /\ ~q[i].sent
  /\ \A j \in 1..(i - 1) : ~q[j].sent => q[j].len > q[i].len \/ bad
Gone(q, w, acc, bad, i, p) ==
  /\ Sound(p, w \o EventBytes(q[i]), acc, bad) /\ Len(p) = Len(q) /\ p[i].sent
  /\ \A j \in 1..Len(q) : SameEvent(p[j], q[j])
  /\ \A j \in 1..Len(q) : ~p[j].sent => ~q[j].sent

LEMMA EventGoes ==
  ASSUME NEW q, NEW w, NEW acc, NEW bad, NEW i \in 1..Len(q), MayGo(q, w, acc, bad, i)
  PROVE  Gone(q, w, acc, bad, i, [q EXCEPT ![i].sent = TRUE])
<1> DEFINE m == q[i]
           x == [m EXCEPT !.sent = TRUE]
           p == [q EXCEPT ![i].sent = TRUE]
           u == w \o EventBytes(m)
<1>1. /\ Sound(q, w, acc, bad) /\ Lined(q, acc) /\ Intact(w, acc, bad) /\ bad \in BOOLEAN
      /\ q \in Seq(EventMessage) /\ acc \in Seq(Nat) /\ Len(q) \in Nat /\ Len(q) <= Len(acc)
      /\ ~m.sent
  BY DEF MayGo, Sound, Lined
<1>2. AnEvent(q, acc, i, m)
  BY <1>1, LinedEvent
<1>3. Waits(m, w, acc, bad)
  BY <1>1 DEF Sound
<1>4. x \in EventMessage /\ x.event = m.event /\ x.len = m.len /\ x.acked = m.acked /\ x.sent
  BY <1>2 DEF AnEvent, EventMessage
<1>5. p = [q EXCEPT ![i] = x]
  BY <1>1
<1> HIDE DEF x, p
<1>6. /\ p \in Seq(EventMessage) /\ Len(p) = Len(q) /\ p[i] = x
      /\ \A j \in 1..Len(q) : j # i => p[j] = q[j]
  BY <1>1, <1>4, <1>5
<1>7. Intact(u, acc, bad) /\ \A e : On(u, e) <=> (On(w, e) \/ (e = m.event /\ m.len > 0))
  <2>1. ~On(w, m.event) /\ \A d \in 1..Len(acc) : On(w, d) /\ d > m.event => Beats(acc, bad, d, m.event)
    BY <1>3 DEF Waits
  <2>2. m \in EventMessage /\ m.event \in 1..Len(acc) /\ m.len = acc[m.event]
    BY <1>2 DEF AnEvent
  <2>3. CanGo(w, acc, bad, m)
    BY <1>1, <2>1, <2>2 DEF CanGo
  <2> HIDE DEF m
  <2> QED BY <2>3, GoesOut, Zenon DEF WentOut
<1> HIDE DEF u
<1>8. Lined(p, acc)
  <2>1. ASSUME NEW j \in 1..Len(p)
        PROVE  p[j].event = Len(acc) - Len(p) + j /\ p[j].len = acc[p[j].event] /\ p[j].acked <= p[j].len
    <3>1. p[j].event = q[j].event /\ p[j].len = q[j].len /\ p[j].acked = q[j].acked
      BY <1>4, <1>6
    <3>2. q[j].event = Len(acc) - Len(q) + j /\ q[j].len = acc[q[j].event] /\ q[j].acked <= q[j].len
      BY <1>1, <1>6 DEF Lined
    <3> QED BY <1>6, <3>1, <3>2
  <2> QED BY <1>1, <1>6, <2>1 DEF Lined
<1>9. ASSUME NEW j \in 1..Len(p), p[j].sent PROVE p[j].len = 0 \/ On(u, p[j].event)
  <2>1. CASE j = i
    BY <1>3, <1>4, <1>6, <1>7, <2>1 DEF Waits
  <2>2. CASE j # i
    <3>1. p[j] = q[j] /\ q[j].sent /\ j \in 1..Len(q)
      BY <1>6, <1>9, <2>2
    <3>2. q[j].len = 0 \/ On(w, q[j].event)
      BY <1>1, <3>1 DEF Sound
    <3> QED BY <1>7, <3>1, <3>2
  <2> QED BY <2>1, <2>2
<1>10. ASSUME NEW j \in 1..Len(p), ~p[j].sent PROVE Waits(p[j], u, acc, bad)
  <2>1. j # i /\ j \in 1..Len(q)
    BY <1>4, <1>6, <1>10
  <2>2. PICK y : y = q[j]
    OBVIOUS
  <2>3. p[j] = y /\ ~y.sent
    BY <1>6, <1>10, <2>1, <2>2
  <2>4. Waits(y, w, acc, bad)
    BY <1>1, <2>1, <2>2, <2>3 DEF Sound
  <2>5. AnEvent(q, acc, j, y)
    BY <1>1, <2>1, <2>2, LinedEvent
  <2>6. y.event # m.event /\ (m.event > y.event => j < i)
    <3>1. Len(acc) \in Int /\ Len(q) \in Int /\ i \in Int /\ j \in Int
      BY <1>1, <2>1
    <3>2. m.event = Len(acc) - Len(q) + i /\ y.event = Len(acc) - Len(q) + j
      BY <1>2, <2>5 DEF AnEvent
    <3> HIDE DEF m
    <3> QED BY <2>1, <3>1, <3>2
  <2>7. ASSUME j < i PROVE y.len > m.len \/ bad
    <3>1. j \in 1..(i - 1)
      BY <1>1, <2>1, <2>7
    <3> QED BY <2>2, <2>3, <3>1 DEF MayGo
  <2>8. ASSUME NEW d \in 1..Len(acc), On(u, d), d > y.event PROVE Beats(acc, bad, d, y.event)
    <3>1. CASE On(w, d)
      BY <2>4, <2>8, <3>1 DEF Waits
    <3>2. CASE d = m.event
      <4>1. m.len = acc[m.event] /\ y.len = acc[y.event] /\ m.len \in Nat /\ y.len \in Nat
        BY <1>2, <2>5 DEF AnEvent
      <4>2. y.len > m.len \/ bad
        BY <2>6, <2>7, <2>8, <3>2
      <4> HIDE DEF m
      <4>3. acc[d] < acc[y.event] \/ bad
        BY <3>2, <4>1, <4>2
      <4> QED BY <2>8, <4>3 DEF Beats
    <3> QED BY <1>7, <2>8, <3>1, <3>2
  <2>9. ~On(u, y.event) /\ y.len > 0
    BY <1>7, <2>4, <2>6 DEF Waits
  <2>10. Waits(y, u, acc, bad)
    BY <2>8, <2>9 DEF Waits
  <2> QED BY <2>3, <2>10
<1>11. Sound(p, u, acc, bad)
  BY <1>1, <1>7, <1>8, <1>9, <1>10 DEF Sound
<1>12. ASSUME NEW j \in 1..Len(q) PROVE SameEvent(p[j], q[j]) /\ (~p[j].sent => ~q[j].sent)
  BY <1>1, <1>4, <1>6 DEF SameEvent
<1>13. p[i].sent
  BY <1>4, <1>6
<1> HIDE DEF m
<1>14. Sound(p, w \o EventBytes(q[i]), acc, bad)
  BY <1>11 DEF u, m
<1>15. Gone(q, w, acc, bad, i, p)
  BY <1>6, <1>12, <1>13, <1>14 DEF Gone
<1> QED BY <1>15 DEF p

LEMMA JoinedTwice ==
  ASSUME NEW s \in Seq(Byte), NEW t \in Seq(Byte), NEW u \in Seq(Byte)
  PROVE  (s \o t) \o u = s \o (t \o u)
  BY ConcatAssociative

LEMMA Room ==
  ASSUME NEW S \in Nat, NEW n \in Nat, NEW l \in Nat, NEW k \in Nat
  PROVE  /\ ~(n + l <= S) => l > S - n
         /\ n + l <= S /\ k > S - n => k > l /\ k > S - (n + l)
  OBVIOUS

LEMMA LoopTurn ==
  ASSUME NEW q, NEW w \in Seq(Byte), NEW acc, NEW bad, NEW failing, failing # 0 => bad,
         NEW r, NEW i \in 1..Len(q), Space \in Nat, Len(q) \in Nat,
         Looped(q, w, acc, bad, failing, r, i - 1)
  PROVE  Looped(q, w, acc, bad, failing, SendOne(r, i, failing), i)
<1>1. /\ r.out \in Seq(Byte) /\ Len(r.out) <= Space /\ Len(r.queue) = Len(q) /\ Len(r.out) \in Nat
      /\ Sound(r.queue, w \o r.out, acc, bad) /\ Lined(r.queue, acc)
  BY DEF Looped, Sound
<1>2. PICK m : m = r.queue[i]
  OBVIOUS
<1>3. AnEvent(r.queue, acc, i, m)
  BY <1>1, <1>2, LinedEvent
<1>4. m.len \in Nat /\ m \in EventMessage
  BY <1>3 DEF AnEvent
<1>5. ASSUME NEW j \in 1..Len(q) PROVE r.queue[j].len \in Nat
  BY <1>1, LinedEvent DEF AnEvent
<1>6. ASSUME NEW j \in 1..(i - 1), ~r.queue[j].sent
      PROVE  j = failing \/ r.queue[j].len > Space - Len(r.out)
  BY <1>6 DEF Looped
<1>7. ASSUME m.sent \/ i = failing \/ ~Fits(m, r.out)
      PROVE  Looped(q, w, acc, bad, failing, SendOne(r, i, failing), i)
  <2>1. SendOne(r, i, failing) = r
    BY <1>2, <1>7 DEF SendOne
  <2>2. ~m.sent => i = failing \/ m.len > Space - Len(r.out)
    <3>1. ~(Len(r.out) + m.len <= Space) => m.len > Space - Len(r.out)
      BY <1>1, <1>4, Room, Zenon
    <3> QED BY <1>7, <3>1, Zenon DEF Fits
  <2>3. \A j \in 1..i : j = i \/ j \in 1..(i - 1)
    OBVIOUS
  <2>4. \A j \in 1..i : ~r.queue[j].sent => j = failing \/ r.queue[j].len > Space - Len(r.out)
    BY <1>2, <1>6, <2>2, <2>3
  <2> QED BY <2>1, <2>4 DEF Looped
<1>8. ASSUME ~m.sent, i # failing, Fits(m, r.out)
      PROVE  Looped(q, w, acc, bad, failing, SendOne(r, i, failing), i)
  <2> DEFINE p == [r.queue EXCEPT ![i].sent = TRUE]
             b == EventBytes(m)
             t == [queue |-> p, out |-> r.out \o b]
  <2>1. SendOne(r, i, failing) = t
    BY <1>2, <1>8 DEF SendOne
  <2>2. Len(r.out) + m.len <= Space
    BY <1>8 DEF Fits
  <2>3. b \in Seq(Byte) /\ Len(b) = m.len
    BY <1>4, TheBytes
  <2>4. MayGo(r.queue, w \o r.out, acc, bad, i)
    <3>1. ASSUME NEW j \in 1..(i - 1), ~r.queue[j].sent PROVE r.queue[j].len > m.len \/ bad
      <4>1. j \in 1..Len(q)
        OBVIOUS
      <4>2. r.queue[j].len > Space - Len(r.out) => r.queue[j].len > m.len
        <5>1. r.queue[j].len \in Nat /\ Len(r.out) \in Nat
          BY <1>1, <1>5, <4>1
        <5> QED BY <1>4, <2>2, <5>1, Room, Zenon
      <4>3. i - 1 < i /\ i # j /\ (j = failing => bad)
        BY <4>1
      <4> QED BY <1>6, <3>1, <4>2, <4>3, Zenon
    <3> QED BY <1>1, <1>2, <1>8, <3>1 DEF MayGo
  <2>5. Gone(r.queue, w \o r.out, acc, bad, i, p)
    <3>1. i \in 1..Len(r.queue)
      BY <1>1
    <3> QED BY <2>4, <3>1, EventGoes
  <2> HIDE DEF p, b
  <2>6. (w \o r.out) \o b = w \o (r.out \o b)
    BY <1>1, <2>3, JoinedTwice
  <2>7. r.out \o b \in Seq(Byte) /\ Len(r.out \o b) = Len(r.out) + m.len
    <3>1. r.out \o b \in Seq(Byte) /\ Len(r.out \o b) = Len(r.out) + Len(b)
      BY <1>1, <2>3, JoinedBytes, Zenon
    <3> QED BY <2>3, <3>1, Zenon
  <2>8. Sound(p, w \o (r.out \o b), acc, bad) /\ Len(p) = Len(q) /\ p[i].sent
    <3>1. Sound(p, (w \o r.out) \o b, acc, bad)
      BY <1>2, <2>5 DEF Gone, b
    <3> QED BY <1>1, <2>5, <2>6, <3>1 DEF Gone
  <2>9. ASSUME NEW j \in 1..Len(q) PROVE SameEvent(p[j], q[j])
    <3>1. SameEvent(r.queue[j], q[j])
      BY DEF Looped
    <3>2. SameEvent(p[j], r.queue[j])
      BY <1>1, <2>5 DEF Gone
    <3> QED BY <3>1, <3>2 DEF SameEvent
  <2>10. ASSUME NEW j \in 1..i, ~p[j].sent PROVE j = failing \/ p[j].len > Space - (Len(r.out) + m.len)
    <3>1. j # i /\ j \in 1..(i - 1) /\ j \in 1..Len(q)
      BY <2>8, <2>10
    <3>2. ~r.queue[j].sent /\ p[j].len = r.queue[j].len
      BY <1>1, <2>5, <2>10, <3>1 DEF Gone, SameEvent
    <3>3. j = failing \/ r.queue[j].len > Space - Len(r.out)
      BY <1>6, <3>1, <3>2
    <3>4. r.queue[j].len \in Nat
      BY <1>5, <3>1
    <3>5. r.queue[j].len > Space - Len(r.out) => r.queue[j].len > Space - (Len(r.out) + m.len)
      <4>1. Len(r.out) \in Nat
        BY <1>1
      <4> QED BY <1>4, <2>2, <3>4, <4>1, Room, Zenon
    <3> QED BY <3>2, <3>3, <3>5, Zenon
  <2>11. t.queue = p /\ t.out = r.out \o b
    OBVIOUS
  <2> HIDE DEF t
  <2>12. Looped(q, w, acc, bad, failing, t, i)
    BY <2>2, <2>7, <2>8, <2>9, <2>10, <2>11 DEF Looped
  <2> QED BY <2>1, <2>12
<1> QED BY <1>7, <1>8

(* The loop leaves every event that waits behind or on the wire. *)
LEMMA LoopSound ==
  ASSUME NEW q, NEW w, NEW acc, NEW bad, NEW failing, failing # 0 => bad, Space \in Nat,
         Sound(q, w, acc, bad)
  PROVE  Looped(q, w, acc, bad, failing, RunLoop(q, failing), Len(q))
<1>1. /\ Len(q) \in Nat /\ w \in Seq(Byte)
  BY DEF Sound, Lined, Intact
<1>2. PICK f : Turns(q, failing, f, Len(q)) /\ RunLoop(q, failing) = f[Len(q)]
  BY <1>1, LoopTurns
<1> DEFINE S == {i \in 0..Len(q) : Looped(q, w, acc, bad, failing, f[i], i)}
<1>3. 0 \in S
  <2>1. f[0].queue = q /\ f[0].out = <<>>
    BY <1>2 DEF Turns
  <2>2. <<>> \in Seq(Byte) /\ Len(<<>>) = 0 /\ w \o <<>> = w
    BY <1>1
  <2>3. Looped(q, w, acc, bad, failing, f[0], 0)
    BY <2>1, <2>2 DEF Looped, SameEvent
  <2> QED BY <1>1, <2>3
<1>4. ASSUME NEW j \in 1..Len(q), j - 1 \in S PROVE j \in S
  <2>1. f[j] = SendOne(f[j - 1], j, failing)
    BY <1>2 DEF Turns
  <2>2. Looped(q, w, acc, bad, failing, f[j - 1], j - 1)
    BY <1>4
  <2>3. Looped(q, w, acc, bad, failing, SendOne(f[j - 1], j, failing), j)
    BY <1>1, <2>2, LoopTurn
  <2> QED BY <1>1, <2>1, <2>3
<1> HIDE DEF S
<1>5. \A j \in 0..Len(q) : j \in S
  BY <1>1, <1>3, <1>4, Upward
<1>6. Len(q) \in S
  BY <1>1, <1>5
<1> QED BY <1>2, <1>6 DEF S

-----------------------------------------------------------------------------
(* How much is on the wire *)

(* The k-th byte of the event e is behind all bytes of the events before it. *)
Place(acc, e, k) == e \in 1..Len(acc) /\ k \in Nat /\ 1 <= k /\ k <= acc[e]

LEMMA Placed ==
  ASSUME NEW acc \in Seq(Nat), NEW e \in 1..Len(acc), NEW k, k \in 1..acc[e]
  PROVE  Place(acc, e, k)
<1>1. PICK n \in Nat : n = acc[e]
  OBVIOUS
<1>2. k \in 1..n
  BY <1>1
<1>3. k \in Nat /\ 1 <= k /\ k <= n
  BY <1>2
<1> QED BY <1>1, <1>3 DEF Place

LEMMA Behind ==
  ASSUME NEW a \in Nat, NEW b \in Nat, NEW c \in Nat, NEW k \in Nat, NEW l \in Nat, NEW t \in Nat,
         b = a + c, 1 <= k, k <= c, 1 <= l
  PROVE  a + k \in Nat /\ 1 <= a + k /\ a + k <= b /\ (b <= t => a + k < t + l)
  OBVIOUS

LEMMA Places ==
  ASSUME NEW s, NEW acc \in Seq(Nat), Sums(s, acc), NEW e, NEW k, Place(acc, e, k),
         NEW d, NEW l, Place(acc, d, l)
  PROVE  /\ s[e - 1] \in Nat /\ s[e] \in Nat /\ s[e - 1] + k \in Nat
         /\ 1 <= s[e - 1] + k /\ s[e - 1] + k <= s[e]
         /\ e < d => s[e - 1] + k < s[d - 1] + l
<1>1. /\ e \in 1..Len(acc) /\ d \in 1..Len(acc) /\ Len(acc) \in Nat
      /\ k \in Nat /\ 1 <= k /\ k <= acc[e] /\ l \in Nat /\ 1 <= l
  BY DEF Place
<1>2. e - 1 \in 0..Len(acc) /\ e \in 0..Len(acc) /\ d - 1 \in 0..Len(acc)
  BY <1>1
<1>3. s[e - 1] \in Nat /\ s[e] \in Nat /\ s[d - 1] \in Nat /\ s[e] = s[e - 1] + acc[e]
  BY <1>1, <1>2 DEF Sums
<1>4. acc[e] \in Nat
  BY <1>1
<1>5. ASSUME e < d PROVE s[e] <= s[d - 1]
  <2>1. e <= d - 1
    BY <1>1, <1>5
  <2> QED BY <1>2, <2>1 DEF Sums
<1>6. /\ s[e - 1] + k \in Nat /\ 1 <= s[e - 1] + k /\ s[e - 1] + k <= s[e]
      /\ s[e] <= s[d - 1] => s[e - 1] + k < s[d - 1] + l
  BY <1>1, <1>3, <1>4, Behind, Zenon
<1> QED BY <1>3, <1>5, <1>6

LEMMA HowMany ==
  ASSUME NEW a \in Nat, NEW b \in Nat, a <= b
  PROVE  IsFiniteSet((a + 1)..b) /\ Cardinality((a + 1)..b) = b - a
<1>1. PICK c \in Int : c = a + 1
  OBVIOUS
<1>2. IsFiniteSet(c..b) /\ Cardinality(c..b) = IF c > b THEN 0 ELSE b - c + 1
  <2>1. c \in Int /\ b \in Int
    BY <1>1
  <2> QED BY <2>1, FS_Interval, Zenon
<1>3. (IF c > b THEN 0 ELSE b - c + 1) = b - a
  BY <1>1
<1> QED BY <1>1, <1>2, <1>3, Zenon

(* If no event behind the first m is on the wire, then there is no more on *)
(* it than those.                                                          *)
LEMMA OnlyTheFirst ==
  ASSUME NEW w, NEW acc \in Seq(Nat), NEW bad, NEW s, NEW m \in 0..Len(acc),
         Intact(w, acc, bad), Sums(s, acc), \A e \in 1..Len(acc) : On(w, e) => e <= m
  PROVE  Len(w) - EventHead <= s[m]
<1> DEFINE P == (EventHead + 1)..Len(w)
           place(i) == s[w[i][2] - 1] + w[i][3]
           f == [i \in P |-> place(i)]
<1>1. EventHead \in Nat /\ Len(w) \in Nat /\ EventHead <= Len(w) /\ Len(acc) \in Nat /\ s[m] \in Nat
  <2>1. EventHead \in Nat
    BY EventAssumption, StreamAssumption
  <2>2. w \in Seq(Byte) /\ Len(w) >= EventHead
    BY DEF Intact
  <2>3. Len(w) \in Nat
    BY <2>2
  <2>4. s[m] \in Nat
    BY DEF Sums
  <2> QED BY <2>1, <2>2, <2>3, <2>4
<1>2. ASSUME NEW i \in P
      PROVE  i \in 1..Len(w) /\ IsEvent(w[i]) /\ Place(acc, w[i][2], w[i][3]) /\ w[i][2] <= m
  <2>1. i \in 1..Len(w) /\ i > EventHead
    BY <1>1
  <2>2. IsEvent(w[i])
    BY <2>1 DEF Intact
  <2>3. Spelled(w, acc, i)
    BY <2>1, <2>2 DEF Intact
  <2>4. On(w, w[i][2])
    BY <2>1, <2>2 DEF On
  <2>5. w[i][2] \in 1..Len(acc) /\ w[i][3] \in 1..acc[w[i][2]]
    BY <2>3 DEF Spelled
  <2>6. Place(acc, w[i][2], w[i][3])
    BY <2>5, Placed
  <2> QED BY <2>1, <2>2, <2>4, <2>5, <2>6
<1>3. ASSUME NEW i \in P PROVE place(i) \in 1..s[m]
  <2>1. PICK e, k : e = w[i][2] /\ k = w[i][3]
    OBVIOUS
  <2>2. Place(acc, e, k) /\ e <= m
    BY <1>2, <2>1
  <2>3. /\ s[e] \in Nat /\ s[e - 1] + k \in Nat
        /\ 1 <= s[e - 1] + k /\ s[e - 1] + k <= s[e]
    BY <2>2, Places, Zenon
  <2>4. s[e] <= s[m]
    <3>1. e \in 0..Len(acc)
      BY <1>1, <2>2 DEF Place
    <3> QED BY <2>2, <3>1 DEF Sums
  <2>5. s[e - 1] + k \in 1..s[m]
    BY <1>1, <2>3, <2>4
  <2> QED BY <2>1, <2>5
<1>4. ASSUME NEW i \in P, NEW j \in P, i < j PROVE place(i) # place(j)
  <2>1. PICK e, k : e = w[i][2] /\ k = w[i][3]
    OBVIOUS
  <2>2. PICK d, l : d = w[j][2] /\ l = w[j][3]
    OBVIOUS
  <2>3. Place(acc, e, k) /\ Place(acc, d, l)
    BY <1>2, <2>1, <2>2
  <2>4. InTurn(w, acc, bad, i, j)
    BY <1>2, <1>4 DEF Intact
  <2>5. e < d \/ (e = d /\ k < l) \/ e > d
    BY <2>1, <2>2, <2>4 DEF InTurn, Beats
  <2>6. /\ s[e - 1] \in Nat /\ s[e - 1] + k \in Nat
        /\ e < d => s[e - 1] + k < s[d - 1] + l
    BY <2>3, Places, Zenon
  <2>7. /\ s[d - 1] + l \in Nat
        /\ d < e => s[d - 1] + l < s[e - 1] + k
    BY <2>3, Places, Zenon
  <2>8. k \in Nat /\ l \in Nat /\ e \in Int /\ d \in Int
    BY <2>3 DEF Place
  <2>9. s[e - 1] + k # s[d - 1] + l
    <3>1. \A x, y \in Nat : x < y \/ y < x => x # y
      OBVIOUS
    <3>2. CASE e < d
      BY <2>6, <2>7, <3>1, <3>2, Zenon
    <3>3. CASE e > d
      BY <2>6, <2>7, <2>8, <3>1, <3>3
    <3>4. CASE e = d /\ k < l
      <4>1. \A x, y, z \in Nat : y < z => x + y # x + z
        OBVIOUS
      <4>2. s[e - 1] + k # s[e - 1] + l
        BY <2>6, <2>8, <3>4, <4>1, Zenon
      <4> QED BY <3>4, <4>2, Zenon
    <3> QED BY <2>5, <3>2, <3>3, <3>4
  <2> QED BY <2>1, <2>2, <2>9
<1> HIDE DEF place
<1>5. f \in Injection(P, 1..s[m])
  <2>1. f \in [P -> 1..s[m]]
    BY <1>3
  <2>2. ASSUME NEW i \in P, NEW j \in P, f[i] = f[j] PROVE i = j
    <3>1. i \in Int /\ j \in Int
      BY <1>1
    <3>2. place(i) = place(j)
      BY <2>2
    <3> HIDE DEF P, f
    <3>3. ~(i < j) /\ ~(j < i)
      BY <1>4, <3>2
    <3> QED BY <3>1, <3>3
  <2>3. DOMAIN f = P
    OBVIOUS
  <2> HIDE DEF P, f
  <2> QED BY <2>1, <2>2, <2>3, Zenon DEF Injection, IsInjective
<1>6. IsFiniteSet(1..s[m]) /\ Cardinality(1..s[m]) = s[m]
  <2>1. 0 \in Nat /\ 0 <= s[m] /\ 0 + 1 = 1 /\ s[m] - 0 = s[m]
    BY <1>1
  <2>2. IsFiniteSet((0 + 1)..s[m]) /\ Cardinality((0 + 1)..s[m]) = s[m] - 0
    BY <1>1, <2>1, HowMany, Zenon
  <2>3. (0 + 1)..s[m] = 1..s[m]
    BY <2>1, Zenon
  <2> QED BY <2>1, <2>2, <2>3
<1>7. Cardinality(P) = Len(w) - EventHead
  BY <1>1, HowMany, Zenon
<1> HIDE DEF P, f
<1>8. Cardinality(P) <= Cardinality(1..s[m])
  BY <1>5, <1>6, FS_Injection
<1> QED BY <1>6, <1>7, <1>8

-----------------------------------------------------------------------------
(* The queue, the wire and what has been acknowledged *)

(* Why an event is no longer in the queue *)
GoneFor(w, acc, bad, ah, e) ==
  \/ On(w, e) \/ acc[e] <= ah
  \/ \E d \in 1..Len(acc) : Beats(acc, bad, d, e) /\ On(w, d)

(* c bytes have been credited to the events; of those only `ah' may belong *)
(* to the head.                                                            *)
Balanced(q, w, acc, bad, ah, c) ==
  /\ Sound(q, w, acc, bad) /\ ah \in Nat /\ c \in Int /\ c <= Len(w) - EventHead + ah
  /\ \A e \in 1..(Len(acc) - Len(q)) : GoneFor(w, acc, bad, ah, e)
  /\ \E s : Sums(s, acc) /\ Paid(q, acc, s, c)

LEMMA CreditsLeast ==
  ASSUME NEW S \in Int, NEW t \in Int, NEW a \in Int, NEW ah \in Int, NEW c \in Int, NEW l \in Int,
         t = S + a, t <= c, c <= l + ah, l <= S
  PROVE  a <= ah
  OBVIOUS

LEMMA LeavesFor ==
  ASSUME NEW q, NEW w, NEW acc, NEW bad, NEW ah \in Nat, NEW s, NEW c \in Int, NEW i \in 1..Len(q),
         Sound(q, w, acc, bad), Sums(s, acc), s[Len(acc) - Len(q) + i] <= c,
         c <= Len(w) - EventHead + ah
  PROVE  GoneFor(w, acc, bad, ah, Len(acc) - Len(q) + i)
<1>1. /\ Lined(q, acc) /\ Intact(w, acc, bad) /\ acc \in Seq(Nat) /\ w \in Seq(Byte)
      /\ Len(acc) \in Nat /\ Len(w) \in Nat /\ EventHead \in Nat
  <2>1. EventHead \in Nat
    BY EventAssumption, StreamAssumption
  <2>2. Lined(q, acc) /\ Intact(w, acc, bad) /\ acc \in Seq(Nat) /\ w \in Seq(Byte)
    BY DEF Sound, Lined, Intact
  <2> QED BY <2>1, <2>2
<1>2. PICK e, m : e = Len(acc) - Len(q) + i /\ m = q[i]
  OBVIOUS
<1>3. AnEvent(q, acc, i, m)
  BY <1>1, <1>2, LinedEvent
<1>4. m.event = e /\ e \in 1..Len(acc) /\ m.len = acc[e] /\ acc[e] \in Nat
  BY <1>2, <1>3 DEF AnEvent
<1>5. CASE m.sent
  <2>1. m.len = 0 \/ On(w, e)
    BY <1>2, <1>4, <1>5 DEF Sound
  <2>2. acc[e] = 0 => acc[e] <= ah
    OBVIOUS
  <2> QED BY <1>2, <1>4, <2>1, <2>2 DEF GoneFor
<1>6. CASE ~m.sent
  <2>1. Waits(m, w, acc, bad)
    BY <1>2, <1>6 DEF Sound
  <2>2. ASSUME NEW d \in 1..Len(acc), On(w, d), d > e PROVE GoneFor(w, acc, bad, ah, e)
    BY <1>4, <2>1, <2>2 DEF Waits, GoneFor
  <2>3. ASSUME \A d \in 1..Len(acc) : On(w, d) => ~(d > e) PROVE GoneFor(w, acc, bad, ah, e)
    <3>1. PICK k : k = e - 1
      OBVIOUS
    <3>2. k \in 0..Len(acc) /\ e \in 0..Len(acc)
      BY <1>1, <1>4, <3>1
    <3>3. \A d \in 1..Len(acc) : On(w, d) => d <= k
      <4>1. ~On(w, e)
        BY <1>4, <2>1 DEF Waits
      <4> QED BY <1>1, <1>4, <2>3, <3>1, <4>1
    <3>4. Len(w) - EventHead <= s[k]
      BY <1>1, <3>2, <3>3, OnlyTheFirst, Zenon
    <3>5. s[e] = s[k] + acc[e] /\ s[k] \in Int /\ s[e] \in Int
      <4>1. s \in [0..Len(acc) -> Nat] /\ \A x \in 1..Len(acc) : s[x] = s[x - 1] + acc[x]
        BY DEF Sums
      <4>2. s[e] = s[e - 1] + acc[e]
        BY <1>4, <4>1, Zenon
      <4>3. s[k] \in Nat /\ s[e] \in Nat
        BY <3>2, <4>1, Zenon
      <4> QED BY <3>1, <4>2, <4>3
    <3>6. s[e] <= c
      BY <1>2
    <3>7. Len(w) - EventHead \in Int /\ ah \in Int /\ acc[e] \in Int
      BY <1>1, <1>4
    <3>8. acc[e] <= ah
      BY <3>4, <3>5, <3>6, <3>7, CreditsLeast, Zenon
    <3> QED BY <3>8 DEF GoneFor
  <2>4. GoneFor(w, acc, bad, ah, e)
    BY <2>2, <2>3, Zenon
  <2> QED BY <1>2, <2>4
<1> QED BY <1>5, <1>6

(* Acknowledgements are credited, and the events at the front that are     *)
(* done with leave.                                                        *)
LEMMA BalancedWithout ==
  ASSUME NEW q, NEW w, NEW acc, NEW bad, NEW ah, NEW c, NEW n \in Nat,
         Balanced(q, w, acc, bad, ah, c), c + n <= Len(w) - EventHead + ah
  PROVE  Balanced(Remaining(Credited(q, n), EventFinished), w, acc, bad, ah, c + n)
<1>1. /\ Sound(q, w, acc, bad) /\ ah \in Nat /\ c \in Int /\ c + n \in Int /\ Lined(q, acc)
      /\ q \in Seq(EventMessage) /\ acc \in Seq(Nat) /\ Len(q) \in Nat /\ Len(acc) \in Nat
      /\ Len(q) <= Len(acc)
      /\ \A e \in 1..(Len(acc) - Len(q)) : GoneFor(w, acc, bad, ah, e)
  BY DEF Balanced, Sound, Lined
<1>2. PICK s : Sums(s, acc) /\ Paid(q, acc, s, c)
  BY DEF Balanced
<1> DEFINE r == Remaining(Credited(q, n), EventFinished)
<1>3. PICK m : Settled(q, r, m, acc, s, c + n)
  BY <1>1, <1>2, Settles, Zenon
<1> HIDE DEF r
<1>4. /\ Lined(r, acc) /\ Paid(r, acc, s, c + n) /\ m \in 1..(Len(q) + 1) /\ Len(r) = Len(q) - (m - 1)
      /\ r \in Seq(EventMessage) /\ Len(r) \in Nat
      /\ \A j \in 1..Len(r) : r[j].sent = q[m - 1 + j].sent
      /\ \A i \in 1..(m - 1) : s[Len(acc) - Len(q) + i] <= c + n
  BY <1>3 DEF Settled, Lined
<1>5. ASSUME NEW j \in 1..Len(r)
      PROVE  \E k \in 1..Len(q) : r[j].sent = q[k].sent /\ r[j].event = q[k].event /\ r[j].len = q[k].len
  <2>1. PICK k : k = m - 1 + j
    OBVIOUS
  <2>2. k \in 1..Len(q)
    BY <1>1, <1>4, <2>1
  <2>3. r[j].sent = q[k].sent
    BY <1>4, <2>1
  <2>4. AnEvent(r, acc, j, r[j]) /\ AnEvent(q, acc, k, q[k])
    BY <1>1, <1>4, <2>2, LinedEvent
  <2>5. Len(acc) - Len(r) + j = Len(acc) - Len(q) + k
    BY <1>1, <1>4, <2>1, <2>2
  <2>6. r[j].event = q[k].event /\ r[j].len = q[k].len
    BY <2>4, <2>5 DEF AnEvent
  <2> QED BY <2>2, <2>3, <2>6
<1>6. Sound(r, w, acc, bad)
  <2>1. ASSUME NEW j \in 1..Len(r), r[j].sent PROVE r[j].len = 0 \/ On(w, r[j].event)
    <3>1. PICK k \in 1..Len(q) : r[j].sent = q[k].sent /\ r[j].event = q[k].event /\ r[j].len = q[k].len
      BY <1>5
    <3> QED BY <1>1, <2>1, <3>1 DEF Sound
  <2>2. ASSUME NEW j \in 1..Len(r), ~r[j].sent PROVE Waits(r[j], w, acc, bad)
    <3>1. PICK k \in 1..Len(q) : r[j].sent = q[k].sent /\ r[j].event = q[k].event /\ r[j].len = q[k].len
      BY <1>5
    <3>2. Waits(q[k], w, acc, bad)
      BY <1>1, <2>2, <3>1 DEF Sound
    <3> QED BY <3>1, <3>2 DEF Waits
  <2> QED BY <1>1, <1>4, <2>1, <2>2 DEF Sound
<1>7. ASSUME NEW e \in 1..(Len(acc) - Len(r)) PROVE GoneFor(w, acc, bad, ah, e)
  <2>1. CASE e \in 1..(Len(acc) - Len(q))
    BY <1>1, <2>1
  <2>2. CASE e \notin 1..(Len(acc) - Len(q))
    <3>1. PICK i : i = e - (Len(acc) - Len(q))
      OBVIOUS
    <3>2. i \in 1..(m - 1) /\ i \in 1..Len(q) /\ e = Len(acc) - Len(q) + i
      <4>1. PICK a \in Nat, b \in Nat : a = Len(acc) /\ b = Len(q) /\ b <= a
        BY <1>1
      <4>2. m \in 1..(b + 1) /\ Len(r) = b - (m - 1)
        BY <1>4, <4>1
      <4>3. e \in 1..(a - (b - (m - 1))) /\ e \notin 1..(a - b) /\ i = e - (a - b)
        BY <1>7, <2>2, <3>1, <4>1, <4>2
      <4>4. i \in 1..(m - 1) /\ i \in 1..b /\ e = a - b + i
        BY <4>1, <4>2, <4>3
      <4> QED BY <4>1, <4>4
    <3>3. s[Len(acc) - Len(q) + i] <= c + n
      BY <1>4, <3>2
    <3>4. c + n <= Len(w) - EventHead + ah
      OBVIOUS
    <3>5. GoneFor(w, acc, bad, ah, Len(acc) - Len(q) + i)
      BY <1>1, <1>2, <3>2, <3>3, <3>4, LeavesFor, Zenon
    <3> QED BY <3>2, <3>5
  <2> QED BY <2>1, <2>2
<1>8. Balanced(r, w, acc, bad, ah, c + n)
  BY <1>1, <1>2, <1>4, <1>6, <1>7 DEF Balanced
<1> QED BY <1>8 DEF r

(* The loop sends what there is room for, behind what is there. *)
MayFailNow(bad, now, failing) == now \in BOOLEAN /\ (bad => now) /\ (failing # 0 => now)

LEMMA BalancedByLoop ==
  ASSUME NEW q, NEW w, NEW acc, NEW bad, NEW ah, NEW c, NEW now, NEW failing,
         MayFailNow(bad, now, failing), Space \in Nat, Balanced(q, w, acc, bad, ah, c)
  PROVE  LET r == RunLoop(q, failing)
         IN  /\ Balanced(r.queue, w \o r.out, acc, now, ah, c)
             /\ r.out \in Seq(Byte) /\ Len(r.out) <= Space
<1> DEFINE r == RunLoop(q, failing)
<1>1. Sound(q, w, acc, bad) /\ Lined(q, acc) /\ Intact(w, acc, bad) /\ w \in Seq(Byte)
  BY DEF Balanced, Sound, Intact
<1>2. ASSUME NEW d, NEW e, Beats(acc, bad, d, e) PROVE Beats(acc, now, d, e)
  BY <1>2 DEF Beats, MayFailNow
<1>13. now \in BOOLEAN /\ (failing # 0 => now)
  BY DEF MayFailNow
<1>3. Sound(q, w, acc, now)
  <2>1. Intact(w, acc, now)
    <3>1. ASSUME NEW i, NEW j, InTurn(w, acc, bad, i, j) PROVE InTurn(w, acc, now, i, j)
      BY <1>2, <3>1 DEF InTurn
    <3> QED BY <1>1, <3>1 DEF Intact
  <2>2. ASSUME NEW m, Waits(m, w, acc, bad) PROVE Waits(m, w, acc, now)
    BY <1>2, <2>2 DEF Waits
  <2> QED BY <1>1, <1>13, <2>1, <2>2 DEF Sound
<1>4. Looped(q, w, acc, now, failing, r, Len(q))
  BY <1>3, <1>13, LoopSound
<1> HIDE DEF r
<1>5. /\ r.out \in Seq(Byte) /\ Len(r.out) <= Space /\ Len(r.queue) = Len(q)
      /\ \A j \in 1..Len(q) : SameEvent(r.queue[j], q[j])
      /\ Sound(r.queue, w \o r.out, acc, now) /\ Lined(r.queue, acc)
  BY <1>4 DEF Looped, Sound
<1>6. /\ Len(w \o r.out) = Len(w) + Len(r.out) /\ Len(w) \in Nat /\ Len(r.out) \in Nat
      /\ \A i \in 1..Len(w) : (w \o r.out)[i] = w[i] /\ i \in 1..Len(w \o r.out)
  <2>1. /\ Len(w \o r.out) = Len(w) + Len(r.out) /\ \A i \in 1..Len(w) : (w \o r.out)[i] = w[i]
    BY <1>1, <1>5, JoinedBytes, Zenon
  <2>2. Len(w) \in Nat /\ Len(r.out) \in Nat
    BY <1>1, <1>5
  <2>3. \A i \in 1..Len(w) : i \in 1..Len(w \o r.out)
    BY <2>1, <2>2
  <2> QED BY <2>1, <2>2, <2>3
<1>7. ASSUME NEW e, On(w, e) PROVE On(w \o r.out, e)
  BY <1>6, <1>7 DEF On
<1>8. ASSUME NEW e \in 1..(Len(acc) - Len(r.queue)) PROVE GoneFor(w \o r.out, acc, now, ah, e)
  <2>1. GoneFor(w, acc, bad, ah, e)
    BY <1>5, <1>8 DEF Balanced
  <2> QED BY <1>2, <1>7, <2>1 DEF GoneFor
<1>9. ah \in Nat /\ c \in Int /\ c <= Len(w \o r.out) - EventHead + ah
  <2>1. ah \in Nat /\ c \in Int /\ c <= Len(w) - EventHead + ah
    BY DEF Balanced
  <2>2. EventHead \in Nat
    BY EventAssumption, StreamAssumption
  <2> QED BY <1>6, <2>1, <2>2
<1>10. PICK s : Sums(s, acc) /\ Paid(q, acc, s, c)
  BY DEF Balanced
<1>11. Paid(r.queue, acc, s, c)
  <2>1. q \in Seq(EventMessage) /\ r.queue \in Seq(EventMessage)
    BY <1>1, <1>5 DEF Lined
  <2>2. \A i \in 1..Len(q) : r.queue[i].acked = q[i].acked
    BY <1>5 DEF SameEvent
  <2>3. FrontAcked(r.queue) = FrontAcked(q)
    <3>1. CASE q = <<>>
      BY <1>5, <2>1, <3>1 DEF FrontAcked
    <3>2. CASE q # <<>>
      <4>1. 1 \in 1..Len(q) /\ r.queue # <<>>
        BY <1>5, <2>1, <3>2
      <4> QED BY <2>2, <3>2, <4>1 DEF FrontAcked
    <3> QED BY <3>1, <3>2
  <2>4. \A i \in 2..Len(r.queue) : r.queue[i].acked = 0
    <3>1. \A i \in 2..Len(r.queue) : i \in 1..Len(q) /\ i \in 2..Len(q)
      BY <1>5, <2>1
    <3> QED BY <1>10, <2>2, <3>1 DEF Paid
  <2> QED BY <1>5, <1>10, <2>3, <2>4 DEF Paid
<1>12. Balanced(r.queue, w \o r.out, acc, now, ah, c)
  BY <1>5, <1>8, <1>9, <1>10, <1>11 DEF Balanced
<1> QED BY <1>5, <1>12 DEF r

(* When nothing is acknowledged, nothing is credited. *)
LEMMA CreditedNone ==
  ASSUME NEW q, NEW acc, Lined(q, acc)
  PROVE  Credited(q, 0) = q
<1>1. q \in Seq(EventMessage) /\ Len(q) \in Nat /\ \A i \in 1..Len(q) : q[i] \in EventMessage /\ q[i].acked <= q[i].len
  BY DEF Lined
<1>2. PICK left : /\ Shares(q, 0, left)
                  /\ Credited(q, 0) =
                       [i \in DOMAIN q |-> [q[i] EXCEPT !.acked = @ + Credit(q[i], left[i - 1])]]
  BY <1>1, Shared
<1> DEFINE Z == {i \in 0..Len(q) : left[i] = 0}
<1>3. 0 \in Z
  BY <1>1, <1>2 DEF Shares
<1>4. ASSUME NEW j \in 1..Len(q), left[j - 1] = 0 PROVE Credit(q[j], left[j - 1]) = 0
  BY <1>1, <1>4, CreditBounds
<1>5. ASSUME NEW j \in 1..Len(q), j - 1 \in Z PROVE j \in Z
  <2>1. left[j] = left[j - 1] - Credit(q[j], left[j - 1]) /\ left[j - 1] = 0
    BY <1>2, <1>5 DEF Shares
  <2> QED BY <1>1, <1>4, <2>1
<1> HIDE DEF Z
<1>6. \A j \in 0..Len(q) : j \in Z
  BY <1>1, <1>3, <1>5, Upward
<1>7. ASSUME NEW i \in 1..Len(q) PROVE [q[i] EXCEPT !.acked = @ + Credit(q[i], left[i - 1])] = q[i]
  <2>1. left[i - 1] = 0
    <3>1. i - 1 \in 0..Len(q)
      BY <1>1
    <3> QED BY <1>6, <3>1 DEF Z
  <2>2. Credit(q[i], left[i - 1]) = 0
    BY <1>4, <2>1
  <2>3. q[i] \in EventMessage
    BY <1>1
  <2> QED BY <2>2, <2>3 DEF EventMessage
<1>8. DOMAIN q = 1..Len(q) /\ q = [i \in 1..Len(q) |-> q[i]]
  BY <1>1
<1> QED BY <1>2, <1>7, <1>8

(* An event is accepted. *)
Joins(m, acc) ==
  m \in EventMessage /\ m.event = Len(acc) + 1 /\ m.acked = 0 /\ (m.sent <=> m.len = 0)

LEMMA BalancedWith ==
  ASSUME NEW q, NEW w, NEW acc, NEW bad, NEW ah, NEW c, NEW m, Balanced(q, w, acc, bad, ah, c), Joins(m, acc)
  PROVE  Balanced(Append(q, m), w, Append(acc, m.len), bad, ah, c)
<1> DEFINE p == Append(q, m)
           now == Append(acc, m.len)
<1>1. /\ Sound(q, w, acc, bad) /\ Lined(q, acc) /\ Intact(w, acc, bad) /\ bad \in BOOLEAN
      /\ q \in Seq(EventMessage) /\ acc \in Seq(Nat) /\ Len(q) \in Nat /\ Len(acc) \in Nat /\ Len(q) <= Len(acc)
  BY DEF Balanced, Sound, Lined
<1>2. m \in EventMessage /\ m.len \in Nat /\ m.event = Len(acc) + 1 /\ m.acked = 0 /\ (m.sent <=> m.len = 0)
  BY DEF Joins, EventMessage
<1>3. /\ p \in Seq(EventMessage) /\ Len(p) = Len(q) + 1 /\ p[Len(q) + 1] = m
      /\ \A i \in 1..Len(q) : p[i] = q[i]
  BY <1>1, <1>2
<1>4. /\ now \in Seq(Nat) /\ Len(now) = Len(acc) + 1 /\ now[Len(acc) + 1] = m.len
      /\ \A e \in 1..Len(acc) : now[e] = acc[e] /\ e \in 1..Len(now)
  BY <1>1, <1>2
<1> HIDE DEF p, now
<1>5. ASSUME NEW j \in 1..Len(p) PROVE (j \in 1..Len(q) /\ p[j] = q[j]) \/ (j = Len(q) + 1 /\ p[j] = m)
  <2>1. j \in 1..Len(q) \/ j = Len(q) + 1
    BY <1>1, <1>3
  <2> QED BY <1>3, <2>1
<1>6. ASSUME NEW d \in 1..Len(acc), NEW e \in 1..Len(acc)
      PROVE  Beats(now, bad, d, e) <=> Beats(acc, bad, d, e)
  BY <1>4 DEF Beats
<1>7. ASSUME NEW i \in 1..Len(w), IsEvent(w[i]) PROVE w[i][2] \in 1..Len(acc) /\ Spelled(w, acc, i)
  BY <1>1, <1>7 DEF Intact, Spelled
<1>8. ASSUME NEW e, On(w, e) PROVE e \in 1..Len(acc)
  BY <1>7, <1>8 DEF On
<1>9. Intact(w, now, bad)
  <2>1. ASSUME NEW i \in 1..Len(w), IsEvent(w[i]) PROVE Spelled(w, now, i)
    BY <1>4, <1>7, <2>1 DEF Spelled
  <2>2. ASSUME NEW i \in 1..Len(w), NEW j \in 1..Len(w), IsEvent(w[i]), IsEvent(w[j]), i < j
        PROVE  InTurn(w, now, bad, i, j)
    <3>1. InTurn(w, acc, bad, i, j)
      BY <1>1, <2>2 DEF Intact
    <3> QED BY <1>6, <1>7, <2>2, <3>1 DEF InTurn
  <2> QED BY <1>1, <2>1, <2>2 DEF Intact
<1>10. Lined(p, now)
  <2>1. ASSUME NEW j \in 1..Len(p)
        PROVE  p[j].event = Len(now) - Len(p) + j /\ p[j].len = now[p[j].event] /\ p[j].acked <= p[j].len
    <3>1. ASSUME j \in 1..Len(q), p[j] = q[j]
          PROVE  p[j].event = Len(now) - Len(p) + j /\ p[j].len = now[p[j].event] /\ p[j].acked <= p[j].len
      <4>1. AnEvent(q, acc, j, q[j]) /\ q[j].acked <= q[j].len
        BY <1>1, <3>1, LinedEvent DEF Lined
      <4>2. q[j].event = Len(acc) - Len(q) + j /\ q[j].event \in 1..Len(acc) /\ q[j].len = acc[q[j].event]
        BY <4>1 DEF AnEvent
      <4>3. Len(now) - Len(p) + j = Len(acc) - Len(q) + j
        BY <1>1, <1>3, <1>4
      <4> QED BY <1>4, <3>1, <4>1, <4>2, <4>3
    <3>2. ASSUME j = Len(q) + 1, p[j] = m
          PROVE  p[j].event = Len(now) - Len(p) + j /\ p[j].len = now[p[j].event] /\ p[j].acked <= p[j].len
      BY <1>1, <1>2, <1>3, <1>4, <3>2
    <3> QED BY <1>5, <3>1, <3>2
  <2> QED BY <1>1, <1>3, <1>4, <2>1 DEF Lined
<1>11. Sound(p, w, now, bad)
  <2>1. ASSUME NEW j \in 1..Len(p), p[j].sent PROVE p[j].len = 0 \/ On(w, p[j].event)
    BY <1>1, <1>2, <1>5, <2>1 DEF Sound
  <2>2. ASSUME NEW j \in 1..Len(p), ~p[j].sent PROVE Waits(p[j], w, now, bad)
    <3>1. ASSUME j \in 1..Len(q), p[j] = q[j] PROVE Waits(p[j], w, now, bad)
      <4>1. Waits(q[j], w, acc, bad)
        BY <1>1, <2>2, <3>1 DEF Sound
      <4>2. q[j].event \in 1..Len(acc)
        BY <1>1, <3>1, LinedEvent DEF AnEvent
      <4> QED BY <1>6, <1>8, <3>1, <4>1, <4>2 DEF Waits
    <3>2. ASSUME p[j] = m PROVE Waits(p[j], w, now, bad)
      <4>1. ~On(w, m.event) /\ \A d : On(w, d) => ~(d > m.event)
        BY <1>1, <1>2, <1>8
      <4>2. m.len > 0
        BY <1>2, <2>2, <3>2
      <4> QED BY <3>2, <4>1, <4>2 DEF Waits
    <3> QED BY <1>5, <3>1, <3>2
  <2> QED BY <1>1, <1>9, <1>10, <2>1, <2>2 DEF Sound
<1>12. ASSUME NEW e \in 1..(Len(now) - Len(p)) PROVE GoneFor(w, now, bad, ah, e)
  <2>1. e \in 1..(Len(acc) - Len(q)) /\ e \in 1..Len(acc)
    BY <1>1, <1>3, <1>4
  <2>2. GoneFor(w, acc, bad, ah, e)
    BY <2>1 DEF Balanced
  <2> QED BY <1>4, <1>6, <2>1, <2>2 DEF GoneFor
<1>13. PICK s : Sums(s, acc) /\ Paid(q, acc, s, c)
  BY DEF Balanced
<1> DEFINE n == Len(acc)
           z == [i \in 0..(n + 1) |-> IF i = n + 1 THEN s[n] + m.len ELSE s[i]]
<1>14. /\ s \in [0..n -> Nat] /\ s[0] = 0 /\ n \in Nat /\ s[n] \in Nat
       /\ \A i \in 1..n : s[i] = s[i - 1] + acc[i]
       /\ \A i, j \in 0..n : i <= j => s[i] <= s[j]
  <2>1. s \in [0..n -> Nat] /\ n \in 0..n /\ n \in Nat
    BY <1>1, <1>13 DEF Sums
  <2>2. s[n] \in Nat
    BY <2>1, Zenon
  <2> QED BY <1>13, <2>1, <2>2 DEF Sums
<1>15. /\ \A i \in 0..n : z[i] = s[i] /\ i \in 0..(n + 1) /\ s[i] \in Nat
       /\ z[n + 1] = s[n] + m.len /\ DOMAIN z = 0..(n + 1) /\ z = [i \in 0..(n + 1) |-> z[i]]
  BY <1>14
<1> HIDE DEF z
<1>16. Sums(z, now)
  <2>1. \A i \in 0..(n + 1) : i \in 0..n \/ i = n + 1
    BY <1>14
  <2>2. \A i \in 0..(n + 1) : z[i] \in Nat
    <3>1. z[n + 1] \in Nat
      BY <1>2, <1>14, <1>15
    <3>2. \A i \in 0..n : z[i] \in Nat
      BY <1>15
    <3> QED BY <2>1, <3>1, <3>2, Zenon
  <2>3. z \in [0..(n + 1) -> Nat]
    BY <1>15, <2>2
  <2>4. ASSUME NEW i \in 1..(n + 1) PROVE z[i] = z[i - 1] + now[i]
    <3>1. CASE i = n + 1
      <4>1. i - 1 = n /\ n \in 0..n
        BY <1>14, <3>1
      <4> QED BY <1>4, <1>15, <3>1, <4>1
    <3>2. CASE i # n + 1
      <4>1. i \in 1..n /\ i \in 0..n /\ i - 1 \in 0..n
        BY <1>14, <3>2
      <4>2. s[i] = s[i - 1] + acc[i] /\ now[i] = acc[i]
        BY <1>4, <1>14, <4>1
      <4> QED BY <1>15, <4>1, <4>2
    <3> QED BY <3>1, <3>2
  <2>5. ASSUME NEW i \in 0..(n + 1), NEW j \in 0..(n + 1), i <= j PROVE z[i] <= z[j]
    <3>1. CASE i \in 0..n /\ j \in 0..n
      BY <1>14, <1>15, <2>5, <3>1
    <3>2. CASE i \in 0..n /\ j = n + 1
      <4>1. n \in 0..n /\ i <= n
        BY <1>14, <3>2
      <4>2. s[i] <= s[n] /\ s[i] \in Nat
        BY <1>14, <1>15, <3>2, <4>1, Zenon
      <4>3. s[i] <= s[n] + m.len
        BY <1>2, <1>14, <4>2
      <4> QED BY <1>15, <3>2, <4>3
    <3>3. CASE i = n + 1 /\ j = n + 1
      BY <2>2, <3>3
    <3> QED BY <1>14, <2>1, <2>5, <3>1, <3>2, <3>3
  <2>6. z[0] = 0
    BY <1>14, <1>15
  <2> HIDE DEF n
  <2>7. Len(now) = n + 1
    BY <1>4 DEF n
  <2> QED BY <2>3, <2>4, <2>5, <2>6, <2>7 DEF Sums
<1>17. Paid(p, now, z, c)
  <2>1. Len(now) - Len(p) = n - Len(q) /\ n - Len(q) \in 0..n
    BY <1>1, <1>3, <1>4
  <2>2. z[Len(now) - Len(p)] = s[n - Len(q)]
    BY <1>15, <2>1
  <2>3. FrontAcked(p) = FrontAcked(q)
    <3>1. p # <<>>
      BY <1>1, <1>3
    <3>2. CASE q = <<>>
      <4>1. Len(q) = 0 /\ p[1] = m
        BY <1>3, <3>2
      <4> QED BY <1>2, <3>1, <3>2, <4>1 DEF FrontAcked
    <3>3. CASE q # <<>>
      <4>1. 1 \in 1..Len(q)
        BY <1>1, <3>3
      <4> QED BY <1>3, <3>1, <3>3, <4>1 DEF FrontAcked
    <3> QED BY <3>2, <3>3
  <2>4. ASSUME NEW i \in 2..Len(p) PROVE p[i].acked = 0
    <3>1. i \in 1..Len(p) /\ (i \in 1..Len(q) => i \in 2..Len(q))
      BY <1>1, <1>3
    <3> QED BY <1>2, <1>5, <1>13, <3>1 DEF Paid
  <2> QED BY <1>13, <2>2, <2>3, <2>4 DEF Paid
<1>18. Balanced(p, w, now, bad, ah, c)
  <2>1. ah \in Nat /\ c \in Int /\ c <= Len(w) - EventHead + ah
    BY DEF Balanced
  <2> QED BY <1>11, <1>12, <1>16, <1>17, <2>1 DEF Balanced
<1> QED BY <1>18 DEF p, now

-----------------------------------------------------------------------------
(* The client of an event source *)

OutOfOrder == "memory" \in lost
CreditSoFar == Len(wire) - EventHead - unacked - confirmed + ahead
EventInv ==
  source # "none" =>
    /\ status = "none" /\ source \in {"asked", "refused", "waiting", "open", "gone"}
    /\ unacked \in Nat /\ unacked <= SndBuf /\ confirmed \in Nat /\ accepted \in Seq(Nat)
    /\ source \in {"asked", "refused"} => wire = <<>> /\ unacked = 0 /\ confirmed = 0
    /\ source \in {"asked", "refused", "waiting"} => accepted = <<>> /\ events = <<>>
    /\ source = "waiting" => (wire = <<>> /\ unacked = 0 /\ confirmed = 0) \/ Len(wire) = EventHead
    /\ wire = <<>> \/ Intact(wire, accepted, OutOfOrder)
    /\ source = "open" => Balanced(events, wire, accepted, OutOfOrder, ahead, CreditSoFar)

LEMMA Lengths == SndBuf \in Nat /\ EventHead \in Nat /\ 1 <= EventHead /\ EventHead <= SndBuf
  BY EventAssumption, StreamAssumption

LEMMA SpaceLeft ==
  ASSUME unacked \in Nat, unacked <= SndBuf
  PROVE  Space \in Nat /\ unacked + Space <= SndBuf
  BY Lengths DEF Space

(* _runQueue() *)
LEMMA RunsKeep ==
  ASSUME NEW queue, NEW failed, NEW acc, NEW c, unacked \in Nat, unacked <= SndBuf,
         Balanced(Remaining(queue, EventFinished), wire, acc, OutOfOrder, ahead, c),
         RunEvents(queue, failed)
  PROVE  /\ Balanced(events', wire', acc, OutOfOrder', ahead, c)
         /\ \E n \in Nat : n <= Space /\ Len(wire') = Len(wire) + n /\ unacked' = unacked + n
<1>1. Space \in Nat
  BY SpaceLeft
<1> DEFINE rest == Remaining(queue, EventFinished)
<1>2. PICK failing : \E ran \in {RunLoop(rest, failing)} :
        /\ events' = ran.queue
        /\ wire' = wire \o SubSeq(ran.out, 1, Least(Space, Len(ran.out)))
        /\ unacked' = unacked + Least(Space, Len(ran.out))
        /\ lost' = lost \cup (IF failing = 0 THEN {} ELSE {"memory"})
  BY Zenon DEF RunEvents
<1> DEFINE r == RunLoop(rest, failing)
<1>3. /\ events' = r.queue /\ wire' = wire \o SubSeq(r.out, 1, Least(Space, Len(r.out)))
      /\ unacked' = unacked + Least(Space, Len(r.out))
      /\ lost' = lost \cup (IF failing = 0 THEN {} ELSE {"memory"})
  BY <1>2, Zenon
<1>4. (OutOfOrder => OutOfOrder') /\ (failing # 0 => OutOfOrder') /\ OutOfOrder' \in BOOLEAN
  BY <1>3 DEF OutOfOrder
<1>5. PICK now \in BOOLEAN : now <=> OutOfOrder'
  BY <1>4
<1>6. Balanced(rest, wire, acc, OutOfOrder, ahead, c)
  BY Zenon
<1> HIDE DEF rest
<1>7. /\ Balanced(r.queue, wire \o r.out, acc, now, ahead, c)
      /\ r.out \in Seq(Byte) /\ Len(r.out) <= Space
  <2>1. MayFailNow(OutOfOrder, now, failing)
    BY <1>4, <1>5 DEF MayFailNow
  <2> QED BY <1>1, <1>6, <2>1, BalancedByLoop, Zenon
<1> HIDE DEF r
<1>8. Least(Space, Len(r.out)) = Len(r.out) /\ Len(r.out) \in Nat
  BY <1>1, <1>7 DEF Least
<1>9. SubSeq(r.out, 1, Len(r.out)) = r.out
  BY <1>7
<1>10. wire' = wire \o r.out /\ unacked' = unacked + Len(r.out)
  BY <1>3, <1>8, <1>9
<1>11. wire \in Seq(Byte)
  BY <1>6 DEF Balanced, Sound, Intact
<1>12. Len(wire') = Len(wire) + Len(r.out)
  BY <1>7, <1>10, <1>11, JoinedBytes, Zenon
<1>13. OutOfOrder' = now
  BY <1>4, <1>5
<1>14. Balanced(events', wire', acc, OutOfOrder', ahead, c)
  BY <1>3, <1>7, <1>10, <1>13, Zenon
<1> QED BY <1>7, <1>8, <1>10, <1>12, <1>14

(* What holds of the connection after it is what held before. *)
LEMMA OpenGoesOn ==
  ASSUME NEW queue, NEW failed, NEW n \in Nat,
         EventInv, source = "open", UNCHANGED <<source, status, ahead>>,
         confirmed' \in Nat, confirmed' = confirmed - n, accepted' \in Seq(Nat),
         Balanced(Remaining(queue, EventFinished), wire, accepted', OutOfOrder, ahead, CreditSoFar + n),
         RunEvents(queue, failed)
  PROVE  EventInv'
<1>1. unacked \in Nat /\ unacked <= SndBuf /\ confirmed \in Nat /\ status = "none" /\ source # "none"
  BY DEF EventInv
<1> DEFINE c == CreditSoFar + n
           acc == accepted'
<1>2. /\ Balanced(events', wire', acc, OutOfOrder', ahead, c)
      /\ \E k \in Nat : k <= Space /\ Len(wire') = Len(wire) + k /\ unacked' = unacked + k
  <2> HIDE DEF c, acc
  <2> QED BY <1>1, RunsKeep DEF c, acc
<1>3. PICK k \in Nat : k <= Space /\ Len(wire') = Len(wire) + k /\ unacked' = unacked + k
  BY <1>2
<1>4. unacked' \in Nat /\ unacked' <= SndBuf
  BY <1>1, <1>3, SpaceLeft, Lengths
<1>5. CreditSoFar' = c
  <2>1. Len(wire) \in Nat /\ ahead \in Nat /\ EventHead \in Nat
    BY Lengths DEF Balanced, Sound, Intact
  <2>2. CreditSoFar' = Len(wire') - EventHead - unacked' - confirmed' + ahead
    BY DEF CreditSoFar
  <2>3. /\ Len(wire') = Len(wire) + k /\ unacked' = unacked + k /\ confirmed' = confirmed - n
    BY <1>3
  <2> QED BY <1>1, <2>1, <2>2, <2>3 DEF CreditSoFar
<1>6. Balanced(events', wire', accepted', OutOfOrder', ahead', CreditSoFar')
  BY <1>2, <1>5
<1>7. Intact(wire', accepted', OutOfOrder')
  BY <1>6 DEF Balanced, Sound
<1> QED BY <1>1, <1>4, <1>6, <1>7 DEF EventInv

LEMMA EventAckKeeps ==
  ASSUME EventInv, EventAck, UNCHANGED status
  PROVE  EventInv'
<1>1. PICK n \in Sent : TakeAcks(n) /\ RunEvents(Credited(events, n), 0)
  BY DEF EventAck
<1>2. source = "open" /\ UNCHANGED <<source, accepted, ahead, status>>
  BY DEF EventAck
<1>3. /\ unacked \in Nat /\ confirmed \in Nat /\ accepted \in Seq(Nat)
      /\ Balanced(events, wire, accepted, OutOfOrder, ahead, CreditSoFar)
  BY <1>2 DEF EventInv
<1>4. n \in Nat /\ n <= confirmed /\ confirmed' = confirmed - n /\ confirmed' \in Nat
  BY <1>1, <1>3 DEF TakeAcks
<1>5. CreditSoFar + n <= Len(wire) - EventHead + ahead
  <2>1. Len(wire) \in Nat /\ ahead \in Nat
    BY <1>3 DEF Balanced, Sound, Intact
  <2> QED BY <1>3, <1>4, <2>1, Lengths DEF CreditSoFar
<1>6. Balanced(Remaining(Credited(events, n), EventFinished), wire, accepted, OutOfOrder, ahead, CreditSoFar + n)
  BY <1>3, <1>4, <1>5, BalancedWithout, Zenon
<1>7. accepted' \in Seq(Nat)
  BY <1>2, <1>3
<1>8. Balanced(Remaining(Credited(events, n), EventFinished), wire, accepted', OutOfOrder, ahead, CreditSoFar + n)
  BY <1>2, <1>6
<1> QED BY <1>1, <1>2, <1>4, <1>7, <1>8, OpenGoesOn

(* Nothing is acknowledged. *)
LEMMA QueueGoesOn ==
  ASSUME NEW queue, NEW failed, EventInv, source = "open", UNCHANGED <<source, status, ahead, confirmed>>,
         accepted' \in Seq(Nat), Balanced(queue, wire, accepted', OutOfOrder, ahead, CreditSoFar),
         RunEvents(queue, failed)
  PROVE  EventInv'
<1>1. confirmed \in Nat
  BY DEF EventInv
<1>2. CreditSoFar \in Int /\ CreditSoFar + 0 = CreditSoFar
  BY DEF Balanced
<1>3. Lined(queue, accepted')
  BY DEF Balanced, Sound
<1>4. Credited(queue, 0) = queue
  BY <1>3, CreditedNone, Zenon
<1>5. 0 \in Nat /\ CreditSoFar + 0 <= Len(wire) - EventHead + ahead
  BY <1>2 DEF Balanced
<1>6. Balanced(Remaining(Credited(queue, 0), EventFinished), wire, accepted', OutOfOrder, ahead, CreditSoFar + 0)
  <2> DEFINE acc == accepted'
  <2>1. Balanced(queue, wire, acc, OutOfOrder, ahead, CreditSoFar)
    BY Zenon
  <2> HIDE DEF acc
  <2>2. Balanced(Remaining(Credited(queue, 0), EventFinished), wire, acc, OutOfOrder, ahead, CreditSoFar + 0)
    BY <1>5, <2>1, BalancedWithout, Zenon
  <2> QED BY <2>2 DEF acc
<1>7. Balanced(Remaining(queue, EventFinished), wire, accepted', OutOfOrder, ahead, CreditSoFar + 0)
  BY <1>4, <1>6, Zenon
<1>8. confirmed' \in Nat /\ confirmed' = confirmed - 0
  BY <1>1
<1> QED BY <1>5, <1>7, <1>8, OpenGoesOn

LEMMA EventPollKeeps ==
  ASSUME EventInv, EventPoll, UNCHANGED status
  PROVE  EventInv'
<1>1. /\ source = "open" /\ UNCHANGED <<source, status, ahead, confirmed>> /\ accepted' = accepted
      /\ RunEvents(events, 0)
  BY DEF EventPoll
<1>2. accepted' \in Seq(Nat) /\ Balanced(events, wire, accepted', OutOfOrder, ahead, CreditSoFar)
  BY <1>1 DEF EventInv
<1> QED BY <1>1, <1>2, QueueGoesOn

LEMMA SendEventKeeps ==
  ASSUME NEW len \in EventLengths, NEW failing \in BOOLEAN, EventInv, SendEvent(len, failing),
         UNCHANGED status
  PROVE  EventInv'
<1> DEFINE room == Len(events) < EventQueueLimit
           m == NewEvent(len, failing)
           queue == IF room THEN Append(events, m) ELSE events
           failed == IF failing THEN 1 ELSE 0
<1>1. source = "open" /\ UNCHANGED <<source, confirmed, ahead, status>> /\ QueueEvent(len, failing)
  BY DEF SendEvent
<1>2. /\ accepted \in Seq(Nat) /\ unacked \in Nat /\ unacked <= SndBuf /\ confirmed \in Nat
      /\ Balanced(events, wire, accepted, OutOfOrder, ahead, CreditSoFar)
      /\ status = "none"
  BY <1>1 DEF EventInv
<1>3. Joins(m, accepted) /\ m.len \in Nat
  <2>1. len \in Nat /\ len # 0
    BY EventAssumption, Lengths
  <2>2. Len(accepted) + 1 \in Nat
    BY <1>2
  <2> QED BY <2>1, <2>2 DEF NewEvent, Joins, EventMessage
<1>4. /\ accepted' = IF room THEN Append(accepted, m.len) ELSE accepted
      /\ \/ RunEvents(queue, failed)
         \/ events' = queue /\ UNCHANGED <<wire, unacked, lost>>
  BY <1>1, Zenon DEF QueueEvent, NoWrite, OutOfMemory
<1> HIDE DEF m
<1>5. accepted' \in Seq(Nat)
  BY <1>2, <1>3, <1>4
<1>6. Balanced(queue, wire, accepted', OutOfOrder, ahead, CreditSoFar)
  <2>1. Balanced(Append(events, m), wire, Append(accepted, m.len), OutOfOrder, ahead, CreditSoFar)
    BY <1>2, <1>3, BalancedWith, Zenon
  <2>2. CASE room
    BY <1>4, <2>1, <2>2
  <2>3. CASE ~room
    BY <1>2, <1>4, <2>3
  <2> QED BY <2>2, <2>3
<1> HIDE DEF queue, failed, room
<1>7. CASE RunEvents(queue, failed)
  BY <1>1, <1>5, <1>6, <1>7, QueueGoesOn
<1>8. CASE events' = queue /\ UNCHANGED <<wire, unacked, lost>>
  <2>1. OutOfOrder' = OutOfOrder /\ CreditSoFar' = CreditSoFar
    BY <1>1, <1>8 DEF OutOfOrder, CreditSoFar
  <2>2. Balanced(events', wire', accepted', OutOfOrder', ahead', CreditSoFar')
    BY <1>1, <1>6, <1>8, <2>1
  <2>3. Intact(wire', accepted', OutOfOrder')
    BY <2>2 DEF Balanced, Sound
  <2> QED BY <1>1, <1>2, <1>5, <1>8, <2>2, <2>3 DEF EventInv
<1> QED BY <1>4, <1>7, <1>8

(* The response: the head alone is on the wire, or nothing is. *)
LEMMA HeadAlone ==
  ASSUME NEW w, w = [i \in 1..EventHead |-> <<"head", i>>], NEW bad
  PROVE  Intact(w, <<>>, bad) /\ Len(w) = EventHead
<1>1. EventHead \in Nat
  BY Lengths
<1>2. w \in Seq(Byte) /\ Len(w) = EventHead
  <2>1. \A i \in 1..EventHead : <<"head", i>> \in Byte
    BY <1>1 DEF Byte
  <2>2. w \in [1..EventHead -> Byte]
    BY <2>1
  <2> QED BY <1>1, <2>2
<1>3. \A i \in 1..Len(w) : ~IsEvent(w[i]) /\ ~(i > EventHead)
  BY <1>1, <1>2 DEF IsEvent
<1> QED BY <1>1, <1>2, <1>3 DEF Intact

LEMMA EventRequestKeeps ==
  ASSUME NEW admitted \in BOOLEAN, EventInv, EventRequest(admitted), UNCHANGED status
  PROVE  EventInv'
<1>1. /\ source = "asked" /\ UNCHANGED <<events, accepted, ahead, confirmed, status>>
  BY DEF EventRequest
<1>2. /\ wire = <<>> /\ unacked = 0 /\ confirmed = 0 /\ accepted = <<>> /\ events = <<>>
      /\ status = "none" /\ 0 <= SndBuf
  BY <1>1, Lengths DEF EventInv
<1>3. CASE source' = "refused" /\ NoWrite
  BY <1>1, <1>2, <1>3 DEF EventInv, NoWrite
<1> DEFINE head == [i \in 1..EventHead |-> <<"head", i>>]
<1>4. CASE source' = "waiting" /\ \E o \in Outcomes(head) : Write(head, o)
  <2>1. PICK o \in Outcomes(head) : Write(head, o)
    BY <1>4
  <2>2. Intact(head, <<>>, OutOfOrder') /\ Len(head) = EventHead
    BY HeadAlone
  <2>3. head \in Seq(Byte)
    BY <2>2 DEF Intact
  <2> HIDE DEF head
  <2>4. o.taken = 0 \/ o.taken = EventHead
    <3>1. Least(Space, Len(head)) = 0 \/ Least(Space, Len(head)) = EventHead
      BY <1>2, <2>2, Lengths DEF Least, Space
    <3> QED BY <3>1 DEF Outcomes
  <2>5. wire' = <<>> \o SubSeq(head, 1, o.taken) /\ unacked' = 0 + o.taken
    BY <1>2, <2>1 DEF Write
  <2>6. CASE o.taken = 0
    <3>1. SubSeq(head, 1, 0) = <<>>
      BY <2>3
    <3>2. wire' = <<>> /\ unacked' = 0
      BY <2>5, <2>6, <3>1
    <3> QED BY <1>1, <1>2, <1>4, <3>2 DEF EventInv
  <2>7. CASE o.taken = EventHead
    <3>1. SubSeq(head, 1, EventHead) = head /\ <<>> \o head = head
      BY <2>2, <2>3
    <3>2. wire' = head /\ unacked' = EventHead
      BY <2>5, <2>7, <3>1, Lengths
    <3>3. Intact(wire', accepted', OutOfOrder') /\ Len(wire') = EventHead
      BY <1>1, <1>2, <2>2, <3>2
    <3> QED BY <1>1, <1>2, <1>4, <3>2, <3>3, Lengths DEF EventInv
  <2> QED BY <2>4, <2>6, <2>7
<1> QED BY <1>3, <1>4 DEF EventRequest

LEMMA EventOpensKeeps ==
  ASSUME EventInv, EventOpens, UNCHANGED status
  PROVE  EventInv'
<1>1. /\ source = "waiting" /\ source' = "open" /\ UNCHANGED <<wire, unacked, lost, events, accepted, status>>
      /\ ahead' = unacked + confirmed'
  BY DEF EventOpens, AddClient, NoWrite
<1>2. PICK n : n \in 1..confirmed /\ confirmed' = confirmed - n
  BY DEF EventOpens, TakeAcks
<1>3. /\ unacked \in Nat /\ unacked <= SndBuf /\ confirmed \in Nat /\ accepted = <<>> /\ events = <<>>
      /\ (wire = <<>> /\ unacked = 0 /\ confirmed = 0) \/ Len(wire) = EventHead
      /\ wire = <<>> \/ Intact(wire, accepted, OutOfOrder)
  BY <1>1 DEF EventInv
<1>4. status = "none"
  BY <1>1 DEF EventInv
<1>5. n \in Nat /\ confirmed' \in Nat /\ confirmed # 0
  BY <1>2, <1>3
<1>6. Len(wire) = EventHead /\ EventHead \in Nat /\ wire # <<>>
  BY <1>3, <1>5, Lengths
<1>7. Intact(wire, <<>>, OutOfOrder)
  BY <1>3, <1>6
<1>8. ahead' \in Nat /\ CreditSoFar' = 0
  <2>1. \A h, u, c \in Nat : u + c \in Nat /\ h - h - u - c + (u + c) = 0
    OBVIOUS
  <2>2. unacked + confirmed' \in Nat /\ EventHead - EventHead - unacked - confirmed' + (unacked + confirmed') = 0
    <3>1. unacked \in Nat /\ confirmed' \in Nat /\ EventHead \in Nat
      BY <1>3, <1>5, <1>6
    <3> QED BY <2>1, <3>1, Zenon
  <2>3. CreditSoFar' = Len(wire') - EventHead - unacked' - confirmed' + ahead'
    BY DEF CreditSoFar
  <2>4. Len(wire') = EventHead /\ unacked' = unacked /\ ahead' = unacked + confirmed'
    BY <1>1, <1>6
  <2> QED BY <2>2, <2>3, <2>4
<1>9. Sums([i \in 0..0 |-> 0], <<>>)
  BY DEF Sums
<1>10. Paid(<<>>, <<>>, [i \in 0..0 |-> 0], 0)
  BY DEF Paid, FrontAcked
<1>11. Sound(<<>>, wire, <<>>, OutOfOrder)
  BY <1>7 DEF Sound, Lined, OutOfOrder
<1>12. Balanced(<<>>, wire, <<>>, OutOfOrder, ahead', 0)
  <2>1. 0 <= Len(wire) - EventHead + ahead'
    <3>1. \A h, a \in Nat : 0 <= h - h + a
      OBVIOUS
    <3> QED BY <1>6, <1>8, <3>1
  <2>2. Len(<<>>) - Len(<<>>) = 0
    OBVIOUS
  <2> QED BY <1>8, <1>9, <1>10, <1>11, <2>1, <2>2 DEF Balanced
<1>13. OutOfOrder' = OutOfOrder
  BY <1>1 DEF OutOfOrder
<1>14. Balanced(events', wire', accepted', OutOfOrder', ahead', CreditSoFar')
  BY <1>1, <1>3, <1>8, <1>12, <1>13
<1> QED BY <1>1, <1>3, <1>4, <1>5, <1>7, <1>13, <1>14 DEF EventInv

LEMMA EventsEndKeeps ==
  ASSUME EventInv, EventsEnd, UNCHANGED status
  PROVE  EventInv'
<1>1. /\ source \in {"waiting", "open"} /\ source' = "gone" /\ confirmed' = 0
      /\ UNCHANGED <<wire, unacked, lost, accepted, ahead, status>>
  BY DEF EventsEnd, CloseStream
<1>2. OutOfOrder' = OutOfOrder
  BY <1>1 DEF OutOfOrder
<1> QED BY <1>1, <1>2 DEF EventInv

LEMMA EventAcksKeep ==
  ASSUME EventInv, PeerAcks, UNCHANGED <<eventVars, status>>
  PROVE  EventInv'
<1> SUFFICES ASSUME source # "none" PROVE EventInv'
  BY DEF EventInv, eventVars
<1>1. /\ unacked \in Nat /\ unacked <= SndBuf /\ confirmed \in Nat
      /\ source = "open" => Balanced(events, wire, accepted, OutOfOrder, ahead, CreditSoFar)
  BY DEF EventInv
<1>2. PICK n \in 1..unacked : unacked' = unacked - n /\ confirmed' = confirmed + n
  BY DEF PeerAcks
<1>3. UNCHANGED <<source, events, publish, accepted, ahead, status, wire, lost>>
  BY DEF PeerAcks, eventVars
<1>4. n \in Nat /\ n <= unacked /\ n > 0
  BY <1>1, <1>2
<1>5. unacked' \in Nat /\ unacked' <= SndBuf /\ confirmed' \in Nat /\ unacked # 0
  BY <1>1, <1>2, <1>4, Lengths
<1>6. OutOfOrder' = OutOfOrder
  BY <1>3 DEF OutOfOrder
<1>7. source = "open" => Balanced(events', wire', accepted', OutOfOrder', ahead', CreditSoFar')
  <2> SUFFICES ASSUME source = "open"
               PROVE  Balanced(events', wire', accepted', OutOfOrder', ahead', CreditSoFar')
    OBVIOUS
  <2>1. Balanced(events, wire, accepted, OutOfOrder, ahead, CreditSoFar)
    BY <1>1
  <2>2. CreditSoFar' = CreditSoFar
    <3>1. Len(wire) \in Nat /\ ahead \in Nat
      BY <2>1 DEF Balanced, Sound, Intact
    <3>3. Len(wire) - EventHead - (unacked - n) - (confirmed + n) + ahead
            = Len(wire) - EventHead - unacked - confirmed + ahead
      <4>1. /\ Len(wire) \in Nat /\ ahead \in Nat /\ unacked \in Nat /\ confirmed \in Nat /\ n \in Nat
            /\ EventHead \in Nat
        BY <1>1, <1>4, <3>1, Lengths
      <4>2. PICK l \in Nat, a \in Nat, h \in Nat : l = Len(wire) /\ a = ahead /\ h = EventHead
        BY <4>1
      <4>3. PICK u \in Nat, c \in Nat, k \in Nat : u = unacked /\ c = confirmed /\ k = n
        BY <4>1
      <4>4. l - h - (u - k) - (c + k) + a = l - h - u - c + a
        OBVIOUS
      <4> QED BY <4>2, <4>3, <4>4
    <3>4. CreditSoFar' = Len(wire') - EventHead - unacked' - confirmed' + ahead'
      BY DEF CreditSoFar
    <3> QED BY <1>2, <1>3, <3>3, <3>4 DEF CreditSoFar
  <2> QED BY <1>3, <1>6, <2>1, <2>2
<1>8. UNCHANGED <<source, status, accepted, events, wire>>
  BY <1>3
<1> QED BY <1>5, <1>6, <1>7, <1>8 DEF EventInv

LEMMA EventStays ==
  ASSUME EventInv, UNCHANGED <<stream, eventVars, status>>
  PROVE  EventInv'
<1>1. /\ UNCHANGED <<source, events, accepted, ahead, status>>
      /\ UNCHANGED <<wire, unacked, confirmed, lost>>
  BY DEF stream, eventVars
<1>2. OutOfOrder' = OutOfOrder
  BY <1>1 DEF OutOfOrder
<1>3. CreditSoFar' = CreditSoFar
  BY <1>1 DEF CreditSoFar
<1> QED BY <1>1, <1>2, <1>3 DEF EventInv

LEMMA EventStarts ==
  ASSUME Init
  PROVE  EventInv
<1>1. CASE \E s \in Scenarios :
             /\ StreamInit(Faults - s.faults) /\ NoServer
             /\ IF s.events > 0 THEN EventInit(s.events) /\ NoSocket ELSE SocketInit(s) /\ NoSource
  <2>1. PICK s \in Scenarios :
          /\ StreamInit(Faults - s.faults) /\ NoServer
          /\ IF s.events > 0 THEN EventInit(s.events) /\ NoSocket ELSE SocketInit(s) /\ NoSource
    BY <1>1
  <2>2. CASE EventInit(s.events) /\ NoSocket
    BY <2>1, <2>2, Lengths DEF EventInv, EventInit, NoSocket, StreamInit
  <2>3. CASE NoSource
    BY <2>3 DEF EventInv, NoSource
  <2> QED BY <2>1, <2>2, <2>3
<1>2. CASE NoSource
  BY <1>2 DEF EventInv, NoSource
<1> QED BY <1>1, <1>2 DEF Init

LEMMA NoSourceStays ==
  ASSUME source = "none", [Next]_vars
  PROVE  source' = "none"
<1>1. CASE EventNext
  BY <1>1 DEF EventNext, EventRequest, SendEvent, EventOpens, AddClient, EventAck, EventPoll, EventsEnd, eventVars
<1>2. CASE UNCHANGED source
  BY <1>2
<1> QED BY <1>1, <1>2 DEF Next, vars, eventVars

(* Without a socket nothing is sent to one or by one. *)
LEMMA NotOfASocket ==
  ASSUME status = "none", SocketNext
  PROVE  PeerAcks /\ UNCHANGED socketVars
<1>1. ~Open
  BY DEF Open
<1>2. ASSUME NEW v, NEW key, NEW admitted PROVE ~SocketRequest(v, key, admitted)
  BY <1>1 DEF SocketRequest
<1>3. ~SocketOpens /\ ~SocketEnds
  BY <1>1 DEF SocketOpens, SocketEnds
<1>4. ~SocketAck /\ ~SocketPoll /\ ~SocketSegment /\ ~SocketData
  BY <1>1, Zenon DEF SocketAck, SocketPoll, SocketSegment, SocketData
<1>5. ~SendMessage /\ ~SendFailsToCopy /\ ~PrintFails /\ ~SendControl
  <2>1. ~(status = "connected")
    BY <1>1
  <2> QED BY <2>1, Zenon DEF SendMessage, SendFailsToCopy, PrintFails, SendControl
<1> QED BY <1>2, <1>3, <1>4, <1>5, Zenon DEF SocketNext

LEMMA EventStep ==
  ASSUME EventInv, [Next]_vars
  PROVE  EventInv'
<1>1. CASE source = "none"
  BY <1>1, NoSourceStays DEF EventInv
<1> SUFFICES ASSUME source # "none" PROVE EventInv'
  BY <1>1
<1>2. CASE EventNext /\ UNCHANGED <<socketVars, serverVars>>
  <2>1. UNCHANGED status
    BY <1>2 DEF socketVars
  <2>2. CASE \E admitted \in BOOLEAN : EventRequest(admitted)
    BY <2>1, <2>2, EventRequestKeeps
  <2>3. CASE \E len \in EventLengths, failing \in BOOLEAN : SendEvent(len, failing)
    BY <2>1, <2>3, SendEventKeeps
  <2>4. CASE EventOpens
    BY <2>1, <2>4, EventOpensKeeps
  <2>5. CASE EventAck
    BY <2>1, <2>5, EventAckKeeps
  <2>6. CASE EventPoll
    BY <2>1, <2>6, EventPollKeeps
  <2>7. CASE EventsEnd
    BY <2>1, <2>7, EventsEndKeeps
  <2>8. CASE PeerAcks /\ UNCHANGED eventVars
    BY <2>1, <2>8, EventAcksKeep
  <2> QED BY <1>2, <2>2, <2>3, <2>4, <2>5, <2>6, <2>7, <2>8 DEF EventNext
<1>3. CASE SocketNext /\ UNCHANGED <<eventVars, serverVars>>
  <2>1. PeerAcks /\ UNCHANGED socketVars
    BY <1>3, NotOfASocket DEF EventInv
  <2>2. UNCHANGED status
    BY <2>1 DEF socketVars
  <2> QED BY <1>3, <2>1, <2>2, EventAcksKeep
<1>4. CASE ServerNext /\ UNCHANGED <<stream, eventVars, socketVars>>
  <2>1. UNCHANGED <<stream, eventVars, status>>
    BY <1>4 DEF socketVars
  <2> QED BY <2>1, EventStays
<1>5. CASE UNCHANGED vars
  <2>1. UNCHANGED <<stream, eventVars, status>>
    BY <1>5 DEF vars, socketVars
  <2> QED BY <2>1, EventStays
<1> QED BY <1>2, <1>3, <1>4, <1>5 DEF Next

(* The events that wait, those on the wire and those that are gone agree   *)
(* with what was queued and with what was acknowledged, whatever order the *)
(* acknowledgements, the polls and the failures come in.                   *)
THEOREM EventInvariant == Spec => []EventInv
<1>1. Init => EventInv
  BY EventStarts
<1>2. EventInv /\ [Next]_vars => EventInv'
  BY EventStep
<1> QED BY <1>1, <1>2, PTL DEF Spec

LEMMA EventsAreIntact ==
  ASSUME EventInv
  PROVE  EventsIntact
<1> SUFFICES ASSUME source # "none"
             PROVE  /\ \A i \in DOMAIN wire : EventAt(i) =>
                         LET e == wire[i][2]
                             start == i - wire[i][3]
                         IN  \A k \in 1..accepted[e] :
                               start + k \in DOMAIN wire /\ wire[start + k] = <<"event", e, k>>
                    /\ \A i, j \in DOMAIN wire : (EventAt(i) /\ EventAt(j) /\ i < j) =>
                         \/ wire[i][2] < wire[j][2]
                         \/ wire[i][2] = wire[j][2] /\ wire[i][3] < wire[j][3]
                         \/ Passes(wire[i][2], wire[j][2])
                    /\ source = "open" =>
                         \A e \in DOMAIN accepted :
                           \/ Queued(e) \/ OnWire(e) \/ accepted[e] <= ahead
                           \/ \E d \in DOMAIN accepted : Passes(d, e) /\ OnWire(d)
  BY Zenon DEF EventsIntact
<1>1. CASE wire = <<>>
  <2>1. source = "open" => Len(wire) >= EventHead
    BY DEF EventInv, Balanced, Sound, Intact
  <2>2. source # "open" /\ DOMAIN wire = {}
    BY <1>1, <2>1, Lengths
  <2> QED BY <2>2
<1>2. CASE wire # <<>>
  <2>1. Intact(wire, accepted, OutOfOrder) /\ wire \in Seq(Byte) /\ DOMAIN wire = 1..Len(wire)
    BY <1>2 DEF EventInv, Intact
  <2>2. ASSUME NEW i PROVE EventAt(i) <=> IsEvent(wire[i])
    BY DEF EventAt, IsEvent
  <2>3. ASSUME NEW d, NEW e PROVE Passes(d, e) <=> Beats(accepted, OutOfOrder, d, e)
    BY DEF Passes, Beats, OutOfOrder
  <2>4. ASSUME NEW e PROVE OnWire(e) <=> On(wire, e)
    BY <2>1, <2>2 DEF OnWire, On
  <2>5. ASSUME NEW i \in DOMAIN wire, EventAt(i), NEW k \in 1..accepted[wire[i][2]]
        PROVE  /\ i - wire[i][3] + k \in DOMAIN wire
               /\ wire[i - wire[i][3] + k] = <<"event", wire[i][2], k>>
    <3>1. Spelled(wire, accepted, i)
      BY <2>1, <2>2, <2>5 DEF Intact
    <3> QED BY <2>1, <3>1 DEF Spelled
  <2>6. ASSUME NEW i \in DOMAIN wire, NEW j \in DOMAIN wire, EventAt(i), EventAt(j), i < j
        PROVE  \/ wire[i][2] < wire[j][2]
               \/ wire[i][2] = wire[j][2] /\ wire[i][3] < wire[j][3]
               \/ Passes(wire[i][2], wire[j][2])
    <3>1. InTurn(wire, accepted, OutOfOrder, i, j)
      BY <2>1, <2>2, <2>6 DEF Intact
    <3> QED BY <2>3, <3>1 DEF InTurn
  <2>7. ASSUME source = "open", NEW e \in DOMAIN accepted
        PROVE  \/ Queued(e) \/ OnWire(e) \/ accepted[e] <= ahead
               \/ \E d \in DOMAIN accepted : Passes(d, e) /\ OnWire(d)
    <3>1. /\ Balanced(events, wire, accepted, OutOfOrder, ahead, CreditSoFar) /\ Lined(events, accepted)
          /\ accepted \in Seq(Nat) /\ Len(accepted) \in Nat /\ events \in Seq(EventMessage)
          /\ Len(events) \in Nat /\ Len(events) <= Len(accepted)
      <4>1. Balanced(events, wire, accepted, OutOfOrder, ahead, CreditSoFar)
        BY <2>7 DEF EventInv
      <4>2. Lined(events, accepted)
        BY <4>1 DEF Balanced, Sound
      <4> QED BY <4>1, <4>2 DEF Lined
    <3>2. e \in 1..Len(accepted) /\ DOMAIN accepted = 1..Len(accepted) /\ DOMAIN events = 1..Len(events)
      BY <3>1
    <3>3. CASE e \in 1..(Len(accepted) - Len(events))
      <4>1. GoneFor(wire, accepted, OutOfOrder, ahead, e)
        BY <3>1, <3>3 DEF Balanced
      <4> QED BY <2>3, <2>4, <3>2, <4>1 DEF GoneFor
    <3>4. CASE e \notin 1..(Len(accepted) - Len(events))
      <4>1. PICK i : i = e - (Len(accepted) - Len(events))
        OBVIOUS
      <4>2. i \in 1..Len(events) /\ Len(accepted) - Len(events) + i = e
        <5>1. PICK l \in Nat, n \in Nat : l = Len(accepted) /\ n = Len(events) /\ n <= l
          BY <3>1
        <5>2. e \in 1..l /\ e \notin 1..(l - n) /\ i = e - (l - n)
          BY <3>2, <3>4, <4>1, <5>1
        <5>3. i \in 1..n /\ l - n + i = e
          BY <5>1, <5>2
        <5> QED BY <5>1, <5>3
      <4>3. events[i].event = e
        BY <3>1, <4>2 DEF Lined
      <4> QED BY <3>2, <4>2, <4>3 DEF Queued
    <3> QED BY <3>3, <3>4
  <2> QED BY <2>5, <2>6, <2>7
<1> QED BY <1>1, <1>2

(* An event that reaches the wire is there whole, once and in its turn;    *)
(* only one that a later one has passed, or that is no longer than what    *)
(* was acknowledged of the head too late, can be dropped.                  *)
THEOREM EventsKeptIntact == Spec => []EventsIntact
<1>1. EventInv => EventsIntact
  BY EventsAreIntact
<1> QED BY <1>1, EventInvariant, PTL

-----------------------------------------------------------------------------
(* The queues of one web socket, its frames on the wire, and what its      *)
(* acknowledgements are credited to                                        *)

Ops == {"text", "continuation", "ping", "pong", "close"}
Letter ==
  [id : Nat, len : Nat, multi : BOOLEAN, sent : Nat, ack : Nat, acked : Nat,
   state : {"sending", "sent", "error"}]
ControlFrame == [op : Ops, len : Nat, finished : BOOLEAN]
SocketByte ==
  [head : Nat] \cup [op : Ops, final : BOOLEAN, len : Nat] \cup [message : Nat, at : Nat]
    \cup [control : Ops]
OfMessage(b) == "message" \in DOMAIN b

(* A message is finished when all of its frames have been acknowledged. *)
Accounted(m) ==
  /\ m.sent <= m.len /\ m.acked <= m.ack /\ (m.len = 0 => m.ack = 0)
  /\ m.state = "sending" /\ m.sent = m.len /\ m.len > 0 => m.acked < m.ack
  /\ m.state # "sending" => m.acked = m.ack /\ m.sent = m.len
Going(m) == m.len > 0 => m.state = "sending"
Untouched(m) == m.sent = 0 /\ m.ack = 0 /\ m.acked = 0 /\ Going(m)

(* Messages are sent one after the other. *)
InLine(ms, top) ==
  /\ ms \in Seq(Letter) /\ top \in Nat
  /\ \A i \in 1..Len(ms) : ms[i].id \in 1..top /\ Accounted(ms[i]) /\ (i > 1 => Untouched(ms[i]))
  /\ \A i, j \in 1..Len(ms) : i < j => ms[i].id < ms[j].id
FrontGoing(ms) == ms # <<>> => Going(ms[1])

ControlsInLine(cs) ==
  /\ cs \in Seq(ControlFrame)
  /\ \A i \in 1..Len(cs) : cs[i].len <= ShortFrame /\ (i > 1 => ~cs[i].finished)

(* The first s bytes of a message, and no more, are on the wire, in order. *)
BytesOf(w, m) == {i \in 1..Len(w) : OfMessage(w[i]) /\ w[i].message = m}
SentUpTo(w, m, s) ==
  /\ \A k \in 1..s : \E b \in BytesOf(w, m) : w[b].at = k
  /\ \A b \in BytesOf(w, m) : w[b].at \in 1..s
  /\ \A b, c \in BytesOf(w, m) : b < c => w[b].at < w[c].at

OnTheWire(w, ms, top) ==
  /\ w \in Seq(SocketByte)
  /\ \A i \in 1..Len(w) : OfMessage(w[i]) =>
       w[i].message \in 1..top /\ (ms # <<>> => w[i].message <= ms[1].id)
  /\ ms # <<>> => SentUpTo(w, ms[1].id, ms[1].sent)

(* What is not acknowledged yet is of the control frame at the front and   *)
(* of the message at the front.                                            *)
OwedControl(cs) == IF cs # <<>> /\ cs[1].finished THEN cs[1].len + 2 ELSE 0
OwedMessage(ms) == IF ms # <<>> THEN ms[1].ack - ms[1].acked ELSE 0
Tallied(ms, cs, w, owed, top) ==
  /\ InLine(ms, top) /\ ControlsInLine(cs) /\ OnTheWire(w, ms, top)
  /\ owed \in Nat /\ owed = OwedControl(cs) + OwedMessage(ms)

LEMMA SocketLengths ==
  /\ ShortFrame \in Nat /\ SndBuf \in Nat /\ SocketHead \in Nat /\ Messages \in Nat
  /\ MessageLengths \subseteq Nat /\ SocketQueueLimit \in Nat
BY SocketAssumption, StreamAssumption

(* What is a byte of a message, and what is not *)
LEMMA Kinds ==
  /\ \A b \in [message : Nat, at : Nat] : OfMessage(b)
  /\ \A b \in [head : Nat] : ~OfMessage(b)
  /\ \A b \in [op : Ops, final : BOOLEAN, len : Nat] : ~OfMessage(b)
  /\ \A b \in [control : Ops] : ~OfMessage(b)
BY DEF OfMessage

LEMMA TheHeader ==
  ASSUME NEW op \in Ops, NEW final \in BOOLEAN, NEW n \in Nat
  PROVE  /\ Header(op, final, n) \in Seq(SocketByte) /\ Len(Header(op, final, n)) = HeaderLength(n)
         /\ HeaderLength(n) \in 2..4 /\ (n <= ShortFrame => HeaderLength(n) = 2)
         /\ \A i \in 1..HeaderLength(n) : ~OfMessage(Header(op, final, n)[i])
<1>1. HeaderLength(n) \in 2..4 /\ (n <= ShortFrame => HeaderLength(n) = 2)
  BY SocketLengths DEF HeaderLength
<1> DEFINE b == [op |-> op, final |-> final, len |-> n]
<1>2. b \in [op : Ops, final : BOOLEAN, len : Nat]
  OBVIOUS
<1>3. b \in SocketByte /\ ~OfMessage(b)
  BY <1>2, Kinds DEF SocketByte
<1> HIDE DEF b
<1>4. Header(op, final, n) = [i \in 1..HeaderLength(n) |-> b]
  BY DEF Header, b
<1> QED BY <1>1, <1>3, <1>4

LEMMA ThePayload ==
  ASSUME NEW m \in Letter, NEW n \in Nat
  PROVE  /\ Payload(m, n) \in Seq(SocketByte) /\ Len(Payload(m, n)) = n
         /\ \A i \in 1..n : /\ OfMessage(Payload(m, n)[i]) /\ Payload(m, n)[i].message = m.id
                            /\ Payload(m, n)[i].at = m.sent + i
<1>1. m.id \in Nat /\ m.sent \in Nat
  BY DEF Letter
<1>2. \A i \in 1..n : /\ [message |-> m.id, at |-> m.sent + i] \in SocketByte
                      /\ OfMessage([message |-> m.id, at |-> m.sent + i])
  BY <1>1 DEF SocketByte, OfMessage
<1>3. Payload(m, n) \in [1..n -> SocketByte]
  BY <1>2 DEF Payload
<1>4. \A i \in 1..n : Payload(m, n)[i] = [message |-> m.id, at |-> m.sent + i]
  BY DEF Payload
<1> QED BY <1>2, <1>3, <1>4

LEMMA JoinedSocketBytes ==
  ASSUME NEW s \in Seq(SocketByte), NEW t \in Seq(SocketByte)
  PROVE  /\ s \o t \in Seq(SocketByte) /\ Len(s \o t) = Len(s) + Len(t)
         /\ \A i \in 1..Len(s) : (s \o t)[i] = s[i]
         /\ \A i \in 1..Len(t) : (s \o t)[Len(s) + i] = t[i]
  BY Joined

(* A frame: its header, and then n bytes of a message, from a position on *)
FrameOf(v, m, s, k, n) ==
  /\ v \in Seq(SocketByte) /\ Len(v) = k + n /\ k \in Nat /\ n \in Nat /\ s \in Nat
  /\ \A i \in 1..k : ~OfMessage(v[i])
  /\ \A i \in 1..n : OfMessage(v[k + i]) /\ v[k + i].message = m /\ v[k + i].at = s + i

(* What the bytes behind the first l are *)
Lengthened(x, w, l, m, s, k, n) ==
  /\ x \in Seq(SocketByte) /\ Len(x) = l + k + n
  /\ \A i \in 1..l : x[i] = w[i]
  /\ \A i \in 1..Len(x) : i > l /\ OfMessage(x[i]) =>
       \E j \in 1..n : i = l + k + j /\ x[i].message = m /\ x[i].at = s + j
  /\ \A j \in 1..n : /\ l + k + j \in 1..Len(x) /\ OfMessage(x[l + k + j])
                     /\ x[l + k + j].message = m /\ x[l + k + j].at = s + j

LEMMA BytesBehind ==
  ASSUME NEW w \in Seq(SocketByte), NEW v, NEW m, NEW s, NEW k, NEW n, FrameOf(v, m, s, k, n),
         NEW l \in Nat, l = Len(w)
  PROVE  Lengthened(w \o v, w, l, m, s, k, n)
<1>1. v \in Seq(SocketByte) /\ Len(v) = k + n /\ k \in Nat /\ n \in Nat
  BY DEF FrameOf
<1>2. /\ w \o v \in Seq(SocketByte) /\ Len(w \o v) = Len(w) + Len(v)
      /\ \A i \in 1..Len(w) : (w \o v)[i] = w[i]
      /\ \A i \in 1..Len(v) : (w \o v)[Len(w) + i] = v[i]
  BY <1>1, JoinedSocketBytes, Zenon
<1> DEFINE x == w \o v
<1> HIDE DEF x
<1>4. Len(x) = l + (k + n) /\ \A i \in 1..(k + n) : x[l + i] = v[i]
  BY <1>1, <1>2 DEF x
<1>5. ASSUME NEW i \in 1..Len(x), i > l, OfMessage(x[i])
      PROVE  \E j \in 1..n : i = l + k + j /\ x[i].message = m /\ x[i].at = s + j
  <2>1. i - l \in 1..(k + n) /\ l + (i - l) = i
    BY <1>1, <1>4, <1>5
  <2>2. x[i] = v[i - l]
    BY <1>4, <2>1
  <2>3. ~(i - l \in 1..k)
    BY <1>5, <2>2 DEF FrameOf
  <2>4. i - l - k \in 1..n /\ k + (i - l - k) = i - l
    BY <1>1, <2>1, <2>3
  <2>5. PICK j \in 1..n : j = i - l - k
    BY <2>4
  <2>6. v[k + j].message = m /\ v[k + j].at = s + j
    BY DEF FrameOf
  <2>7. k + j = i - l /\ i = l + k + j
    BY <1>1, <2>1, <2>5
  <2> QED BY <2>2, <2>6, <2>7
<1>6. ASSUME NEW j \in 1..n
      PROVE  /\ l + k + j \in 1..Len(x) /\ OfMessage(x[l + k + j])
             /\ x[l + k + j].message = m /\ x[l + k + j].at = s + j
  <2>1. k + j \in 1..(k + n) /\ l + (k + j) = l + k + j /\ l + k + j \in 1..(l + (k + n))
    BY <1>1
  <2>2. x[l + k + j] = v[k + j]
    BY <1>4, <2>1
  <2>3. OfMessage(v[k + j]) /\ v[k + j].message = m /\ v[k + j].at = s + j
    BY DEF FrameOf
  <2> QED BY <1>4, <2>1, <2>2, <2>3
<1>7. x \in Seq(SocketByte) /\ Len(x) = l + k + n /\ \A i \in 1..l : x[i] = w[i]
  BY <1>1, <1>2, <1>4 DEF x
<1> QED BY <1>5, <1>6, <1>7, Zenon DEF x, Lengthened

LEMMA SentOn ==
  ASSUME NEW w \in Seq(SocketByte), NEW v, NEW m, NEW s, NEW k, NEW n, FrameOf(v, m, s, k, n),
         SentUpTo(w, m, s)
  PROVE  SentUpTo(w \o v, m, s + n)
<1> DEFINE x == w \o v
<1>1. k \in Nat /\ n \in Nat /\ s \in Nat
  BY DEF FrameOf
<1>2. PICK l \in Nat : l = Len(w)
  OBVIOUS
<1>3. Lengthened(x, w, l, m, s, k, n)
  BY <1>2, BytesBehind, Zenon
<1> HIDE DEF x
<1>4. ASSUME NEW b \in BytesOf(x, m)
      PROVE  \/ b \in BytesOf(w, m) /\ b <= l /\ x[b].at = w[b].at /\ w[b].at \in 1..s
             \/ \E j \in 1..n : b = l + k + j /\ x[b].at = s + j
  <2>1. b \in 1..Len(x) /\ OfMessage(x[b]) /\ x[b].message = m
    BY DEF BytesOf
  <2>2. CASE b <= l
    <3>1. b \in 1..l
      BY <1>1, <1>3, <2>1, <2>2 DEF Lengthened
    <3>2. x[b] = w[b]
      BY <1>3, <3>1 DEF Lengthened
    <3>3. b \in BytesOf(w, m)
      BY <1>2, <2>1, <3>1, <3>2 DEF BytesOf
    <3> QED BY <2>2, <3>2, <3>3 DEF SentUpTo
  <2>3. CASE b > l
    BY <1>3, <2>1, <2>3 DEF Lengthened
  <2> QED BY <1>1, <1>3, <2>1, <2>2, <2>3
<1>5. ASSUME NEW i \in 1..(s + n) PROVE \E b \in BytesOf(x, m) : x[b].at = i
  <2>1. CASE i <= s
    <3>1. PICK b \in BytesOf(w, m) : w[b].at = i
      <4>1. i \in 1..s
        BY <1>1, <2>1
      <4> QED BY <4>1 DEF SentUpTo
    <3>2. b \in 1..l /\ OfMessage(w[b]) /\ w[b].message = m
      BY <1>2 DEF BytesOf
    <3>3. x[b] = w[b] /\ b \in 1..Len(x)
      BY <1>1, <1>3, <3>2 DEF Lengthened
    <3>4. b \in BytesOf(x, m)
      BY <3>2, <3>3 DEF BytesOf
    <3> QED BY <3>1, <3>3, <3>4
  <2>2. CASE i > s
    <3>1. PICK j \in 1..n : i = s + j
      <4>1. i - s \in 1..n /\ s + (i - s) = i
        BY <1>1, <2>2
      <4> QED BY <4>1
    <3>2. l + k + j \in BytesOf(x, m) /\ x[l + k + j].at = s + j
      BY <1>3 DEF BytesOf, Lengthened
    <3> QED BY <3>1, <3>2
  <2> QED BY <1>1, <2>1, <2>2
<1>6. ASSUME NEW b \in BytesOf(x, m) PROVE x[b].at \in 1..(s + n)
  BY <1>1, <1>4
<1>7. ASSUME NEW b \in BytesOf(x, m), NEW c \in BytesOf(x, m), b < c PROVE x[b].at < x[c].at
  <2>1. CASE c \in BytesOf(w, m) /\ c <= l /\ x[c].at = w[c].at
    <3>1. b \in BytesOf(w, m) /\ x[b].at = w[b].at
      <4>1. b \in Nat /\ c \in Nat
        BY DEF BytesOf
      <4> QED BY <1>1, <1>4, <1>7, <2>1, <4>1
    <3> QED BY <1>7, <2>1, <3>1 DEF SentUpTo
  <2>2. CASE \E j \in 1..n : c = l + k + j /\ x[c].at = s + j
    <3>1. PICK j \in 1..n : c = l + k + j /\ x[c].at = s + j
      BY <2>2
    <3>2. CASE x[b].at = w[b].at /\ w[b].at \in 1..s
      BY <1>1, <3>1, <3>2
    <3>3. CASE \E i \in 1..n : b = l + k + i /\ x[b].at = s + i
      <4>1. PICK i \in 1..n : b = l + k + i /\ x[b].at = s + i
        BY <3>3
      <4>2. i < j
        BY <1>1, <1>7, <3>1, <4>1
      <4> QED BY <1>1, <3>1, <4>1, <4>2
    <3> QED BY <1>4, <3>2, <3>3
  <2> QED BY <1>4, <2>1, <2>2
<1>8. SentUpTo(x, m, s + n)
  BY <1>5, <1>6, <1>7, Zenon DEF SentUpTo
<1> QED BY <1>8 DEF x

(* None of a message is on the wire before it has its turn. *)
LEMMA NoneSent ==
  ASSUME NEW w, NEW m, \A i \in 1..Len(w) : OfMessage(w[i]) => w[i].message # m
  PROVE  SentUpTo(w, m, 0)
<1>1. BytesOf(w, m) = {}
  BY DEF BytesOf
<1> QED BY <1>1 DEF SentUpTo

(* What goes out of the message at the front, or of none, keeps the order. *)
Advances(ms, r, m, s, n) ==
  /\ ms = <<>> => r = <<>>
  /\ ms # <<>> => m = ms[1].id /\ s = ms[1].sent
  /\ n = 0 \/ ms # <<>>
  /\ r # <<>> => r[1].id = m /\ r[1].sent = s + n

LEMMA WireGrows ==
  ASSUME NEW w, NEW ms, NEW top, NEW r, NEW v, NEW m, NEW s, NEW k, NEW n,
         OnTheWire(w, ms, top), InLine(ms, top), InLine(r, top),
         FrameOf(v, m, s, k, n), Advances(ms, r, m, s, n)
  PROVE  OnTheWire(w \o v, r, top) /\ Len(w \o v) = Len(w) + k + n
<1> DEFINE x == w \o v
<1>1. w \in Seq(SocketByte) /\ top \in Nat /\ ms \in Seq(Letter) /\ r \in Seq(Letter)
  BY DEF OnTheWire, InLine
<1>2. PICK l \in Nat : l = Len(w)
  BY <1>1
<1>3. Lengthened(x, w, l, m, s, k, n)
  BY <1>1, <1>2, BytesBehind, Zenon
<1>4. r # <<>> => SentUpTo(x, m, s + n)
  <2> SUFFICES ASSUME r # <<>> PROVE SentUpTo(x, m, s + n)
    OBVIOUS
  <2>1. ms # <<>> /\ m = ms[1].id /\ s = ms[1].sent
    BY DEF Advances
  <2>2. SentUpTo(w, m, s)
    BY <2>1 DEF OnTheWire
  <2> QED BY <1>1, <2>2, SentOn, Zenon
<1> HIDE DEF x
<1>5. k \in Nat /\ n \in Nat /\ s \in Nat
  BY DEF FrameOf
<1>6. ASSUME NEW i \in 1..Len(x), OfMessage(x[i])
      PROVE  x[i].message \in 1..top /\ (r # <<>> => x[i].message <= r[1].id)
  <2>1. CASE i <= l
    <3>1. i \in 1..l /\ x[i] = w[i]
      BY <1>3, <1>5, <2>1 DEF Lengthened
    <3>2. x[i].message \in 1..top /\ (ms # <<>> => x[i].message <= ms[1].id)
      BY <1>2, <1>6, <3>1 DEF OnTheWire
    <3> QED BY <3>2 DEF Advances
  <2>2. CASE i > l
    <3>1. PICK j \in 1..n : x[i].message = m
      BY <1>3, <1>6, <2>2 DEF Lengthened
    <3>2. ms # <<>> /\ m = ms[1].id /\ (r # <<>> => r[1].id = m)
      BY <1>5 DEF Advances
    <3>3. 1 \in 1..Len(ms)
      BY <1>1, <3>2
    <3>4. ms[1].id \in 1..top
      BY <3>3 DEF InLine
    <3> QED BY <1>1, <3>1, <3>2, <3>4
  <2> QED BY <1>2, <1>3, <1>5, <2>1, <2>2 DEF Lengthened
<1>7. OnTheWire(x, r, top)
  <2>1. x \in Seq(SocketByte)
    BY <1>3 DEF Lengthened
  <2>2. r # <<>> => SentUpTo(x, r[1].id, r[1].sent)
    BY <1>4 DEF Advances
  <2> QED BY <1>6, <2>1, <2>2 DEF OnTheWire
<1>8. Len(x) = Len(w) + k + n
  BY <1>2, <1>3 DEF Lengthened
<1> QED BY <1>7, <1>8 DEF x

(* The messages at the front that are finished leave the queue. *)
FinishedAway(ms, r) ==
  /\ \E m \in 1..(Len(ms) + 1) :
       /\ r = SubSeq(ms, m, Len(ms))
       /\ \A i \in 1..(m - 1) : ms[i].state # "sending"
  /\ r # <<>> => r[1].state = "sending"

LEMMA FinishedGo ==
  ASSUME NEW ms \in Seq(Letter)
  PROVE  FinishedAway(ms, Remaining(ms, MessageFinished))
<1> DEFINE I == {i \in DOMAIN ms : ~MessageFinished(ms[i])} \cup {Len(ms) + 1}
<1>1. Len(ms) \in Nat /\ DOMAIN ms = 1..Len(ms)
  OBVIOUS
<1>2. I \in SUBSET Nat /\ I # {} /\ \A i \in I : i \in 1..(Len(ms) + 1)
  BY <1>1
<1>3. Min(I) \in I /\ \A i \in I : Min(I) <= i
  <2> HIDE DEF I
  <2> QED BY <1>2, Smallest
<1>4. PICK m \in I : m = Min(I) /\ \A i \in I : m <= i
  <2> HIDE DEF I
  <2> QED BY <1>3
<1>5. m \in 1..(Len(ms) + 1)
  BY <1>2
<1>6. Remaining(ms, MessageFinished) = SubSeq(ms, m, Len(ms))
  BY <1>4 DEF Remaining
<1>7. \A i \in 1..(m - 1) : i \notin I
  <2> HIDE DEF I
  <2> QED BY <1>4, <1>5
<1>8. \A i \in 1..(m - 1) : ms[i].state # "sending"
  BY <1>1, <1>5, <1>7 DEF MessageFinished
<1>9. SubSeq(ms, m, Len(ms)) # <<>> => SubSeq(ms, m, Len(ms))[1].state = "sending"
  <2> SUFFICES ASSUME SubSeq(ms, m, Len(ms)) # <<>>
               PROVE  SubSeq(ms, m, Len(ms))[1].state = "sending"
    OBVIOUS
  <2>1. m <= Len(ms) /\ SubSeq(ms, m, Len(ms))[1] = ms[m]
    BY <1>1, <1>5
  <2>2. ms[m].state = "sending"
    BY <1>1, <1>5, <2>1 DEF MessageFinished
  <2> QED BY <2>1, <2>2
<1> HIDE DEF I
<1> QED BY <1>5, <1>6, <1>8, <1>9 DEF FinishedAway

(* The same messages are in the queue after as before, but for finished ones. *)
Remain(ms, r) ==
  \A i \in 1..Len(ms) : ms[i].state = "sending" => \E j \in 1..Len(r) : r[j] = ms[i]
Stay(ms, r) ==
  \A i \in 1..Len(ms) : ms[i].state = "sending" => \E j \in 1..Len(r) : r[j].id = ms[i].id

LEMMA AfterFinished ==
  ASSUME NEW ms, NEW r, NEW w, NEW top, InLine(ms, top), OnTheWire(w, ms, top), FinishedAway(ms, r)
  PROVE  /\ InLine(r, top) /\ OnTheWire(w, r, top) /\ OwedMessage(r) = OwedMessage(ms)
         /\ FrontGoing(r) /\ (r # <<>> => r[1].state = "sending") /\ Remain(ms, r)
<1>1. PICK m \in 1..(Len(ms) + 1) :
        r = SubSeq(ms, m, Len(ms)) /\ \A i \in 1..(m - 1) : ms[i].state # "sending"
  BY DEF FinishedAway
<1>2. ms \in Seq(Letter) /\ top \in Nat
  BY DEF InLine
<1>3. PICK l \in Nat : l = Len(ms)
  BY <1>2
<1>4. /\ r \in Seq(Letter) /\ Len(r) = l - m + 1 /\ m \in 1..(l + 1)
      /\ \A i \in 1..(l - m + 1) : r[i] = ms[m - 1 + i] /\ m - 1 + i \in 1..l
  BY <1>1, <1>2, <1>3
<1>5. r # <<>> => m \in 1..l /\ r[1] = ms[m]
  BY <1>4
<1>6. InLine(r, top)
  <2>1. ASSUME NEW i \in 1..Len(r)
        PROVE  r[i].id \in 1..top /\ Accounted(r[i]) /\ (i > 1 => Untouched(r[i]))
    <3>1. r[i] = ms[m - 1 + i] /\ m - 1 + i \in 1..Len(ms) /\ (i > 1 => m - 1 + i > 1)
      BY <1>3, <1>4
    <3> QED BY <3>1 DEF InLine
  <2>2. ASSUME NEW i \in 1..Len(r), NEW j \in 1..Len(r), i < j PROVE r[i].id < r[j].id
    <3>1. /\ r[i] = ms[m - 1 + i] /\ m - 1 + i \in 1..Len(ms)
          /\ r[j] = ms[m - 1 + j] /\ m - 1 + j \in 1..Len(ms) /\ m - 1 + i < m - 1 + j
      BY <1>3, <1>4, <2>2
    <3> QED BY <3>1 DEF InLine
  <2> QED BY <1>2, <1>4, <2>1, <2>2 DEF InLine
<1>7. r # <<>> => r[1].state = "sending"
  BY DEF FinishedAway
<1>8. Remain(ms, r)
  <2> SUFFICES ASSUME NEW i \in 1..Len(ms), ms[i].state = "sending"
               PROVE  \E j \in 1..Len(r) : r[j] = ms[i]
    BY DEF Remain
  <2>1. ~(i \in 1..(m - 1))
    BY <1>1
  <2>2. i - m + 1 \in 1..(l - m + 1) /\ m - 1 + (i - m + 1) = i
    BY <1>3, <1>4, <2>1
  <2> QED BY <1>4, <2>2
<1>9. m = 1 => r = ms
  BY <1>1, <1>2
<1>10. ASSUME m > 1
       PROVE  /\ ms # <<>> /\ ms[1].acked = ms[1].ack /\ ms[1].ack \in Nat
              /\ r # <<>> => r[1].ack = 0 /\ r[1].acked = 0 /\ r[1].sent = 0 /\ ms[1].id < r[1].id
  <2>1. 1 \in 1..(m - 1) /\ 1 \in 1..Len(ms)
    BY <1>3, <1>4, <1>10
  <2>2. Accounted(ms[1]) /\ ms[1].state # "sending" /\ ms[1] \in Letter
    BY <1>1, <1>2, <2>1 DEF InLine
  <2>3. ms[1].acked = ms[1].ack /\ ms[1].ack \in Nat
    BY <2>2 DEF Accounted, Letter
  <2>4. r # <<>> => m \in 1..Len(ms) /\ r[1] = ms[m]
    BY <1>3, <1>5
  <2>5. r # <<>> => Untouched(ms[m]) /\ ms[1].id < ms[m].id
    BY <1>10, <2>1, <2>4 DEF InLine
  <2> QED BY <2>1, <2>3, <2>4, <2>5 DEF Untouched
<1>11. OwedMessage(r) = OwedMessage(ms)
  <2>1. CASE m = 1
    BY <1>9, <2>1
  <2>2. CASE m > 1
    BY <1>10, <2>2 DEF OwedMessage
  <2> QED BY <1>4, <2>1, <2>2
<1>12. OnTheWire(w, r, top)
  <2>1. CASE m = 1
    BY <1>9, <2>1
  <2>2. CASE m > 1
    <3>1. w \in Seq(SocketByte) /\ \A i \in 1..Len(w) : OfMessage(w[i]) =>
            w[i].message \in 1..top /\ w[i].message <= ms[1].id
      BY <1>10, <2>2 DEF OnTheWire
    <3>2. r # <<>> => /\ r[1].sent = 0 /\ ms[1].id \in Nat /\ r[1].id \in Nat
                      /\ ms[1].id < r[1].id
      <4>1. r # <<>> => 1 \in 1..Len(r) /\ 1 \in 1..Len(ms)
        BY <1>2, <1>3, <1>4, <1>5
      <4>2. r # <<>> => r[1].id \in 1..top /\ ms[1].id \in 1..top
        BY <1>6, <4>1 DEF InLine
      <4> QED BY <1>2, <1>10, <2>2, <4>2
    <3>3. r # <<>> => \A i \in 1..Len(w) : OfMessage(w[i]) =>
            w[i].message < r[1].id /\ w[i].message # r[1].id /\ w[i].message <= r[1].id
      BY <1>2, <3>1, <3>2
    <3>4. r # <<>> => SentUpTo(w, r[1].id, r[1].sent)
      BY <3>2, <3>3, NoneSent
    <3> QED BY <3>1, <3>3, <3>4 DEF OnTheWire
  <2> QED BY <1>4, <2>1, <2>2
<1>13. FrontGoing(r)
  BY <1>7 DEF FrontGoing, Going
<1> QED BY <1>6, <1>7, <1>8, <1>11, <1>12, <1>13

(* The message at the front changes and keeps its place. *)
LEMMA FrontChanges ==
  ASSUME NEW ms, NEW top, InLine(ms, top), ms # <<>>,
         NEW x \in Letter, x.id = ms[1].id, Accounted(x)
  PROVE  /\ InLine(<<x>> \o Tail(ms), top) /\ <<x>> \o Tail(ms) # <<>> /\ (<<x>> \o Tail(ms))[1] = x
         /\ Len(<<x>> \o Tail(ms)) = Len(ms)
         /\ \A i \in 1..Len(ms) : (<<x>> \o Tail(ms))[i].id = ms[i].id
<1> DEFINE r == <<x>> \o Tail(ms)
<1>1. ms \in Seq(Letter)
  BY DEF InLine
<1>2. /\ r \in Seq(Letter) /\ Len(r) = Len(ms) /\ r # <<>> /\ r[1] = x
      /\ \A i \in 1..Len(ms) : i > 1 => r[i] = ms[i]
  BY <1>1
<1> HIDE DEF r
<1>3. \A i \in 1..Len(ms) : r[i].id = ms[i].id
  BY <1>2
<1>4. InLine(r, top)
  BY <1>2, <1>3 DEF InLine
<1> QED BY <1>2, <1>3, <1>4 DEF r

LEMMA TheControl ==
  ASSUME NEW c \in ControlFrame, NEW m, NEW s \in Nat, c.len <= ShortFrame
  PROVE  FrameOf(Header(c.op, TRUE, c.len) \o [i \in 1..c.len |-> [control |-> c.op]], m, s, c.len + 2, 0)
<1>1. c.op \in Ops /\ c.len \in Nat
  BY DEF ControlFrame
<1> DEFINE h == Header(c.op, TRUE, c.len)
           d == [i \in 1..c.len |-> [control |-> c.op]]
<1>2. /\ h \in Seq(SocketByte) /\ Len(h) = 2
      /\ \A i \in 1..2 : ~OfMessage(h[i])
  <2>1. TRUE \in BOOLEAN
    OBVIOUS
  <2>2. /\ h \in Seq(SocketByte) /\ Len(h) = HeaderLength(c.len) /\ HeaderLength(c.len) = 2
        /\ \A i \in 1..HeaderLength(c.len) : ~OfMessage(h[i])
    BY <1>1, <2>1, TheHeader, Zenon
  <2> QED BY <2>2
<1>3. /\ d \in Seq(SocketByte) /\ Len(d) = c.len
      /\ \A i \in 1..c.len : ~OfMessage(d[i])
  <2>1. [control |-> c.op] \in [control : Ops]
    BY <1>1
  <2>2. [control |-> c.op] \in SocketByte /\ ~OfMessage([control |-> c.op])
    BY <2>1, Kinds DEF SocketByte
  <2>3. d \in [1..c.len -> SocketByte]
    BY <2>2
  <2> QED BY <1>1, <2>2, <2>3
<1> HIDE DEF h, d
<1>4. /\ h \o d \in Seq(SocketByte) /\ Len(h \o d) = c.len + 2
      /\ \A i \in 1..2 : (h \o d)[i] = h[i]
      /\ \A i \in 1..c.len : (h \o d)[2 + i] = d[i]
  <2>1. /\ h \o d \in Seq(SocketByte) /\ Len(h \o d) = Len(h) + Len(d)
        /\ \A i \in 1..Len(h) : (h \o d)[i] = h[i]
        /\ \A i \in 1..Len(d) : (h \o d)[Len(h) + i] = d[i]
    BY <1>2, <1>3, JoinedSocketBytes, Zenon
  <2> QED BY <1>1, <1>2, <1>3, <2>1
<1>5. ASSUME NEW i \in 1..(c.len + 2) PROVE ~OfMessage((h \o d)[i])
  <2>1. CASE i \in 1..2
    BY <1>2, <1>4, <2>1
  <2>2. CASE i \notin 1..2
    <3>1. i - 2 \in 1..c.len /\ 2 + (i - 2) = i
      BY <1>1, <2>2
    <3> QED BY <1>3, <1>4, <3>1
  <2> QED BY <2>1, <2>2
<1>6. FrameOf(h \o d, m, s, c.len + 2, 0)
  BY <1>1, <1>4, <1>5 DEF FrameOf
<1> QED BY <1>6 DEF h, d

LEMMA ThePart ==
  ASSUME NEW x \in Letter, NEW op \in Ops, NEW final \in BOOLEAN, NEW n \in Nat
  PROVE  FrameOf(Header(op, final, n) \o Payload(x, n), x.id, x.sent, HeaderLength(n), n)
<1> DEFINE h == Header(op, final, n)
           d == Payload(x, n)
<1>1. PICK k \in Nat : k = HeaderLength(n)
  BY TheHeader
<1>2. h \in Seq(SocketByte) /\ Len(h) = k /\ \A i \in 1..k : ~OfMessage(h[i])
  BY <1>1, TheHeader, Zenon
<1>3. /\ d \in Seq(SocketByte) /\ Len(d) = n
      /\ \A i \in 1..n : OfMessage(d[i]) /\ d[i].message = x.id /\ d[i].at = x.sent + i
  BY ThePayload, Zenon
<1> HIDE DEF h, d
<1>4. /\ h \o d \in Seq(SocketByte) /\ Len(h \o d) = k + n
      /\ \A i \in 1..k : (h \o d)[i] = h[i]
      /\ \A i \in 1..n : (h \o d)[k + i] = d[i]
  <2>1. /\ h \o d \in Seq(SocketByte) /\ Len(h \o d) = Len(h) + Len(d)
        /\ \A i \in 1..Len(h) : (h \o d)[i] = h[i]
        /\ \A i \in 1..Len(d) : (h \o d)[Len(h) + i] = d[i]
    BY <1>2, <1>3, JoinedSocketBytes, Zenon
  <2> QED BY <1>1, <1>2, <1>3, <2>1
<1>5. x.sent \in Nat
  BY DEF Letter
<1>6. FrameOf(h \o d, x.id, x.sent, k, n)
  BY <1>1, <1>2, <1>3, <1>4, <1>5 DEF FrameOf
<1> QED BY <1>1, <1>6 DEF h, d

(* What _runQueue() leaves, of a queue ms and of what is owed before *)
RunsOn(ms, owed, top) ==
  /\ \E g \in Nat : unacked' = unacked + g /\ Tallied(messages', controls', wire', owed + g, top)
  /\ FrontGoing(messages') /\ Stay(ms, messages')

(* webSocketSendFrame() without a failure *)
LEMMA WholeFrame ==
  ASSUME NEW header, NEW data, NEW o \in FrameOutcomes(header, data), NEW why, SendFrame(o, why),
         stray' = {}
  PROVE  /\ wire' = wire \o (header \o data) /\ unacked' = unacked + Len(header \o data)
         /\ o.ret = Len(data) /\ why = {}
<1>1. o.fault # 1
  BY DEF SendFrame
<1>2. o = [out |-> header \o data, ret |-> Len(data), fault |-> 0]
  BY <1>1 DEF FrameOutcomes
<1> QED BY <1>2 DEF SendFrame

LEMMA FrontLetter ==
  ASSUME NEW ms \in Seq(Letter), ms # <<>>
  PROVE  /\ 1 \in 1..Len(ms) /\ ms[1] \in Letter
         /\ ms[1].id \in Nat /\ ms[1].len \in Nat /\ ms[1].sent \in Nat
         /\ ms[1].ack \in Nat /\ ms[1].acked \in Nat
<1>1. 1 \in 1..Len(ms)
  OBVIOUS
<1>2. ms[1] \in Letter
  BY <1>1
<1> QED BY <1>1, <1>2 DEF Letter

(* The control frame at the front goes out, between two frames of a message. *)
ControlOut(r, cs, v) ==
  /\ cs # <<>> /\ ~cs[1].finished /\ messages' = r
  /\ controls' = <<[cs[1] EXCEPT !.finished = TRUE]>> \o Tail(cs)
  /\ v = Header(cs[1].op, TRUE, cs[1].len) \o [i \in 1..cs[1].len |-> [control |-> cs[1].op]]
  /\ wire' = wire \o v /\ unacked' = unacked + Len(v)
Between(r) == r # <<>> => r[1].state = "sending" /\ r[1].acked = r[1].ack

LEMMA ControlGoes ==
  ASSUME NEW r, NEW cs, NEW owed, NEW top, unacked \in Nat, Tallied(r, cs, wire, owed, top),
         Between(r), FrontGoing(r), NEW v, ControlOut(r, cs, v)
  PROVE  RunsOn(r, owed, top)
<1>1. /\ InLine(r, top) /\ ControlsInLine(cs) /\ OnTheWire(wire, r, top)
      /\ owed \in Nat /\ owed = OwedControl(cs) + OwedMessage(r)
  BY DEF Tallied
<1>2. cs \in Seq(ControlFrame) /\ \A i \in 1..Len(cs) : cs[i].len <= ShortFrame /\ (i > 1 => ~cs[i].finished)
  BY <1>1 DEF ControlsInLine
<1>3. 1 \in 1..Len(cs) /\ cs[1] \in ControlFrame /\ cs[1].len <= ShortFrame /\ cs[1].len \in Nat
  <2>1. 1 \in 1..Len(cs)
    BY <1>2 DEF ControlOut
  <2>2. cs[1] \in ControlFrame
    BY <1>2, <2>1
  <2> QED BY <1>2, <2>1, <2>2 DEF ControlFrame
<1>4. r \in Seq(Letter)
  BY <1>1 DEF InLine
<1> DEFINE m == IF r = <<>> THEN 0 ELSE r[1].id
           s == IF r = <<>> THEN 0 ELSE r[1].sent
<1>5. s \in Nat /\ Advances(r, r, m, s, 0)
  BY <1>4, FrontLetter DEF Advances
<1> HIDE DEF m, s
<1>6. FrameOf(v, m, s, cs[1].len + 2, 0)
  BY <1>3, <1>5, TheControl DEF ControlOut
<1>7. OnTheWire(wire \o v, r, top)
  BY <1>1, <1>5, <1>6, WireGrows, Zenon
<1>8. Len(v) = cs[1].len + 2
  <2>1. Len(v) = cs[1].len + 2 + 0
    BY <1>6 DEF FrameOf
  <2> QED BY <1>3, <2>1
<1> DEFINE c == [cs[1] EXCEPT !.finished = TRUE]
           ds == <<c>> \o Tail(cs)
<1>9. c \in ControlFrame /\ c.len = cs[1].len /\ c.finished
  BY <1>3 DEF ControlFrame
<1> HIDE DEF c
<1>10. /\ ds \in Seq(ControlFrame) /\ Len(ds) = Len(cs) /\ ds # <<>> /\ ds[1] = c
       /\ \A i \in 1..Len(cs) : i > 1 => ds[i] = cs[i]
  BY <1>2, <1>3, <1>9
<1> HIDE DEF ds
<1>11. ControlsInLine(ds)
  BY <1>2, <1>3, <1>9, <1>10 DEF ControlsInLine
<1>12. OwedControl(ds) = cs[1].len + 2 /\ OwedControl(cs) = 0
  BY <1>9, <1>10 DEF OwedControl, ControlOut
<1>13. OwedMessage(r) = 0
  BY <1>4, FrontLetter DEF OwedMessage, Between
<1>14. /\ controls' = ds /\ messages' = r /\ wire' = wire \o v /\ unacked' = unacked + (cs[1].len + 2)
  BY <1>8 DEF ds, c, ControlOut
<1>15. cs[1].len + 2 \in Nat /\ owed + (cs[1].len + 2) \in Nat /\ owed = 0
  BY <1>1, <1>3, <1>12, <1>13
<1>16. Tallied(r, ds, wire \o v, owed + (cs[1].len + 2), top)
  <2>1. owed + (cs[1].len + 2) = OwedControl(ds) + OwedMessage(r)
    BY <1>3, <1>12, <1>13, <1>15
  <2> QED BY <1>1, <1>7, <1>11, <1>15, <2>1, Zenon DEF Tallied
<1>17. Stay(r, r)
  BY DEF Stay
<1> QED BY <1>14, <1>15, <1>16, <1>17, Zenon DEF RunsOn

(* send() of a message that is empty, *)
EmptyOut(r) ==
  /\ r[1].sent = r[1].len /\ messages' = <<[r[1] EXCEPT !.state = "sent"]>> \o Tail(r)
  /\ UNCHANGED <<wire, unacked>>

(* and of n bytes of one that is not: x is the message after it *)
PartOut(r, n, h, x) ==
  /\ n \in Nat /\ n > 0 /\ r[1].sent + n <= r[1].len
  /\ messages' = <<x>> \o Tail(r) /\ x = [r[1] EXCEPT !.sent = @ + n, !.ack = @ + HeaderLength(n) + n]
  /\ wire' = wire \o (h \o Payload(r[1], n)) /\ unacked' = unacked + Len(h \o Payload(r[1], n))

LEMMA WindowIsInt ==
  ASSUME unacked \in Nat
  PROVE  FrameWindow \in Int
BY SocketLengths DEF FrameWindow, Space

LEMMA MessageOut ==
  ASSUME unacked \in Nat, NEW r \in Seq(Letter), r # <<>>, NEW why, MessageSend(r, why), stray' = {}, FrameWindow > 0
  PROVE  \/ EmptyOut(r)
         \/ \E n, op, final, x : op \in Ops /\ final \in BOOLEAN /\ PartOut(r, n, Header(op, final, n), x)
<1> DEFINE m == r[1]
           n == Least(m.len - m.sent, FrameWindow)
           op == IF m.sent = 0 THEN "text" ELSE "continuation"
           final == (m.sent + n = m.len)
           h == Header(op, final, n)
           d == Payload(m, n)
           x(o) == [m EXCEPT !.sent = @ + o.ret, !.ack = @ + HeaderLength(n) + o.ret]
<1>1. \/ /\ m.sent = m.len /\ messages' = <<[m EXCEPT !.state = "sent"]>> \o Tail(r)
         /\ NoWrite /\ stray' = stray \cup why
      \/ /\ m.sent < m.len
         /\ \E o \in FrameOutcomes(h, d) : SendFrame(o, why) /\ messages' = <<x(o)>> \o Tail(r)
  BY Zenon DEF MessageSend
<1>2. CASE m.sent = m.len /\ messages' = <<[m EXCEPT !.state = "sent"]>> \o Tail(r) /\ NoWrite
  <2>1. UNCHANGED <<wire, unacked>>
    BY <1>2 DEF NoWrite
  <2> QED BY <1>2, <2>1 DEF EmptyOut
<1>3. CASE /\ m.sent < m.len
           /\ \E o \in FrameOutcomes(h, d) : SendFrame(o, why) /\ messages' = <<x(o)>> \o Tail(r)
  <2>1. PICK o \in FrameOutcomes(h, d) : SendFrame(o, why) /\ messages' = <<x(o)>> \o Tail(r)
    BY <1>3
  <2>2. m \in Letter /\ m.len \in Nat /\ m.sent \in Nat
    BY FrontLetter
  <2>3. n \in Nat /\ n > 0 /\ m.sent + n <= m.len
    <3>1. FrameWindow \in Int
      BY WindowIsInt
    <3>2. m.len - m.sent \in Nat /\ m.len - m.sent > 0
      BY <1>3, <2>2
    <3>3. n \in Nat /\ n > 0 /\ n <= m.len - m.sent
      <4>1. \A a \in Nat, f \in Int : a > 0 /\ f > 0 =>
              Least(a, f) \in Nat /\ Least(a, f) > 0 /\ Least(a, f) <= a
        BY DEF Least
      <4> QED BY <3>1, <3>2, <4>1
    <3> HIDE DEF n, m
    <3> QED BY <2>2, <3>3
  <2>4. op \in Ops /\ final \in BOOLEAN
    BY DEF Ops
  <2> HIDE DEF n, op, final
  <2>5. Len(d) = n
    BY <2>2, <2>3, ThePayload
  <2> HIDE DEF h, d
  <2>6. wire' = wire \o (h \o d) /\ unacked' = unacked + Len(h \o d) /\ o.ret = n
    BY <2>1, <2>5, WholeFrame
  <2>7. /\ messages' = <<x(o)>> \o Tail(r)
        /\ x(o) = [m EXCEPT !.sent = @ + n, !.ack = @ + HeaderLength(n) + n]
    BY <2>1, <2>6
  <2>8. PartOut(r, n, h, x(o))
    <3> HIDE DEF x
    <3> QED BY <2>3, <2>6, <2>7, Zenon DEF PartOut, d
  <2>9. op \in Ops /\ final \in BOOLEAN /\ PartOut(r, n, Header(op, final, n), x(o))
    <3> HIDE DEF x
    <3> QED BY <2>4, <2>8, Zenon DEF h
  <2> HIDE DEF x
  <2> QED BY <2>9, Zenon
<1> QED BY <1>1, <1>2, <1>3, Zenon

LEMMA MessageGoes ==
  ASSUME NEW r, NEW cs, NEW owed, NEW top, unacked \in Nat, Tallied(r, cs, wire, owed, top),
         Between(r), r # <<>>, FrameWindow > 0,
         controls' = cs, NEW why, MessageSend(r, why), stray' = {}
  PROVE  RunsOn(r, owed, top)
<1> DEFINE m == r[1]
<1>1. /\ InLine(r, top) /\ ControlsInLine(cs) /\ OnTheWire(wire, r, top)
      /\ owed \in Nat /\ owed = OwedControl(cs) + OwedMessage(r)
  BY DEF Tallied
<1>2. r \in Seq(Letter)
  BY <1>1 DEF InLine
<1>3. m \in Letter /\ Accounted(m)
  BY <1>1, <1>2, FrontLetter DEF InLine
<1>4. /\ m.len \in Nat /\ m.sent \in Nat /\ m.ack \in Nat /\ m.acked \in Nat /\ m.id \in Nat
      /\ m.sent <= m.len /\ m.state = "sending" /\ m.acked = m.ack
      /\ (m.sent = m.len => m.len = 0)
  <2>1. m.state = "sending" /\ m.acked = m.ack
    BY DEF Between
  <2> HIDE DEF m
  <2> QED BY <1>3, <2>1 DEF Accounted, Letter
<1>5. OwedMessage(r) = 0
  BY <1>4 DEF OwedMessage
<1>6. CASE EmptyOut(r)
  <2> DEFINE x == [m EXCEPT !.state = "sent"]
  <2>1. messages' = <<x>> \o Tail(r) /\ wire' = wire /\ unacked' = unacked /\ m.sent = m.len
    BY <1>6 DEF EmptyOut
  <2>2. /\ x \in Letter /\ x.id = m.id /\ x.len = m.len /\ x.sent = m.sent /\ x.ack = m.ack
        /\ x.acked = m.acked /\ x.state = "sent"
    <3> HIDE DEF m
    <3> QED BY <1>3 DEF Letter
  <2> HIDE DEF x
  <2>3. Accounted(x)
    <3> HIDE DEF m
    <3> QED BY <1>3, <1>4, <2>1, <2>2 DEF Accounted
  <2>4. /\ InLine(messages', top) /\ messages' # <<>> /\ messages'[1] = x /\ Len(messages') = Len(r)
        /\ \A i \in 1..Len(r) : messages'[i].id = r[i].id
    BY <1>1, <2>1, <2>2, <2>3, FrontChanges, Zenon
  <2>5. OnTheWire(wire', messages', top)
    BY <1>1, <2>1, <2>2, <2>4 DEF OnTheWire
  <2>6. OwedMessage(messages') = 0
    BY <1>4, <2>2, <2>4 DEF OwedMessage
  <2>7. Tallied(messages', controls', wire', owed + 0, top)
    <3>1. owed + 0 \in Nat /\ owed + 0 = OwedControl(cs) + OwedMessage(messages')
      BY <1>1, <1>5, <2>6
    <3> QED BY <1>1, <2>4, <2>5, <3>1, Zenon DEF Tallied
  <2>8. FrontGoing(messages') /\ Stay(r, messages')
    BY <1>4, <2>1, <2>2, <2>4 DEF FrontGoing, Going, Stay
  <2>9. 0 \in Nat /\ unacked' = unacked + 0
    BY <2>1
  <2> QED BY <2>7, <2>8, <2>9, Zenon DEF RunsOn
<1>7. CASE \E n, op, final, x : op \in Ops /\ final \in BOOLEAN /\ PartOut(r, n, Header(op, final, n), x)
  <2>1. PICK n, op, final, x : op \in Ops /\ final \in BOOLEAN /\ PartOut(r, n, Header(op, final, n), x)
    BY <1>7
  <2> DEFINE h == Header(op, final, n)
             v == h \o Payload(m, n)
  <2>2. /\ n \in Nat /\ n > 0 /\ m.sent + n <= m.len
        /\ messages' = <<x>> \o Tail(r) /\ x = [m EXCEPT !.sent = @ + n, !.ack = @ + HeaderLength(n) + n]
        /\ wire' = wire \o v /\ unacked' = unacked + Len(v)
    BY <2>1 DEF PartOut
  <2>3. FrameOf(v, m.id, m.sent, HeaderLength(n), n)
    BY <1>3, <2>1, <2>2, ThePart, Zenon
  <2> HIDE DEF h, v
  <2>4. PICK k \in Nat : k = HeaderLength(n)
    BY <2>3 DEF FrameOf
  <2>5. /\ x \in Letter /\ x.id = m.id /\ x.len = m.len /\ x.sent = m.sent + n
        /\ x.ack = m.ack + k + n /\ x.acked = m.acked /\ x.state = "sending"
    <3> HIDE DEF m
    <3>1. m.sent + n \in Nat /\ m.ack + k + n \in Nat
      BY <1>4, <2>2
    <3>2. x = [m EXCEPT !.sent = m.sent + n, !.ack = m.ack + k + n]
      BY <2>2, <2>4
    <3> QED BY <1>3, <1>4, <3>1, <3>2 DEF Letter
  <2>6. Accounted(x)
    <3> HIDE DEF m
    <3> QED BY <1>4, <2>2, <2>5 DEF Accounted
  <2>7. /\ InLine(messages', top) /\ messages' # <<>> /\ messages'[1] = x /\ Len(messages') = Len(r)
        /\ \A i \in 1..Len(r) : messages'[i].id = r[i].id
    <3>1. messages' = <<x>> \o Tail(r) /\ x \in Letter /\ x.id = r[1].id
      BY <2>2, <2>5
    <3>2. /\ InLine(<<x>> \o Tail(r), top) /\ <<x>> \o Tail(r) # <<>> /\ (<<x>> \o Tail(r))[1] = x
          /\ Len(<<x>> \o Tail(r)) = Len(r)
          /\ \A i \in 1..Len(r) : (<<x>> \o Tail(r))[i].id = r[i].id
      BY <1>1, <2>6, <3>1, FrontChanges, Zenon
    <3> QED BY <3>1, <3>2
  <2>8. Advances(r, messages', m.id, m.sent, n)
    BY <2>5, <2>7 DEF Advances
  <2>9. OnTheWire(wire', messages', top)
    BY <1>1, <2>2, <2>3, <2>7, <2>8, WireGrows, Zenon
  <2>10. Len(v) = k + n
    BY <2>3, <2>4 DEF FrameOf
  <2>11. OwedMessage(messages') = k + n
    <3>1. messages' # <<>> /\ messages'[1].ack = m.ack + k + n /\ messages'[1].acked = m.ack
      BY <1>4, <2>5, <2>7
    <3>2. PICK a \in Nat, b \in Nat : a = m.ack /\ b = n
      BY <1>4, <2>2
    <3>3. OwedMessage(messages') = a + k + b - a
      BY <3>1, <3>2 DEF OwedMessage
    <3> QED BY <3>2, <3>3
  <2>12. Tallied(messages', controls', wire', owed + (k + n), top)
    <3>1. owed = OwedControl(cs) /\ owed + (k + n) \in Nat
      <4> HIDE DEF m
      <4>1. PICK o \in Nat : o = owed
        BY <1>1
      <4>2. ControlsInLine(cs) => OwedControl(cs) \in Nat
        <5>1. ControlsInLine(cs) /\ cs # <<>> => 1 \in 1..Len(cs) /\ cs[1].len \in Nat
          <6> SUFFICES ASSUME ControlsInLine(cs), cs # <<>> PROVE 1 \in 1..Len(cs) /\ cs[1].len \in Nat
            OBVIOUS
          <6>1. cs \in Seq(ControlFrame)
            BY DEF ControlsInLine
          <6>2. 1 \in 1..Len(cs) /\ cs[1] \in ControlFrame
            BY <6>1
          <6> QED BY <6>2 DEF ControlFrame
        <5> QED BY <5>1 DEF OwedControl
      <4> QED BY <1>1, <1>5, <2>2, <4>1, <4>2
    <3>2. owed + (k + n) = OwedControl(cs) + OwedMessage(messages')
      BY <2>11, <3>1
    <3> QED BY <1>1, <2>7, <2>9, <3>1, <3>2, Zenon DEF Tallied
  <2>13. FrontGoing(messages') /\ Stay(r, messages')
    BY <2>5, <2>7 DEF FrontGoing, Going, Stay
  <2>14. k + n \in Nat /\ unacked' = unacked + (k + n)
    BY <2>2, <2>10
  <2> QED BY <2>12, <2>13, <2>14, Zenon DEF RunsOn
<1>8. EmptyOut(r) \/ \E n, op, final, x : op \in Ops /\ final \in BOOLEAN /\ PartOut(r, n, Header(op, final, n), x)
  BY <1>2, MessageOut
<1> QED BY <1>6, <1>7, <1>8

(* _runQueue() *)
LEMMA RunKeeps ==
  ASSUME NEW ms, NEW cs, NEW why, NEW owed, NEW top, unacked \in Nat,
         Tallied(ms, cs, wire, owed, top), RunQueue(ms, cs, why), stray' = {}
  PROVE  RunsOn(ms, owed, top)
<1> DEFINE r == Remaining(ms, MessageFinished)
<1>1. InLine(ms, top) /\ OnTheWire(wire, ms, top) /\ ms \in Seq(Letter)
  BY DEF Tallied, InLine
<1>2. FinishedAway(ms, r)
  BY <1>1, FinishedGo
<1> DEFINE again == ControlMayGo(r, cs) /\ cs[1].finished
           d == [i \in 1..cs[1].len |-> [control |-> cs[1].op]]
           h == Header(cs[1].op, TRUE, cs[1].len)
<1>3. \/ /\ ControlMayGo(r, cs) /\ messages' = r
         /\ controls' = <<[cs[1] EXCEPT !.finished = TRUE]>> \o Tail(cs)
         /\ \E o \in FrameOutcomes(h, d) : SendFrame(o, why \cup (IF again THEN {"resent"} ELSE {}))
      \/ /\ ~ControlMayGo(r, cs) /\ controls' = cs /\ r # <<>> /\ BetweenFrames(r[1]) /\ FrameWindow > 0
         /\ MessageSend(r, why)
      \/ controls' = cs /\ messages' = r /\ NoWrite
  BY Zenon DEF RunQueue
<1> HIDE DEF r
<1>4. /\ InLine(r, top) /\ OnTheWire(wire, r, top) /\ OwedMessage(r) = OwedMessage(ms)
      /\ FrontGoing(r) /\ (r # <<>> => r[1].state = "sending") /\ Remain(ms, r)
  BY <1>1, <1>2, AfterFinished
<1>5. Tallied(r, cs, wire, owed, top)
  BY <1>4 DEF Tallied
<1>6. RunsOn(r, owed, top)
  <2>1. CASE /\ ControlMayGo(r, cs) /\ messages' = r
             /\ controls' = <<[cs[1] EXCEPT !.finished = TRUE]>> \o Tail(cs)
             /\ \E o \in FrameOutcomes(h, d) : SendFrame(o, why \cup (IF again THEN {"resent"} ELSE {}))
    <3> HIDE DEF h, d, again
    <3>1. PICK o \in FrameOutcomes(h, d) : SendFrame(o, why \cup (IF again THEN {"resent"} ELSE {}))
      BY <2>1
    <3>2. /\ wire' = wire \o (h \o d) /\ unacked' = unacked + Len(h \o d)
          /\ why \cup (IF again THEN {"resent"} ELSE {}) = {}
      BY <3>1, WholeFrame, Zenon
    <3>3. ~again
      BY <3>2
    <3>4. cs # <<>> /\ ~cs[1].finished
      BY <2>1, <3>3 DEF again, ControlMayGo
    <3>5. Between(r)
      BY <1>4, <2>1 DEF ControlMayGo, BetweenFrames, Between
    <3>6. ControlOut(r, cs, h \o d)
      BY <2>1, <3>2, <3>4, Zenon DEF ControlOut, h, d
    <3> QED BY <1>4, <1>5, <3>5, <3>6, ControlGoes, Zenon
  <2>2. CASE /\ ~ControlMayGo(r, cs) /\ controls' = cs /\ r # <<>> /\ BetweenFrames(r[1]) /\ FrameWindow > 0
             /\ MessageSend(r, why)
    <3>1. Between(r)
      BY <1>4, <2>2 DEF BetweenFrames, Between
    <3> QED BY <1>4, <1>5, <2>2, <3>1, MessageGoes
  <2>3. CASE controls' = cs /\ messages' = r /\ NoWrite
    <3>1. wire' = wire /\ unacked' = unacked + 0 /\ owed + 0 = owed
      BY <1>5, <2>3 DEF NoWrite, Tallied
    <3>2. Stay(r, r)
      BY DEF Stay
    <3>3. Tallied(messages', controls', wire', owed + 0, top)
      BY <1>5, <2>3, <3>1
    <3> QED BY <1>4, <2>3, <3>1, <3>2, <3>3 DEF RunsOn
  <2> QED BY <1>3, <2>1, <2>2, <2>3, Zenon
<1>7. Stay(ms, messages')
  <2> SUFFICES ASSUME NEW i \in 1..Len(ms), ms[i].state = "sending"
               PROVE  \E j \in 1..Len(messages') : messages'[j].id = ms[i].id
    BY DEF Stay
  <2>1. PICK j \in 1..Len(r) : r[j] = ms[i]
    BY <1>4 DEF Remain
  <2> QED BY <1>6, <2>1 DEF RunsOn, Stay
<1> QED BY <1>6, <1>7 DEF RunsOn

LEMMA OwedControlIsNat ==
  ASSUME NEW cs, ControlsInLine(cs)
  PROVE  OwedControl(cs) \in Nat
<1>1. CASE cs # <<>>
  <2>1. cs \in Seq(ControlFrame)
    BY DEF ControlsInLine
  <2>2. 1 \in 1..Len(cs) /\ cs[1] \in ControlFrame
    BY <1>1, <2>1
  <2>3. cs[1].len \in Nat
    BY <2>2 DEF ControlFrame
  <2> QED BY <2>3 DEF OwedControl
<1>2. CASE cs = <<>>
  BY <1>2 DEF OwedControl
<1> QED BY <1>1, <1>2

(* A new message, or a new control frame, joins its queue. *)
LEMMA LetterJoins ==
  ASSUME NEW ms, NEW cs, NEW w, NEW owed, NEW top, Tallied(ms, cs, w, owed, top), FrontGoing(ms),
         NEW x \in Letter, x.id = top + 1, Untouched(x), Accounted(x)
  PROVE  /\ Tallied(Append(ms, x), cs, w, owed, top + 1) /\ FrontGoing(Append(ms, x))
         /\ Remain(ms, Append(ms, x))
<1> DEFINE r == Append(ms, x)
<1>1. /\ InLine(ms, top) /\ ControlsInLine(cs) /\ OnTheWire(w, ms, top)
      /\ owed \in Nat /\ owed = OwedControl(cs) + OwedMessage(ms)
  BY DEF Tallied
<1>2. ms \in Seq(Letter) /\ top \in Nat
  BY <1>1 DEF InLine
<1>3. PICK l \in Nat : l = Len(ms)
  BY <1>2
<1>4. r \in Seq(Letter) /\ Len(r) = l + 1 /\ r[l + 1] = x /\ \A i \in 1..l : r[i] = ms[i]
  BY <1>2, <1>3
<1> HIDE DEF r
<1>5. \A i \in 1..l : /\ ms[i].id \in 1..top /\ Accounted(ms[i]) /\ (i > 1 => Untouched(ms[i]))
                      /\ ms[i].id \in 1..(top + 1) /\ ms[i].id < top + 1
  BY <1>1, <1>2, <1>3 DEF InLine
<1>6. InLine(r, top + 1)
  <2>1. \A i \in 1..Len(r) : r[i].id \in 1..(top + 1) /\ Accounted(r[i]) /\ (i > 1 => Untouched(r[i]))
    <3> SUFFICES ASSUME NEW i \in 1..(l + 1)
                 PROVE  r[i].id \in 1..(top + 1) /\ Accounted(r[i]) /\ (i > 1 => Untouched(r[i]))
      BY <1>4
    <3>1. CASE i \in 1..l
      BY <1>4, <1>5, <3>1
    <3>2. CASE i = l + 1
      <4>1. top + 1 \in 1..(top + 1)
        BY <1>2
      <4> QED BY <1>4, <3>2, <4>1
    <3> QED BY <1>3, <3>1, <3>2
  <2>2. ASSUME NEW i \in 1..Len(r), NEW j \in 1..Len(r), i < j PROVE r[i].id < r[j].id
    <3>1. i \in 1..l /\ (j \in 1..l \/ j = l + 1)
      BY <1>3, <1>4, <2>2
    <3>2. CASE j \in 1..l
      <4>1. r[i] = ms[i] /\ r[j] = ms[j] /\ i \in 1..Len(ms) /\ j \in 1..Len(ms)
        BY <1>3, <1>4, <3>1, <3>2
      <4> QED BY <1>1, <2>2, <4>1 DEF InLine
    <3>3. CASE j = l + 1
      BY <1>4, <1>5, <3>1, <3>3
    <3> QED BY <3>1, <3>2, <3>3
  <2>3. top + 1 \in Nat
    BY <1>2
  <2> QED BY <1>4, <2>1, <2>2, <2>3 DEF InLine
<1>7. CASE ms = <<>>
  <2>1. l = 0 /\ r[1] = x /\ r # <<>> /\ 1 \in 1..Len(r)
    BY <1>3, <1>4, <1>7
  <2>2. x.sent = 0 /\ x.ack = 0 /\ x.acked = 0 /\ Going(x)
    BY DEF Untouched
  <2>3. OwedMessage(r) = 0 /\ OwedMessage(ms) = 0
    BY <1>7, <2>1, <2>2 DEF OwedMessage
  <2>4. OnTheWire(w, r, top + 1)
    <3>1. w \in Seq(SocketByte) /\ \A i \in 1..Len(w) : OfMessage(w[i]) => w[i].message \in 1..top
      BY <1>1 DEF OnTheWire
    <3>2. \A i \in 1..Len(w) : OfMessage(w[i]) =>
            w[i].message \in 1..(top + 1) /\ w[i].message <= top + 1 /\ w[i].message # top + 1
      BY <1>2, <3>1
    <3>3. SentUpTo(w, r[1].id, r[1].sent)
      BY <2>1, <2>2, <3>2, NoneSent
    <3> QED BY <2>1, <3>1, <3>2, <3>3 DEF OnTheWire
  <2>5. Tallied(r, cs, w, owed, top + 1)
    BY <1>1, <1>6, <2>3, <2>4 DEF Tallied
  <2>6. FrontGoing(r) /\ Remain(ms, r)
    BY <1>3, <2>1, <2>2 DEF FrontGoing, Remain
  <2> QED BY <2>5, <2>6 DEF r
<1>8. CASE ms # <<>>
  <2>1. r[1] = ms[1] /\ r # <<>> /\ 1 \in 1..l
    BY <1>2, <1>3, <1>4, <1>8
  <2>2. OwedMessage(r) = OwedMessage(ms)
    BY <1>8, <2>1 DEF OwedMessage
  <2>3. OnTheWire(w, r, top + 1)
    <3>1. /\ w \in Seq(SocketByte) /\ SentUpTo(w, ms[1].id, ms[1].sent)
          /\ \A i \in 1..Len(w) : OfMessage(w[i]) => w[i].message \in 1..top /\ w[i].message <= ms[1].id
      BY <1>1, <1>8 DEF OnTheWire
    <3>2. \A i \in 1..Len(w) : OfMessage(w[i]) => w[i].message \in 1..(top + 1)
      BY <1>2, <3>1
    <3> QED BY <2>1, <3>1, <3>2 DEF OnTheWire
  <2>4. Tallied(r, cs, w, owed, top + 1)
    BY <1>1, <1>6, <2>2, <2>3 DEF Tallied
  <2>5. FrontGoing(r) /\ Remain(ms, r)
    BY <1>3, <1>4, <1>8, <2>1 DEF FrontGoing, Remain
  <2> QED BY <2>4, <2>5 DEF r
<1> QED BY <1>7, <1>8

(* A message that does not join leaves a number unused. *)
LEMMA NumberPasses ==
  ASSUME NEW ms, NEW cs, NEW w, NEW owed, NEW top, Tallied(ms, cs, w, owed, top)
  PROVE  Tallied(ms, cs, w, owed, top + 1)
<1>1. /\ InLine(ms, top) /\ ControlsInLine(cs) /\ OnTheWire(w, ms, top)
      /\ owed \in Nat /\ owed = OwedControl(cs) + OwedMessage(ms)
  BY DEF Tallied
<1>2. top \in Nat /\ top + 1 \in Nat /\ \A n \in 1..top : n \in 1..(top + 1)
  BY <1>1 DEF InLine
<1>3. InLine(ms, top + 1)
  BY <1>1, <1>2 DEF InLine
<1>4. OnTheWire(w, ms, top + 1)
  BY <1>1, <1>2 DEF OnTheWire
<1> QED BY <1>1, <1>3, <1>4 DEF Tallied

LEMMA ControlJoins ==
  ASSUME NEW ms, NEW cs, NEW w, NEW owed, NEW top, Tallied(ms, cs, w, owed, top),
         NEW op \in Ops, NEW len \in Nat
  PROVE  Tallied(ms, Append(cs, NewControl(op, len)), w, owed, top)
<1> DEFINE c == NewControl(op, len)
           ds == Append(cs, c)
<1>1. /\ InLine(ms, top) /\ ControlsInLine(cs) /\ OnTheWire(w, ms, top)
      /\ owed \in Nat /\ owed = OwedControl(cs) + OwedMessage(ms)
  BY DEF Tallied
<1>2. cs \in Seq(ControlFrame) /\ \A i \in 1..Len(cs) : cs[i].len <= ShortFrame /\ (i > 1 => ~cs[i].finished)
  BY <1>1 DEF ControlsInLine
<1>3. c \in ControlFrame /\ c.len <= ShortFrame /\ ~c.finished
  <2>1. Least(len, ShortFrame) \in Nat /\ Least(len, ShortFrame) <= ShortFrame
    BY SocketLengths DEF Least
  <2> QED BY <2>1 DEF NewControl, ControlFrame
<1> HIDE DEF c
<1>4. /\ ds \in Seq(ControlFrame) /\ Len(ds) = Len(cs) + 1 /\ ds[Len(cs) + 1] = c /\ ds # <<>>
      /\ \A i \in 1..Len(cs) : ds[i] = cs[i]
  BY <1>2, <1>3
<1> HIDE DEF ds
<1>5. ControlsInLine(ds)
  <2>1. ASSUME NEW i \in 1..Len(ds) PROVE ds[i].len <= ShortFrame /\ (i > 1 => ~ds[i].finished)
    <3>1. i \in 1..Len(cs) \/ i = Len(cs) + 1
      BY <1>2, <1>4
    <3> QED BY <1>2, <1>3, <1>4, <3>1
  <2> QED BY <1>4, <2>1 DEF ControlsInLine
<1>6. OwedControl(ds) = OwedControl(cs)
  <2>1. CASE cs = <<>>
    <3>1. ds[1] = c
      BY <1>2, <1>4, <2>1
    <3> QED BY <1>3, <2>1, <3>1 DEF OwedControl
  <2>2. CASE cs # <<>>
    <3>1. ds[1] = cs[1]
      BY <1>2, <1>4, <2>2
    <3> QED BY <1>4, <2>2, <3>1 DEF OwedControl
  <2> QED BY <2>1, <2>2
<1>7. Tallied(ms, ds, w, owed, top)
  BY <1>1, <1>5, <1>6 DEF Tallied
<1> QED BY <1>7 DEF ds, c

-----------------------------------------------------------------------------
(* What holds of one web socket in every state, and in every step *)

InBalance ==
  /\ unacked \in Nat /\ confirmed \in Nat
  /\ Tallied(messages, controls, wire, unacked + confirmed, made.messages) /\ FrontGoing(messages)

MessageInv ==
  /\ ~Open => messages = <<>> /\ controls = <<>>
  /\ status # "none" =>
       /\ source = "none" /\ made \in [messages : Nat, controls : Nat]
       /\ status \in {"asked", "400", "401"} => wire = <<>> /\ unacked = 0 /\ confirmed = 0
       /\ status = "waiting" => /\ unacked \in Nat /\ confirmed \in Nat /\ wire \in Seq(SocketByte)
                                /\ \A i \in 1..Len(wire) : ~OfMessage(wire[i])
       /\ Open /\ stray = {} => InBalance

LEMMA StrayRuns ==
  ASSUME NEW ms, NEW cs, NEW why, RunQueue(ms, cs, why), stray' = {}
  PROVE  stray = {} /\ why = {}
<1>1. ASSUME NEW o, NEW reason, SendFrame(o, reason) PROVE stray = {} /\ reason = {}
  BY <1>1 DEF SendFrame
<1>2. ASSUME NEW rest, MessageSend(rest, why) PROVE stray = {} /\ why = {}
  <2>1. stray' = stray \cup why \/ \E o : SendFrame(o, why)
    BY <1>2, Zenon DEF MessageSend
  <2> QED BY <1>1, <2>1
<1>3. \/ stray' = stray \cup why
      \/ \E o, more : SendFrame(o, why \cup more)
      \/ \E rest : MessageSend(rest, why)
  BY Zenon DEF RunQueue
<1>4. ASSUME NEW o, NEW more, SendFrame(o, why \cup more) PROVE stray = {} /\ why = {}
  <2>1. stray = {} /\ why \cup more = {}
    BY <1>1, <1>4
  <2> QED BY <2>1
<1> QED BY <1>2, <1>3, <1>4

(* The queue as it is when _runQueue() is called, or is not for want of room *)
LEMMA RunsOnCounted ==
  ASSUME NEW ms, unacked \in Nat, confirmed' \in Nat,
         RunsOn(ms, unacked + confirmed', made'.messages)
  PROVE  InBalance' /\ Stay(ms, messages')
<1>1. PICK g \in Nat : /\ unacked' = unacked + g
                       /\ Tallied(messages', controls', wire', unacked + confirmed' + g, made'.messages)
  BY DEF RunsOn
<1>2. unacked' \in Nat /\ unacked + confirmed' + g = unacked' + confirmed'
  BY <1>1
<1>3. Tallied(messages', controls', wire', unacked' + confirmed', made'.messages)
  BY <1>1, <1>2
<1> QED BY <1>2, <1>3 DEF RunsOn, InBalance

LEMMA IfRoomKeeps ==
  ASSUME NEW ms, NEW cs, unacked \in Nat, confirmed' \in Nat, FrontGoing(ms),
         Tallied(ms, cs, wire, unacked + confirmed', made'.messages),
         RunIfRoom(ms, cs), stray' = {}
  PROVE  InBalance' /\ Stay(ms, messages') /\ stray = {}
<1>1. CASE RunQueue(ms, cs, {})
  BY <1>1, RunKeeps, RunsOnCounted, StrayRuns
<1>2. CASE messages' = ms /\ controls' = cs /\ NoWrite /\ UNCHANGED stray
  <2>1. wire' = wire /\ unacked' = unacked
    BY <1>2 DEF NoWrite
  <2> QED BY <1>2, <2>1 DEF InBalance, Stay
<1> QED BY <1>1, <1>2 DEF RunIfRoom

(* A message that is being sent is still there when the queue has grown    *)
(* and has been run.                                                       *)
AllStay == \A i \in 1..Len(messages) : messages[i].len > 0 =>
             \E j \in 1..Len(messages') : messages'[j].id = messages[i].id

LEMMA GoingAll ==
  ASSUME NEW ms, NEW top, InLine(ms, top), FrontGoing(ms), NEW i \in 1..Len(ms), ms[i].len > 0
  PROVE  ms[i].state = "sending"
<1>1. Going(ms[i])
  <2>1. CASE i = 1
    <3>1. ms # <<>>
      OBVIOUS
    <3> QED BY <2>1, <3>1 DEF FrontGoing
  <2>2. CASE i > 1
    BY <2>2 DEF InLine, Untouched
  <2> QED BY <2>1, <2>2
<1> QED BY <1>1 DEF Going

LEMMA StayAll ==
  ASSUME InBalance, NEW r, Remain(messages, r), Stay(r, messages')
  PROVE  AllStay
<1>1. InLine(messages, made.messages) /\ FrontGoing(messages)
  BY DEF InBalance, Tallied
<1> SUFFICES ASSUME NEW i \in 1..Len(messages), messages[i].len > 0
             PROVE  \E j \in 1..Len(messages') : messages'[j].id = messages[i].id
  BY DEF AllStay
<1>2. messages[i].state = "sending"
  BY <1>1, GoingAll
<1>3. PICK k \in 1..Len(r) : r[k] = messages[i]
  BY <1>2 DEF Remain
<1> QED BY <1>2, <1>3 DEF Stay

(* A step after which nothing has gone astray *)
Keeps == InBalance' /\ AllStay /\ stray = {}

(* What is queued is the next message, and nothing of it has been sent. *)
LEMMA QueuingKeeps ==
  ASSUME stray = {} => InBalance, made \in [messages : Nat, controls : Nat], stray' = {},
         status = "connected", made' = [made EXCEPT !.messages = @ + 1], UNCHANGED confirmed,
         NEW x \in Letter, x.id = made.messages + 1, Untouched(x), Accounted(x), QueueMessage(x)
  PROVE  Keeps
<1> DEFINE ms == IF Len(messages) < SocketQueueLimit THEN Append(messages, x) ELSE messages
<1>1. RunIfRoom(ms, controls)
  BY DEF QueueMessage
<1>2. stray = {}
  <2>1. CASE RunQueue(ms, controls, {})
    <3> HIDE DEF ms
    <3> QED BY <2>1, StrayRuns
  <2>2. CASE UNCHANGED stray
    BY <2>2
  <2> QED BY <1>1, <2>1, <2>2 DEF RunIfRoom
<1>3. InBalance
  BY <1>2
<1>4. /\ unacked \in Nat /\ confirmed \in Nat /\ FrontGoing(messages)
      /\ Tallied(messages, controls, wire, unacked + confirmed, made.messages)
  BY <1>3 DEF InBalance
<1>5. made'.messages = made.messages + 1 /\ made.messages \in Nat
  OBVIOUS
<1>6. /\ Tallied(ms, controls, wire, unacked + confirmed', made'.messages)
      /\ FrontGoing(ms) /\ Remain(messages, ms)
  <2>1. CASE Len(messages) < SocketQueueLimit
    BY <1>4, <1>5, <2>1, LetterJoins
  <2>2. CASE ~(Len(messages) < SocketQueueLimit)
    BY <1>4, <1>5, <2>2, NumberPasses DEF Remain
  <2> QED BY <2>1, <2>2
<1> HIDE DEF ms
<1>7. InBalance' /\ Stay(ms, messages') /\ stray = {}
  BY <1>1, <1>4, <1>6, IfRoomKeeps
<1> QED BY <1>3, <1>6, <1>7, StayAll DEF Keeps

LEMMA SendMessageKeeps ==
  ASSUME stray = {} => InBalance, made \in [messages : Nat, controls : Nat], SendMessage, stray' = {}
  PROVE  Keeps
<1>1. /\ status = "connected" /\ made' = [made EXCEPT !.messages = @ + 1] /\ confirmed' = confirmed
      /\ \E len \in MessageLengths, multi \in BOOLEAN : QueueMessage(NewMessage(len, multi))
  BY DEF SendMessage
<1>2. PICK len \in MessageLengths, multi \in BOOLEAN : QueueMessage(NewMessage(len, multi))
  BY <1>1
<1> DEFINE x == NewMessage(len, multi)
<1>3. made.messages \in Nat
  OBVIOUS
<1>4. x \in Letter /\ x.id = made.messages + 1 /\ Untouched(x) /\ Accounted(x)
  BY <1>3, SocketLengths DEF NewMessage, Letter, Untouched, Going, Accounted
<1> HIDE DEF x
<1>5. QueueMessage(x)
  BY <1>2 DEF x
<1> QED BY <1>1, <1>4, <1>5, QueuingKeeps

LEMMA SendFailsKeeps ==
  ASSUME stray = {} => InBalance, made \in [messages : Nat, controls : Nat], SendFailsToCopy, stray' = {}
  PROVE  Keeps
<1> DEFINE x == [NewMessage(0, FALSE) EXCEPT !.state = "error"]
<1>1. /\ status = "connected" /\ made' = [made EXCEPT !.messages = @ + 1] /\ confirmed' = confirmed
      /\ QueueMessage(x)
  BY DEF SendFailsToCopy
<1>2. made.messages \in Nat
  OBVIOUS
<1>3. x \in Letter /\ x.id = made.messages + 1 /\ Untouched(x) /\ Accounted(x)
  <2> DEFINE y == NewMessage(0, FALSE)
  <2>1. /\ y \in Letter /\ y.id = made.messages + 1 /\ y.len = 0 /\ y.sent = 0 /\ y.ack = 0
        /\ y.acked = 0
    BY <1>2 DEF NewMessage, Letter
  <2> HIDE DEF y
  <2>2. /\ x \in Letter /\ x.id = made.messages + 1 /\ x.len = 0 /\ x.sent = 0 /\ x.ack = 0
        /\ x.acked = 0 /\ x.state = "error"
    <3>1. x = [y EXCEPT !.state = "error"]
      BY DEF y
    <3> HIDE DEF x
    <3> QED BY <2>1, <3>1 DEF Letter
  <2> HIDE DEF x
  <2> QED BY <2>2 DEF Untouched, Going, Accounted
<1> HIDE DEF x
<1> QED BY <1>1, <1>3, QueuingKeeps

LEMMA PrintFailsKeeps ==
  ASSUME stray = {} => InBalance, made \in [messages : Nat, controls : Nat], PrintFails, stray' = {}
  PROVE  Keeps
<1>1. /\ made' = [made EXCEPT !.messages = @ + 1]
      /\ UNCHANGED <<confirmed, messages, controls, stray, wire, unacked>>
  BY DEF PrintFails, OutOfMemory
<1>2. /\ stray = {} /\ InBalance /\ unacked \in Nat /\ confirmed \in Nat /\ FrontGoing(messages)
      /\ Tallied(messages, controls, wire, unacked + confirmed, made.messages)
  BY <1>1 DEF InBalance
<1>3. made'.messages = made.messages + 1
  BY <1>1
<1>4. Tallied(messages, controls, wire, unacked + confirmed, made'.messages)
  BY <1>2, <1>3, NumberPasses
<1>5. InBalance'
  BY <1>1, <1>2, <1>4 DEF InBalance
<1>6. AllStay
  BY <1>1 DEF AllStay
<1> QED BY <1>2, <1>5, <1>6 DEF Keeps

(* _queueControl() *)
LEMMA QueueControlKeeps ==
  ASSUME stray = {} => InBalance, NEW op \in Ops, NEW len \in Nat, QueueControl(op, len), stray' = {},
         confirmed' = confirmed, made'.messages = made.messages
  PROVE  Keeps
<1> DEFINE cs == Append(controls, NewControl(op, len))
<1>1. RunIfRoom(messages, cs)
  BY DEF QueueControl
<1>2. stray = {}
  <2>1. CASE RunQueue(messages, cs, {})
    <3> HIDE DEF cs
    <3> QED BY <2>1, StrayRuns
  <2>2. CASE UNCHANGED stray
    BY <2>2
  <2> QED BY <1>1, <2>1, <2>2 DEF RunIfRoom
<1>3. /\ InBalance /\ unacked \in Nat /\ confirmed \in Nat /\ FrontGoing(messages)
      /\ Tallied(messages, controls, wire, unacked + confirmed, made.messages)
  BY <1>2 DEF InBalance
<1>4. Tallied(messages, cs, wire, unacked + confirmed, made.messages)
  BY <1>3, ControlJoins, Zenon
<1> HIDE DEF cs
<1>5. InBalance' /\ Stay(messages, messages') /\ stray = {}
  BY <1>1, <1>3, <1>4, IfRoomKeeps
<1>6. Remain(messages, messages)
  BY DEF Remain
<1> QED BY <1>3, <1>5, <1>6, StayAll DEF Keeps

LEMMA SendControlKeeps ==
  ASSUME stray = {} => InBalance, made \in [messages : Nat, controls : Nat], SendControl, stray' = {}
  PROVE  Keeps
<1>1. made' = [made EXCEPT !.controls = @ + 1] /\ confirmed' = confirmed
      /\ (QueueControl("ping", 1) \/ QueueControl("close", 0))
  BY DEF SendControl
<1>2. made'.messages = made.messages
  BY <1>1
<1>3. "ping" \in Ops /\ "close" \in Ops
  BY DEF Ops
<1> QED BY <1>1, <1>2, <1>3, QueueControlKeeps

LEMMA SocketPollKeeps ==
  ASSUME stray = {} => InBalance, SocketPoll, stray' = {}
  PROVE  Keeps
<1>1. RunQueue(messages, controls, {}) /\ confirmed' = confirmed /\ made' = made
  BY DEF SocketPoll
<1>2. stray = {}
  BY <1>1, StrayRuns
<1>3. /\ InBalance /\ unacked \in Nat /\ confirmed \in Nat
      /\ Tallied(messages, controls, wire, unacked + confirmed, made.messages)
  BY <1>2 DEF InBalance
<1>4. RunsOn(messages, unacked + confirmed', made'.messages)
  BY <1>1, <1>3, RunKeeps
<1>5. InBalance' /\ Stay(messages, messages')
  BY <1>1, <1>3, <1>4, RunsOnCounted
<1>6. Remain(messages, messages)
  BY DEF Remain
<1> QED BY <1>2, <1>3, <1>5, <1>6, StayAll DEF Keeps

LEMMA NothingMoves ==
  ASSUME stray = {} => InBalance, stray' = {},
         UNCHANGED <<messages, controls, wire, unacked, confirmed, made, stray>>
  PROVE  Keeps
<1>1. InBalance'
  BY DEF InBalance
<1> QED BY <1>1 DEF Keeps, AllStay

LEMMA SocketDataKeeps ==
  ASSUME stray = {} => InBalance, SocketInv, SocketData, stray' = {}, status' # "disconnected"
  PROVE  Keeps
<1> DEFINE f == IF frame.open THEN frame
                ELSE [open |-> TRUE, op |-> segment[1].op, len |-> segment[1].len, index |-> 0]
           after == IF frame.open THEN segment ELSE Tail(segment)
           n == Least(f.len - f.index, Len(after))
<1>1. /\ segment \in Seq(Symbol) /\ segment # <<>>
      /\ frame \in [open : BOOLEAN, op : {"text", "continuation", "ping", "pong", "close"},
                len : Nat, index : Nat]
      /\ frame.open => frame.index < frame.len
  BY DEF SocketInv, SocketTypes, SocketData
<1>2. n \in Nat
  <2>1. segment[1] \in Symbol /\ segment[1].len \in Nat /\ Tail(segment) \in Seq(Symbol)
    <3>1. 1 \in 1..Len(segment)
      BY <1>1
    <3>2. segment[1] \in Symbol
      BY <1>1, <3>1
    <3>3. Tail(segment) \in Seq(Symbol)
      BY <1>1
    <3> QED BY <3>2, <3>3 DEF Symbol
  <2>2. f.len - f.index \in Nat
    <3>1. CASE frame.open
      BY <1>1, <3>1
    <3>2. CASE ~frame.open
      BY <2>1, <3>2
    <3> QED BY <3>1, <3>2
  <2>3. Len(after) \in Nat
    BY <1>1, <2>1
  <2> HIDE DEF f, after
  <2> QED BY <2>2, <2>3 DEF Least
<1>3. /\ confirmed' = confirmed /\ made' = made
      /\ \/ NoWrite /\ UNCHANGED <<messages, controls, stray>>
         \/ QueueControl("pong", n) \/ QueueControl("close", n) \/ SocketGone
  <2>1. SocketGone \/ (UNCHANGED <<confirmed, made>> /\
             (\/ NoWrite /\ UNCHANGED <<messages, controls, stray>>
              \/ QueueControl("pong", n) \/ QueueControl("close", n)))
    BY Zenon DEF SocketData
  <2>2. ~SocketGone
    BY DEF SocketGone
  <2> QED BY <2>1, <2>2
<1> HIDE DEF n
<1>4. CASE NoWrite /\ UNCHANGED <<messages, controls, stray>>
  BY <1>3, <1>4, NothingMoves DEF NoWrite
<1>5. "pong" \in Ops /\ "close" \in Ops
  BY DEF Ops
<1>6. ~SocketGone
  BY DEF SocketGone
<1> QED BY <1>2, <1>3, <1>4, <1>5, <1>6, QueueControlKeeps

(* The acknowledged bytes that a message at the front is credited with are *)
(* its own; if they are its last, nothing is left to be acknowledged.      *)
Credits(ms, left) ==
  /\ left # 0 => ms # <<>> /\ ms = <<MessageAck(messages[1], left)>> \o Tail(messages)
  /\ left = 0 => ms = messages

AfterCredit(ms, cs, left) ==
  /\ Tallied(ms, cs, wire, left, made.messages)
  /\ \A i \in 1..Len(messages) : messages[i].len > 0 =>
       \/ \E j \in 1..Len(ms) : ms[j].id = messages[i].id /\ ms[j].state = "sending"
       \/ i = 1 /\ messages[1].sent = messages[1].len /\ left = 0

LEMMA CreditKeeps ==
  ASSUME InBalance, NEW cs, ControlsInLine(cs), OwedControl(cs) = 0, NEW n \in Nat, NEW ms,
         n <= unacked + confirmed, OwedControl(controls) <= n, Credits(ms, n - OwedControl(controls))
  PROVE  AfterCredit(ms, cs, unacked + confirmed - n)
<1>1. /\ unacked \in Nat /\ confirmed \in Nat
      /\ Tallied(messages, controls, wire, unacked + confirmed, made.messages) /\ FrontGoing(messages)
  BY DEF InBalance
<1>2. /\ InLine(messages, made.messages) /\ ControlsInLine(controls)
      /\ OnTheWire(wire, messages, made.messages)
      /\ unacked + confirmed = OwedControl(controls) + OwedMessage(messages)
  BY <1>1 DEF Tallied
<1>3. PICK c \in Nat, t \in Nat : c = OwedControl(controls) /\ t = unacked + confirmed
  BY <1>1, <1>2, OwedControlIsNat
<1>4. messages \in Seq(Letter)
  BY <1>2 DEF InLine
<1>5. n - c \in Nat /\ n - c <= t - c /\ t - n \in Nat /\ t = c + OwedMessage(messages)
  BY <1>2, <1>3
<1>6. \A i \in 1..Len(messages) : messages[i].len > 0 => messages[i].state = "sending"
  BY <1>1, <1>2, GoingAll
<1>7. t - n = unacked + confirmed - n
  BY <1>1, <1>3
<1>8. CASE n - c = 0
  <2>1. ms = messages
    BY <1>3, <1>8 DEF Credits
  <2>2. t - n = OwedControl(cs) + OwedMessage(messages)
    <3>1. PICK o \in Int : o = OwedMessage(messages)
      <4>1. CASE messages = <<>>
        BY <4>1 DEF OwedMessage
      <4>2. CASE messages # <<>>
        BY <1>4, <4>2, FrontLetter DEF OwedMessage
      <4> QED BY <4>1, <4>2
    <3>2. t = c + o /\ t - n = o
      BY <1>3, <1>5, <1>8, <3>1
    <3> QED BY <3>1, <3>2
  <2>3. Tallied(ms, cs, wire, t - n, made.messages)
    BY <1>2, <1>5, <2>1, <2>2 DEF Tallied
  <2>4. AfterCredit(ms, cs, t - n)
    BY <1>6, <2>1, <2>3 DEF AfterCredit
  <2> QED BY <1>7, <2>4
<1>9. CASE n - c # 0
  <2>1. ms # <<>> /\ ms = <<MessageAck(messages[1], n - c)>> \o Tail(messages)
    BY <1>3, <1>9 DEF Credits
  <2>2. messages # <<>>
    <3>1. messages = <<>> => OwedMessage(messages) = 0
      BY DEF OwedMessage
    <3> QED BY <1>3, <1>5, <1>9, <3>1
  <2> DEFINE m == messages[1]
  <2>3. /\ m \in Letter /\ m.ack \in Nat /\ m.acked \in Nat /\ m.len \in Nat /\ m.sent \in Nat
        /\ Accounted(m) /\ OwedMessage(messages) = m.ack - m.acked
    BY <1>2, <1>4, <2>2, FrontLetter DEF InLine, OwedMessage
  <2>4. PICK d \in Nat : d = n - c /\ d > 0 /\ d <= m.ack - m.acked /\ t - n = m.ack - m.acked - d
    <3> HIDE DEF m
    <3>1. t - c = m.ack - m.acked
      BY <1>3, <1>5, <2>3
    <3> QED BY <1>3, <1>5, <1>9, <2>3, <3>1
  <2>5. m.state = "sending"
    <3>1. m.acked # m.ack
      <4> HIDE DEF m
      <4> QED BY <2>3, <2>4
    <3> QED BY <2>3, <3>1 DEF Accounted, Letter
  <2> DEFINE a == [m EXCEPT !.acked = @ + d]
             x == MessageAck(m, d)
  <2>6. /\ a \in Letter /\ a.id = m.id /\ a.len = m.len /\ a.sent = m.sent /\ a.ack = m.ack
        /\ a.acked = m.acked + d /\ a.multi = m.multi /\ a.state = "sending"
    <3> HIDE DEF m
    <3>1. m.acked + d \in Nat
      BY <2>3
    <3> QED BY <2>3, <2>5, <3>1 DEF Letter
  <2> HIDE DEF m
  <2>7. x = IF a.sent = a.len /\ a.acked = a.ack THEN [a EXCEPT !.state = "sent"] ELSE a
    <3>1. x = IF IF a.multi THEN MultiAcked(a) ELSE BasicAcked(a) THEN [a EXCEPT !.state = "sent"] ELSE a
      BY DEF MessageAck
    <3>2. MultiAcked(a) <=> a.sent = a.len /\ a.acked = a.ack
      <4>1. a.acked \in Nat /\ a.ack \in Nat /\ a.acked <= a.ack
        BY <2>3, <2>4, <2>6
      <4> HIDE DEF a
      <4> QED BY <4>1 DEF MultiAcked
    <3>3. BasicAcked(a) <=> a.sent = a.len /\ a.acked = a.ack
      BY DEF BasicAcked
    <3> HIDE DEF a, x
    <3> QED BY <3>1, <3>2, <3>3, Zenon
  <2> HIDE DEF a, x
  <2>8. /\ x \in Letter /\ x.id = m.id /\ x.len = m.len /\ x.sent = m.sent /\ x.ack = m.ack
        /\ x.acked = m.acked + d
        /\ x.state = IF m.sent = m.len /\ m.acked + d = m.ack THEN "sent" ELSE "sending"
    <3>1. CASE a.sent = a.len /\ a.acked = a.ack
      <4>1. x = [a EXCEPT !.state = "sent"]
        BY <2>7, <3>1
      <4> QED BY <2>6, <3>1, <4>1 DEF Letter
    <3>2. CASE ~(a.sent = a.len /\ a.acked = a.ack)
      BY <2>6, <2>7, <3>2
    <3> QED BY <3>1, <3>2
  <2>9. Accounted(x)
    <3>1. m.sent <= m.len /\ m.acked + d <= m.ack /\ (m.len = 0 => m.ack = 0) /\ m.acked + d \in Nat
      BY <2>3, <2>4 DEF Accounted
    <3> QED BY <2>3, <2>8, <3>1 DEF Accounted
  <2>10. ms = <<x>> \o Tail(messages)
    BY <2>1, <2>4 DEF x, m
  <2>11. /\ InLine(ms, made.messages) /\ ms[1] = x /\ Len(ms) = Len(messages)
         /\ \A i \in 1..Len(messages) : ms[i].id = messages[i].id
    BY <1>2, <2>2, <2>8, <2>9, <2>10, FrontChanges, Zenon DEF m
  <2>12. OnTheWire(wire, ms, made.messages)
    BY <1>2, <2>1, <2>2, <2>8, <2>11 DEF OnTheWire, m
  <2>13. OwedMessage(ms) = t - n
    <3>1. OwedMessage(ms) = m.ack - (m.acked + d)
      BY <2>1, <2>8, <2>11 DEF OwedMessage
    <3> QED BY <2>3, <2>4, <3>1
  <2>14. Tallied(ms, cs, wire, t - n, made.messages)
    <3>1. t - n = OwedControl(cs) + OwedMessage(ms)
      BY <1>5, <2>13
    <3> QED BY <1>5, <2>11, <2>12, <3>1 DEF Tallied
  <2>15. ASSUME NEW i \in 1..Len(messages), messages[i].len > 0
         PROVE  \/ \E j \in 1..Len(ms) : ms[j].id = messages[i].id /\ ms[j].state = "sending"
                \/ i = 1 /\ messages[1].sent = messages[1].len /\ t - n = 0
    <3>1. CASE i = 1
      <4>1. CASE m.sent = m.len /\ m.acked + d = m.ack
        <5>1. t - n = 0
          BY <2>3, <2>4, <4>1
        <5> QED BY <3>1, <4>1, <5>1 DEF m
      <4>2. CASE ~(m.sent = m.len /\ m.acked + d = m.ack)
        BY <2>8, <2>11, <3>1, <4>2
      <4> QED BY <4>1, <4>2
    <3>2. CASE i # 1
      <4>1. ms[i] = messages[i]
        BY <1>4, <2>2, <2>8, <2>10, <3>2
      <4> QED BY <1>6, <2>11, <2>15, <4>1
    <3> QED BY <3>1, <3>2
  <2>16. AfterCredit(ms, cs, t - n)
    BY <2>14, <2>15 DEF AfterCredit
  <2> QED BY <1>7, <2>16
<1> QED BY <1>8, <1>9

(* What MessagesAcknowledged says of the step, of the wire before it *)
Vanishes(i) ==
  messages[i].len > 0 /\ \A j \in 1..Len(messages') : messages'[j].id # messages[i].id
Acknowledged(i) ==
  /\ SentUpTo(wire, messages[i].id, messages[i].len)
  /\ \A b \in BytesOf(wire, messages[i].id) : b <= Len(wire) - unacked - confirmed'
AllAcknowledged == \A i \in 1..Len(messages) : Vanishes(i) => Acknowledged(i)
KeepsAll == InBalance' /\ AllAcknowledged /\ stray = {}

LEMMA StayingIsEnough ==
  ASSUME Keeps
  PROVE  KeepsAll
BY DEF Keeps, KeepsAll, AllStay, AllAcknowledged, Vanishes

LEMMA NoneOwed ==
  ASSUME NEW l \in Nat, NEW a \in Nat, NEW b \in Nat, a + b = 0
  PROVE  l - a - b = l
  OBVIOUS

LEMMA SocketAckKeeps ==
  ASSUME stray = {} => InBalance, SocketAck, stray' = {}, status' # "disconnected"
  PROVE  KeepsAll
<1> DEFINE done == controls # <<>> /\ controls[1].finished
           left(n) == ForMessages(n)
           ms(n) == IF left(n) # 0 /\ messages # <<>>
                      THEN <<MessageAck(messages[1], left(n))>> \o Tail(messages) ELSE messages
           cs == IF done THEN Tail(controls) ELSE controls
<1>1. /\ made' = made
      /\ \E n \in Sent : TakeAcks(n) /\ RunQueue(ms(n), cs, IF left(n) < 0 THEN {"partial"} ELSE {})
  <2>1. ~SocketGone
    BY DEF SocketGone
  <2> QED BY <2>1, Zenon DEF SocketAck
<1>2. PICK n \in Sent : TakeAcks(n) /\ RunQueue(ms(n), cs, IF left(n) < 0 THEN {"partial"} ELSE {})
  BY <1>1
<1>3. stray = {} /\ ~(left(n) < 0)
  <2>1. stray = {} /\ (IF left(n) < 0 THEN {"partial"} ELSE {}) = {}
    <3> HIDE DEF ms, cs, left
    <3> QED BY <1>2, StrayRuns, Zenon
  <2> HIDE DEF left
  <2> QED BY <2>1
<1>4. InBalance /\ unacked \in Nat /\ confirmed \in Nat /\ ControlsInLine(controls) /\ FrontGoing(messages)
      /\ unacked + confirmed = OwedControl(controls) + OwedMessage(messages)
  BY <1>3 DEF InBalance, Tallied
<1>5. n \in Nat /\ n <= confirmed /\ confirmed' = confirmed - n /\ confirmed' \in Nat
  BY <1>2, <1>4 DEF TakeAcks
<1>6. PICK c \in Nat : c = OwedControl(controls)
  BY <1>4, OwedControlIsNat
<1>7. left(n) = n - c
  <2>1. CASE done
    BY <1>6, <2>1 DEF ForMessages, OwedControl, ControlLength
  <2>2. CASE ~done
    BY <1>5, <1>6, <2>2 DEF ForMessages, OwedControl
  <2> QED BY <2>1, <2>2
<1>8. c <= n
  <2> HIDE DEF left
  <2> QED BY <1>3, <1>5, <1>7
<1>9. n - c # 0 => messages # <<>>
  <2>1. messages = <<>> => OwedMessage(messages) = 0
    BY DEF OwedMessage
  <2> QED BY <1>4, <1>5, <1>6, <1>8, <2>1
<1>10. Credits(ms(n), n - OwedControl(controls))
  <2> HIDE DEF left
  <2> QED BY <1>6, <1>7, <1>9 DEF Credits
<1>11. ControlsInLine(cs) /\ OwedControl(cs) = 0
  <2>1. controls \in Seq(ControlFrame) /\ \A i \in 1..Len(controls) :
          controls[i].len <= ShortFrame /\ (i > 1 => ~controls[i].finished)
    BY <1>4 DEF ControlsInLine
  <2>2. CASE done
    <3>1. /\ cs \in Seq(ControlFrame) /\ Len(cs) = Len(controls) - 1
          /\ \A i \in 1..Len(cs) : cs[i] = controls[i + 1] /\ i + 1 \in 1..Len(controls) /\ i + 1 > 1
      BY <2>1, <2>2
    <3> HIDE DEF cs
    <3>2. \A i \in 1..Len(cs) : cs[i].len <= ShortFrame /\ ~cs[i].finished
      BY <2>1, <3>1
    <3>3. cs # <<>> => ~cs[1].finished
      <4>1. cs # <<>> => 1 \in 1..Len(cs)
        BY <3>1
      <4> QED BY <3>2, <4>1
    <3> QED BY <3>1, <3>2, <3>3 DEF ControlsInLine, OwedControl
  <2>3. CASE ~done
    BY <1>4, <2>3 DEF OwedControl
  <2> QED BY <2>2, <2>3
<1> HIDE DEF ms, cs, left, done
<1>12. AfterCredit(ms(n), cs, unacked + confirmed')
  <2>1. n <= unacked + confirmed /\ unacked + confirmed - n = unacked + confirmed' /\ OwedControl(controls) <= n
    BY <1>4, <1>5, <1>6, <1>8
  <2>2. AfterCredit(ms(n), cs, unacked + confirmed - n)
    BY <1>4, <1>5, <1>10, <1>11, <2>1, CreditKeeps
  <2> QED BY <2>1, <2>2
<1>13. Tallied(ms(n), cs, wire, unacked + confirmed', made'.messages)
  BY <1>1, <1>12 DEF AfterCredit
<1>14. RunsOn(ms(n), unacked + confirmed', made'.messages)
  BY <1>2, <1>4, <1>13, RunKeeps
<1>15. InBalance' /\ Stay(ms(n), messages')
  BY <1>4, <1>5, <1>14, RunsOnCounted
<1>16. ASSUME NEW i \in 1..Len(messages), Vanishes(i) PROVE Acknowledged(i)
  <2>1. messages[i].len > 0
    BY <1>16 DEF Vanishes
  <2>2. ~\E j \in 1..Len(ms(n)) : ms(n)[j].id = messages[i].id /\ ms(n)[j].state = "sending"
    BY <1>15, <1>16 DEF Stay, Vanishes
  <2>3. i = 1 /\ messages[1].sent = messages[1].len /\ unacked + confirmed' = 0
    BY <1>12, <2>1, <2>2 DEF AfterCredit
  <2>4. OnTheWire(wire, messages, made.messages) /\ messages # <<>>
    BY <1>4 DEF InBalance, Tallied
  <2>5. SentUpTo(wire, messages[i].id, messages[i].len) /\ wire \in Seq(SocketByte)
    BY <2>3, <2>4 DEF OnTheWire
  <2>6. \A b \in BytesOf(wire, messages[i].id) : b <= Len(wire) - unacked - confirmed'
    <3>1. Len(wire) - unacked - confirmed' = Len(wire)
      <4>1. Len(wire) \in Nat /\ unacked \in Nat /\ confirmed' \in Nat
        BY <1>4, <1>5, <2>5
      <4>2. unacked + confirmed' = 0
        BY <2>3, Zenon
      <4> QED BY <4>1, <4>2, NoneOwed, Zenon
    <3> QED BY <2>5, <3>1 DEF BytesOf
  <2> QED BY <2>5, <2>6 DEF Acknowledged
<1> QED BY <1>3, <1>15, <1>16 DEF KeepsAll, AllAcknowledged

(* What MessagesAcknowledged asks of a step *)
Whole == stray' = {} /\ status' # "disconnected" =>
           (messages # <<>> => stray = {}) /\ AllAcknowledged
MadeTyped == made \in [messages : Nat, controls : Nat]

LEMMA NothingToLose ==
  ASSUME messages = <<>>
  PROVE  Whole
BY DEF Whole, AllAcknowledged

LEMMA SameQueue ==
  ASSUME messages' = messages, stray' = stray
  PROVE  Whole
BY DEF Whole, AllAcknowledged, Vanishes

(* A step of an open socket that leaves it open *)
LEMMA OpenStaysOpen ==
  ASSUME MessageInv, Open, status' \in {"connected", "disconnecting"}, source' = source,
         MadeTyped', stray' = {} => KeepsAll
  PROVE  MessageInv' /\ Whole
<1>1. source = "none"
  BY DEF MessageInv, Open
<1>2. Open'
  BY DEF Open
<1>3. stray' = {} => InBalance' /\ AllAcknowledged /\ stray = {}
  BY DEF KeepsAll
<1>4. status' \notin {"asked", "400", "401"} /\ status' # "waiting"
  OBVIOUS
<1>5. MessageInv'
  BY <1>1, <1>2, <1>3, <1>4 DEF MessageInv, MadeTyped
<1>6. Whole
  BY <1>3 DEF Whole
<1> QED BY <1>5, <1>6

LEMMA SocketRequestKeeps ==
  ASSUME MessageInv, NEW v, NEW key, NEW admitted, SocketRequest(v, key, admitted), source' = source
  PROVE  MessageInv' /\ Whole
<1>1. /\ status = "asked" /\ UNCHANGED <<confirmed, messages, controls, made>>
      /\ \/ status' \in {"400", "401"} /\ NoWrite
         \/ status' = "waiting" /\ \E o \in Outcomes([i \in 1..SocketHead |-> [head |-> i]]) :
                                  Write([i \in 1..SocketHead |-> [head |-> i]], o)
  BY DEF SocketRequest
<1>2. /\ messages = <<>> /\ controls = <<>> /\ source = "none" /\ MadeTyped
      /\ wire = <<>> /\ unacked = 0 /\ confirmed = 0
  BY <1>1 DEF MessageInv, MadeTyped, Open
<1>3. MadeTyped' /\ messages' = <<>> /\ controls' = <<>> /\ source' = "none" /\ confirmed' = 0
  BY <1>1, <1>2 DEF MadeTyped
<1>4. Whole
  BY <1>2, NothingToLose
<1>5. CASE status' \in {"400", "401"} /\ NoWrite
  <2>1. wire' = <<>> /\ unacked' = 0
    BY <1>2, <1>5 DEF NoWrite
  <2> QED BY <1>3, <1>4, <1>5, <2>1 DEF MessageInv, MadeTyped, Open
<1> DEFINE head == [i \in 1..SocketHead |-> [head |-> i]]
<1>6. CASE status' = "waiting" /\ \E o \in Outcomes(head) : Write(head, o)
  <2>1. PICK o \in Outcomes(head) : Write(head, o)
    BY <1>6
  <2>2. head \in Seq(SocketByte) /\ Len(head) = SocketHead /\ \A i \in 1..Len(head) : ~OfMessage(head[i])
    <3>1. \A i \in 1..SocketHead : [head |-> i] \in [head : Nat]
      BY SocketLengths
    <3>2. \A i \in 1..SocketHead : head[i] \in SocketByte /\ ~OfMessage(head[i])
      BY <3>1, Kinds DEF SocketByte
    <3> HIDE DEF head
    <3>3. head = [i \in 1..SocketHead |-> head[i]]
      BY DEF head
    <3>4. head \in [1..SocketHead -> SocketByte]
      BY <3>2, <3>3
    <3>5. head \in Seq(SocketByte) /\ Len(head) = SocketHead
      BY <3>4, SocketLengths
    <3> QED BY <3>2, <3>5
  <2> HIDE DEF head
  <2>3. o.taken \in Nat /\ o.taken <= Len(head)
    <3>1. Least(Space, Len(head)) \in Nat /\ Least(Space, Len(head)) <= Len(head)
      BY <1>2, <2>2, SocketLengths DEF Least, Space
    <3> QED BY <2>2, <3>1, SocketLengths DEF Outcomes
  <2>4. wire' = <<>> \o SubSeq(head, 1, o.taken) /\ unacked' = 0 + o.taken
    BY <1>2, <2>1 DEF Write
  <2>5. /\ SubSeq(head, 1, o.taken) \in Seq(SocketByte) /\ Len(SubSeq(head, 1, o.taken)) = o.taken
        /\ \A i \in 1..o.taken : SubSeq(head, 1, o.taken)[i] = head[i]
    BY <2>2, <2>3
  <2>6. wire' \in Seq(SocketByte) /\ Len(wire') = o.taken /\ \A i \in 1..o.taken : wire'[i] = head[i]
    <3> DEFINE part == SubSeq(head, 1, o.taken)
    <3> HIDE DEF part
    <3>1. part \in Seq(SocketByte) => <<>> \o part = part
      OBVIOUS
    <3> QED BY <2>4, <2>5, <3>1 DEF part
  <2>7. unacked' \in Nat /\ \A i \in 1..Len(wire') : ~OfMessage(wire'[i])
    BY <2>2, <2>3, <2>4, <2>6
  <2> QED BY <1>3, <1>4, <1>6, <2>6, <2>7 DEF MessageInv, MadeTyped, Open
<1> QED BY <1>1, <1>5, <1>6

LEMMA SocketOpensKeeps ==
  ASSUME MessageInv, SocketOpens, source' = source
  PROVE  MessageInv' /\ Whole
<1>1. /\ status = "waiting" /\ status' = "connected" /\ UNCHANGED <<wire, unacked, messages, controls, made>>
      /\ stray' = IF unacked + confirmed' > 0 THEN stray \cup {"head"} ELSE stray
  BY DEF SocketOpens, NoWrite
<1>2. /\ messages = <<>> /\ controls = <<>> /\ source = "none" /\ MadeTyped /\ wire \in Seq(SocketByte)
      /\ unacked \in Nat /\ confirmed \in Nat /\ \A i \in 1..Len(wire) : ~OfMessage(wire[i])
  BY <1>1 DEF MessageInv, MadeTyped, Open
<1>3. confirmed' \in Nat
  BY <1>2 DEF SocketOpens, TakeAcks
<1>4. Whole
  BY <1>2, NothingToLose
<1>5. MadeTyped'
  BY <1>1, <1>2 DEF MadeTyped
<1>6. ASSUME stray' = {} PROVE InBalance'
  <2>1. unacked + confirmed' = 0
    <3>1. ~(unacked + confirmed' > 0)
      BY <1>1, <1>6
    <3>2. PICK u \in Nat, c \in Nat : u = unacked /\ c = confirmed'
      BY <1>2, <1>3
    <3>3. ~(u + c > 0)
      BY <3>1, <3>2
    <3>4. u + c = 0
      BY <3>3
    <3> QED BY <3>2, <3>4
  <2>2. made.messages \in Nat
    BY <1>2 DEF MadeTyped
  <2>3. Tallied(<<>>, <<>>, wire, 0, made.messages) /\ FrontGoing(<<>>)
    BY <1>2, <2>2 DEF Tallied, InLine, ControlsInLine, OnTheWire, OwedControl, OwedMessage, FrontGoing
  <2> QED BY <1>1, <1>2, <1>3, <2>1, <2>3 DEF InBalance
<1> QED BY <1>1, <1>2, <1>4, <1>5, <1>6 DEF MessageInv, MadeTyped, Open

LEMMA SocketGoneKeeps ==
  ASSUME MessageInv, status # "none", SocketGone, source' = source
  PROVE  MessageInv' /\ Whole
<1>1. /\ status' = "disconnected" /\ messages' = <<>> /\ controls' = <<>> /\ made' = made
  BY DEF SocketGone
<1>2. source = "none" /\ made \in [messages : Nat, controls : Nat]
  BY DEF MessageInv
<1>3. MessageInv'
  BY <1>1, <1>2 DEF MessageInv, Open
<1> QED BY <1>1, <1>3 DEF Whole

(* The peer acknowledges: what is not yet credited stays as much. *)
LEMMA SocketAcksKeep ==
  ASSUME MessageInv, status # "none", PeerAcks, UNCHANGED socketVars, source' = source
  PROVE  MessageInv' /\ Whole
<1>1. UNCHANGED <<status, messages, controls, made, stray, wire>>
  BY DEF PeerAcks, socketVars
<1>2. PICK n \in 1..unacked : unacked' = unacked - n /\ confirmed' = confirmed + n
  BY DEF PeerAcks
<1>3. ASSUME unacked \in Nat, confirmed \in Nat
      PROVE  unacked' \in Nat /\ confirmed' \in Nat /\ unacked' + confirmed' = unacked + confirmed
  BY <1>2, <1>3
<1>4. unacked # 0
  BY <1>2
<1>5. Whole
  BY <1>1, SameQueue
<1>6. ASSUME InBalance PROVE InBalance'
  BY <1>1, <1>3, <1>6 DEF InBalance
<1>7. CASE Open
  BY <1>1, <1>5, <1>6, <1>7 DEF MessageInv, Open
<1>8. CASE ~Open
  BY <1>1, <1>3, <1>4, <1>5, <1>8 DEF MessageInv, Open
<1> QED BY <1>7, <1>8

LEMMA MessageStays ==
  ASSUME MessageInv, UNCHANGED <<stream, socketVars>>, status # "none" => source' = source
  PROVE  MessageInv' /\ Whole
<1>1. UNCHANGED <<status, messages, controls, made, stray, wire, unacked, confirmed>>
  BY DEF stream, socketVars
<1>2. Whole
  BY <1>1, SameQueue
<1>3. InBalance => InBalance'
  BY <1>1 DEF InBalance
<1>4. Open' = Open
  BY <1>1 DEF Open
<1>5. MessageInv'
  BY <1>1, <1>3, <1>4 DEF MessageInv
<1> QED BY <1>2, <1>5

LEMMA MadeStays ==
  ASSUME MadeTyped, SendMessage \/ SendFailsToCopy \/ PrintFails \/ SendControl
  PROVE  MadeTyped'
<1>1. made' = [made EXCEPT !.messages = @ + 1] \/ made' = [made EXCEPT !.controls = @ + 1]
  BY Zenon DEF SendMessage, SendFailsToCopy, PrintFails, SendControl
<1> QED BY <1>1 DEF MadeTyped

LEMMA MessageStarts ==
  ASSUME Init
  PROVE  MessageInv
<1>1. CASE \E s \in Scenarios :
             /\ StreamInit(Faults - s.faults) /\ NoServer
             /\ IF s.events > 0 THEN EventInit(s.events) /\ NoSocket ELSE SocketInit(s) /\ NoSource
  <2>1. PICK s \in Scenarios :
          /\ StreamInit(Faults - s.faults) /\ NoServer
          /\ IF s.events > 0 THEN EventInit(s.events) /\ NoSocket ELSE SocketInit(s) /\ NoSource
    BY <1>1
  <2>2. CASE NoSocket
    BY <2>2 DEF MessageInv, NoSocket, Open
  <2>3. CASE SocketInit(s) /\ NoSource
    <3>1. made \in [messages : Nat, controls : Nat]
      <4>1. /\ s.messages \in 0..Messages /\ s.controls \in 0..Controls
            /\ Messages \in Nat /\ Controls \in Nat
        BY SocketAssumption
      <4>2. Messages - s.messages \in Nat /\ Controls - s.controls \in Nat
        BY <4>1
      <4> QED BY <2>3, <4>2 DEF SocketInit
    <3>2. /\ status = "asked" /\ messages = <<>> /\ controls = <<>> /\ source = "none"
          /\ wire = <<>> /\ unacked = 0 /\ confirmed = 0
      BY <2>1, <2>3 DEF SocketInit, NoSource, StreamInit
    <3> QED BY <3>1, <3>2 DEF MessageInv, Open
  <2> QED BY <2>1, <2>2, <2>3
<1>2. CASE NoSocket
  BY <1>2 DEF MessageInv, NoSocket, Open
<1> QED BY <1>1, <1>2 DEF Init

(* A connection without a socket does not get one. *)
LEMMA NoSocketStays ==
  ASSUME MessageInv, status = "none", [Next]_vars
  PROVE  MessageInv' /\ Whole
<1>1. UNCHANGED socketVars
  BY NotOfASocket DEF Next, vars
<1>2. messages = <<>>
  BY DEF MessageInv, Open
<1>3. MessageInv'
  BY <1>1 DEF MessageInv, socketVars, Open
<1> QED BY <1>2, <1>3, NothingToLose

LEMMA SocketMessageStep ==
  ASSUME MessageInv, SocketInv, status # "none", SocketNext, source' = source
  PROVE  MessageInv' /\ Whole
<1>1. source = "none" /\ MadeTyped /\ (Open /\ stray = {} => InBalance)
  BY DEF MessageInv, MadeTyped
<1>2. CASE \E v \in {0, 8, 13}, key, admitted \in BOOLEAN : SocketRequest(v, key, admitted)
  BY <1>2, SocketRequestKeeps
<1>3. CASE SocketOpens
  BY <1>3, SocketOpensKeeps
<1>4. CASE SocketGone
  BY <1>4, SocketGoneKeeps
<1>5. CASE SocketEnds
  BY <1>4, <1>5 DEF SocketEnds
<1>6. CASE PeerAcks /\ UNCHANGED socketVars
  BY <1>6, SocketAcksKeep
<1>7. CASE SocketAck /\ ~SocketGone
  <2>1. Open /\ UNCHANGED <<status, made>>
    BY <1>7, Zenon DEF SocketAck
  <2>2. stray' = {} => KeepsAll
    <3>1. status' # "disconnected"
      BY <2>1 DEF Open
    <3> QED BY <1>1, <1>7, <2>1, <3>1, SocketAckKeeps
  <2> QED BY <1>1, <2>1, <2>2, OpenStaysOpen DEF MadeTyped, Open
<1>8. CASE SocketPoll
  <2>1. Open /\ UNCHANGED <<status, made>>
    BY <1>8 DEF SocketPoll
  <2>2. stray' = {} => KeepsAll
    BY <1>1, <1>8, <2>1, SocketPollKeeps, StayingIsEnough
  <2> QED BY <1>1, <2>1, <2>2, OpenStaysOpen DEF MadeTyped, Open
<1>9. CASE SocketSegment
  <2>1. Open /\ UNCHANGED <<status, made, messages, controls, wire, unacked, confirmed, stray>>
    BY <1>9 DEF SocketSegment, stream
  <2>2. stray' = {} => KeepsAll
    BY <1>1, <2>1, NothingMoves, StayingIsEnough
  <2> QED BY <1>1, <2>1, <2>2, OpenStaysOpen DEF MadeTyped, Open
<1>10. CASE SocketData /\ ~SocketGone
  <2>1. Open /\ status' \in {status, "disconnecting"} /\ made' = made
    BY <1>10, Zenon DEF SocketData
  <2>2. stray' = {} => KeepsAll
    <3>1. status' # "disconnected"
      BY <2>1 DEF Open
    <3> QED BY <1>1, <1>10, <2>1, <3>1, SocketDataKeeps, StayingIsEnough
  <2> QED BY <1>1, <2>1, <2>2, OpenStaysOpen DEF MadeTyped, Open
<1>11. CASE SendMessage \/ SendFailsToCopy \/ PrintFails \/ SendControl
  <2>1. status = "connected" /\ status' = status
    BY <1>11, Zenon DEF SendMessage, SendFailsToCopy, PrintFails, SendControl
  <2>2. Open
    BY <2>1 DEF Open
  <2>3. MadeTyped'
    BY <1>1, <1>11, MadeStays
  <2>4. stray = {} => InBalance
    BY <1>1, <2>2
  <2>5. stray' = {} => Keeps
    BY <1>1, <1>11, <2>4, SendMessageKeeps, SendFailsKeeps, PrintFailsKeeps, SendControlKeeps DEF MadeTyped
  <2> QED BY <2>1, <2>2, <2>3, <2>5, StayingIsEnough, OpenStaysOpen
<1> QED BY <1>2, <1>3, <1>4, <1>5, <1>6, <1>7, <1>8, <1>9, <1>10, <1>11, Zenon DEF SocketNext

LEMMA MessageStep ==
  ASSUME MessageInv, SocketInv, [Next]_vars
  PROVE  MessageInv' /\ Whole
<1>1. CASE status = "none"
  BY <1>1, NoSocketStays
<1> SUFFICES ASSUME status # "none" PROVE MessageInv' /\ Whole
  BY <1>1
<1>2. source = "none" /\ source' = source
  BY NoSourceStays DEF MessageInv
<1>3. CASE EventNext /\ UNCHANGED <<socketVars, serverVars>>
  <2>1. PeerAcks
    BY <1>2, <1>3 DEF EventNext, EventRequest, SendEvent, EventOpens, AddClient, EventAck, EventPoll, EventsEnd
  <2> QED BY <1>2, <1>3, <2>1, SocketAcksKeep
<1>4. CASE SocketNext
  BY <1>2, <1>4, SocketMessageStep
<1>5. CASE UNCHANGED <<stream, socketVars>>
  BY <1>2, <1>5, MessageStays
<1> QED BY <1>3, <1>4, <1>5 DEF Next, vars

(* What the peer has yet to acknowledge is of the control frame and of the *)
(* message at the front of their queues, no other message has gone out in  *)
(* part, and of this one the first bytes have, in order: however the polls *)
(* and the acknowledgements, the calls of the application and the frames   *)
(* of the peer follow each other, unless one has been credited wrongly.    *)
THEOREM MessageInvariant == Spec => []MessageInv
<1>1. Init => MessageInv
  BY MessageStarts
<1>2. MessageInv /\ SocketInv /\ [Next]_vars => MessageInv'
  BY MessageStep
<1>3. Spec => []SocketInv
  BY SocketInvariant
<1> QED BY <1>1, <1>2, <1>3, PTL DEF Spec

LEMMA MessagesGo ==
  ASSUME MessageInv, MessageInv', Whole, stray' = {}, status' # "disconnected",
         NEW i \in DOMAIN messages, messages[i].len > 0,
         \A j \in DOMAIN messages' : messages'[j].id # messages[i].id
  PROVE  LET bytes == MessageBytes(messages[i].id)
         IN  /\ \A k \in 1..messages[i].len : \E b \in bytes : wire[b].at = k
             /\ \A b \in bytes : wire[b].at \in 1..messages[i].len
             /\ \A b, c \in bytes : b < c => wire[b].at < wire[c].at
             /\ \A b \in bytes : b <= Len(wire) - unacked - confirmed'
<1>1. messages # <<>>
  OBVIOUS
<1>2. stray = {} /\ AllAcknowledged
  BY <1>1 DEF Whole
<1>3. InBalance
  BY <1>1, <1>2 DEF MessageInv, Open
<1>4. messages \in Seq(Letter) /\ wire \in Seq(SocketByte)
  BY <1>3 DEF InBalance, Tallied, InLine, OnTheWire
<1>5. DOMAIN messages' = 1..Len(messages')
  <2>1. CASE Open'
    <3>1. messages' \in Seq(Letter)
      BY <2>1 DEF MessageInv, Open, InBalance, Tallied, InLine
    <3> QED BY <3>1
  <2>2. CASE ~Open'
    <3>1. messages' = <<>>
      BY <2>2 DEF MessageInv
    <3> QED BY <3>1
  <2> QED BY <2>1, <2>2
<1>6. i \in 1..Len(messages) /\ DOMAIN wire = 1..Len(wire)
  BY <1>4
<1>7. Acknowledged(i)
  BY <1>2, <1>5, <1>6 DEF AllAcknowledged, Vanishes
<1>8. MessageBytes(messages[i].id) = BytesOf(wire, messages[i].id)
  BY <1>6 DEF MessageBytes, BytesOf, OfMessage
<1> QED BY <1>7, <1>8, Zenon DEF Acknowledged, SentUpTo

(* _messageQueue loses a message only when each of its bytes has gone out, *)
(* once and in order, and the peer has acknowledged them all.              *)
THEOREM MessagesArrive == Spec => MessagesAcknowledged
<1> DEFINE A == \A i \in DOMAIN messages :
       (stray' = {} /\ status' # "disconnected" /\ messages[i].len > 0
          /\ \A j \in DOMAIN messages' : messages'[j].id # messages[i].id) =>
         LET bytes == MessageBytes(messages[i].id)
         IN  /\ \A k \in 1..messages[i].len : \E b \in bytes : wire[b].at = k
             /\ \A b \in bytes : wire[b].at \in 1..messages[i].len
             /\ \A b, c \in bytes : b < c => wire[b].at < wire[c].at
             /\ \A b \in bytes : b <= Len(wire) - unacked - confirmed'
<1>1. MessageInv /\ SocketInv /\ [Next]_vars => [A]_vars
  <2> SUFFICES ASSUME MessageInv, SocketInv, [Next]_vars PROVE A
    OBVIOUS
  <2>1. MessageInv' /\ Whole
    BY MessageStep
  <2> QED BY <2>1, MessagesGo, Zenon
<1>2. Spec => []MessageInv
  BY MessageInvariant
<1>3. Spec => []SocketInv
  BY SocketInvariant
<1> HIDE DEF A
<1>4. Spec => [][A]_vars
  BY <1>1, <1>2, <1>3, PTL DEF Spec
<1> QED BY <1>4 DEF A, MessagesAcknowledged
=============================================================================
