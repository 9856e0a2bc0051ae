--------------------------- MODULE AsyncTcpProofs ---------------------------
(***************************************************************************)
(* What becomes of the events of AsyncTCP, for any number of connections   *)
(* and addresses and any length of the queue.                              *)
(***************************************************************************)
EXTENDS AsyncTcp, SequenceTheorems, TLAPS

Opened(c) == link[c] # "none"
Current   == {task.event} \ {None}

Rotating  == task.pc \in {"first", "first_back", "rest", "rest_take", "rest_back"}
SecondLap == task.pc \in {"rest", "rest_take", "rest_back"}

(* An event is one of those raised for its connection, and what its number  *)
(* says; FIN and ERROR are the last.                                        *)
Genuine(e) ==
  /\ Opened(e.conn) /\ e.n <= raised[e.conn]
  /\ e.kind = "CLEAR" <=> e.n = 0
  /\ e.kind = "ACCEPT" <=> e.n = 1
  /\ e.arg = IF e.n = 1 THEN Server ELSE addr[e.conn]
  /\ e.kind \in {"FIN", "ERROR"} => e.n = raised[e.conn]
  /\ e.kind \in {"FIN", "ERROR", "CLEAR"} => link[e.conn] # "open"
  /\ e.kind = "FIN" => link[e.conn] = "closed"

Numbers ==
  /\ \A c \in Conns : Opened(c) <=> raised[c] # 0
  /\ \A c \in Conns : taken[c] \subseteq 1..raised[c]
  /\ \A e \in Unhandled \cup Current : Genuine(e)
  /\ \A i \in DOMAIN stalled :
       /\ stalled[i].event.n = raised[stalled[i].event.conn]
       /\ stalled[i].front <=> stalled[i].event.n = 1

(* The client of a connection lives at its address until it is deleted. *)
Living ==
  /\ \A c \in Conns : Opened(c) => addr[c] \in Addrs
  /\ \A c \in Conns : Opened(c) /\ c \notin deleted => client[addr[c]] = c
  /\ \A a \in Addrs : client[a] # None =>
       Opened(client[a]) /\ addr[client[a]] = a /\ client[a] \notin deleted
  /\ \A c \in wired \cup lost : Opened(c)

(* An event waits at one place, and not when it has been taken out. *)
Once ==
  /\ WaitsOnce
  /\ \A e, f \in Unhandled : e.conn = f.conn /\ e.n = f.n => e = f
  /\ \A e \in Unhandled : e.n \notin taken[e.conn]
  /\ \A e \in Current : e.n # 0 => e.n \in taken[e.conn]
  /\ \A c \in Conns : c \notin lost \cup deleted => taken[c] \cup Waiting(c) = 1..raised[c]

(* ACCEPT is never thrown away. *)
Welcome ==
  /\ \A c \in Conns : Opened(c) => c \in wired \/ 1 \in Waiting(c)
                                   \/ \E e \in Current : e.conn = c /\ e.kind = "ACCEPT"
  /\ \A c \in wired : 1 \in taken[c]

(* What the task works at *)
Working ==
  /\ task.pc = "get" <=> task.event = None
  /\ task.packet # None <=> task.pc \in {"first_back", "rest_back"}
  /\ task.first # None <=> SecondLap
  /\ task.pc # "get" /\ Event.kind = "ACCEPT" => task.pc = "handle"
  /\ Rotating => Event.kind = "CLEAR"
  /\ task.pc \in {"api", "close", "clear", "tcp_close", "discard"} =>
       Event.kind \in {"RECV", "POLL", "FIN"} /\ Target = Event.conn
  /\ task.pc \in {"close", "clear", "tcp_close", "discard"} /\ Event.kind # "FIN" => Event.conn \in wired
  /\ task.pc \in {"clear", "tcp_close", "discard"} => link[Event.conn] # "open"
  /\ task.pc = "discard" => link[Event.conn] = "closed" /\ \A e \in AtDoor : e.conn # Event.conn

(* Of the queue when an event was taken out: what was ahead of its time *)
Overtaking ==
  /\ \A e \in Current, f \in InQueue : Earlier(f, e) => e.conn \in overtaken
  /\ \A e \in Current : e.kind = "FIN" => e.conn \in wired \cup overtaken

(* There is one CLEAR at most, with nothing but ACCEPTs ahead of it, from   *)
(* the end of a connection until it is handled.                             *)
Clears ==
  /\ \A i \in DOMAIN queue : queue[i].kind = "CLEAR" =>
       /\ \A j \in 1..i-1 : queue[j].kind = "ACCEPT"
       /\ \/ task.pc = "get"
          \/ task.pc = "handle" /\ Event.kind = "ACCEPT"
          \/ task.pc \in {"tcp_close", "discard"} /\ Event.conn = queue[i].conn
  /\ \A e \in InHand \cup AtDoor : e.kind # "CLEAR"
  /\ task.pc \in {"tcp_close", "discard"} =>
       \E e \in InQueue : e.kind = "CLEAR" /\ e.conn = Event.conn
  /\ \A e \in InQueue \cup Current :
       e.kind = "CLEAR" /\ task.pc \notin {"tcp_close", "discard"} => e.conn \in deleted \cup overtaken

(* Events of a client that is deleted are thrown away in time: by a CLEAR   *)
(* that waits or is handled, on its second lap before it meets the packet   *)
(* that ends it.                                                           *)
Handled ==
  \A e \in InHand \cup Current : e.n # 0 /\ e.conn \in deleted => e.conn \in overtaken

Swept ==
  \A j \in DOMAIN queue : queue[j].n # 0 /\ queue[j].conn \in deleted \ overtaken =>
    /\ \E e \in InQueue \cup Current : e.kind = "CLEAR" /\ e.conn = queue[j].conn
    /\ SecondLap => \E k \in j+1..Len(queue) : queue[k] = task.first

Marked ==
  /\ SecondLap => task.first \in InQueue
  /\ task.pc = "rest_take" => queue # <<>> /\ Head(queue) # task.first

Gone == Handled /\ Swept /\ Marked /\ StaleOnlyWhenOvertaken

LostInv == \A c \in lost : c \in overtaken \/ Reused(c)

IInv ==
  /\ TypeOK /\ Numbers /\ Living /\ Once /\ Welcome /\ Working
  /\ Overtaking /\ Clears /\ Gone /\ LostInv /\ DeletedIsUnreachable

-----------------------------------------------------------------------------
(* The three ways in which the queue changes *)

LEMMA Places ==
  ASSUME TypeOK
  PROVE  /\ queue \in Seq(Events) /\ DOMAIN queue = 1..Len(queue) /\ Len(queue) \in Nat
         /\ \A i \in 1..Len(queue) : queue[i] \in InQueue /\ queue[i] \in Events
         /\ \A e \in InQueue : e \in Events /\ \E i \in 1..Len(queue) : queue[i] = e
BY DEF TypeOK, InQueue

LEMMA AllEvents ==
  ASSUME TypeOK
  PROVE  /\ Unhandled \subseteq Events /\ Current \subseteq Events /\ InHand \subseteq Events
         /\ \A e \in Unhandled \cup Current :
              e.conn \in Conns /\ e.n \in Nat /\ e.kind \in Kinds /\ e.arg \in Addrs \cup {Server}
<1>1. InQueue \subseteq Events
  BY Places
<1>2. AtDoor \subseteq Events
  <2>1. \A i \in DOMAIN stalled : stalled[i].event \in Events
    <3> DEFINE Late == [event : Events, front : BOOLEAN]
    <3>1. stalled \in Seq(Late)
      BY DEF TypeOK
    <3>2. \A late \in Late : late.event \in Events
      OBVIOUS
    <3> HIDE DEF Late
    <3>3. \A i \in DOMAIN stalled : stalled[i] \in Late
      BY <3>1
    <3> QED BY <3>2, <3>3
  <2> QED BY <2>1 DEF AtDoor
<1>3. InHand \subseteq Events /\ Current \subseteq Events
  BY DEF TypeOK, InHand, Current
<1> QED BY <1>1, <1>2, <1>3 DEF Unhandled, Events

LEMMA AtBack ==
  ASSUME TypeOK, NEW e \in Events, queue' = Append(queue, e)
  PROVE  /\ queue' \in Seq(Events) /\ Len(queue') = Len(queue) + 1
         /\ DOMAIN queue = 1..Len(queue) /\ DOMAIN queue' = 1..Len(queue) + 1
         /\ \A i \in 1..Len(queue) : queue'[i] = queue[i]
         /\ queue'[Len(queue) + 1] = e
         /\ InQueue' = InQueue \cup {e}
<1>1. /\ queue \in Seq(Events) /\ DOMAIN queue = 1..Len(queue) /\ Len(queue) \in Nat
      /\ queue' \in Seq(Events) /\ Len(queue') = Len(queue) + 1
      /\ DOMAIN queue' = 1..Len(queue) + 1
      /\ \A i \in 1..Len(queue) : queue'[i] = queue[i]
      /\ queue'[Len(queue) + 1] = e
  BY DEF TypeOK
<1>2. InQueue' = InQueue \cup {e}
  BY <1>1 DEF InQueue
<1> QED BY <1>1, <1>2

LEMMA InFront ==
  ASSUME TypeOK, NEW e \in Events, queue' = <<e>> \o queue
  PROVE  /\ queue' \in Seq(Events) /\ Len(queue') = Len(queue) + 1
         /\ DOMAIN queue = 1..Len(queue) /\ DOMAIN queue' = 1..Len(queue) + 1
         /\ queue'[1] = e
         /\ \A i \in 2..Len(queue) + 1 : i - 1 \in 1..Len(queue) /\ queue'[i] = queue[i - 1]
         /\ InQueue' = InQueue \cup {e}
<1>1. /\ queue \in Seq(Events) /\ DOMAIN queue = 1..Len(queue) /\ Len(queue) \in Nat
      /\ queue' \in Seq(Events) /\ Len(queue') = Len(queue) + 1
      /\ DOMAIN queue' = 1..Len(queue) + 1
      /\ queue'[1] = e
      /\ \A i \in 2..Len(queue) + 1 : i - 1 \in 1..Len(queue) /\ queue'[i] = queue[i - 1]
  BY DEF TypeOK
<1>2. ASSUME NEW i \in 1..Len(queue)
      PROVE  i + 1 \in DOMAIN queue' /\ queue'[i + 1] = queue[i]
  BY <1>1
<1>3. InQueue' \subseteq InQueue \cup {e}
  BY <1>1 DEF InQueue
<1>4. e \in InQueue'
  BY <1>1 DEF InQueue
<1>5. InQueue \subseteq InQueue'
  <2> SUFFICES ASSUME NEW f \in InQueue PROVE f \in InQueue'
    OBVIOUS
  <2>1. PICK i \in 1..Len(queue) : f = queue[i]
    BY <1>1 DEF InQueue
  <2>2. i + 1 \in DOMAIN queue' /\ f = queue'[i + 1]
    BY <2>1, <1>2
  <2> QED BY <2>2 DEF InQueue
<1> QED BY <1>1, <1>3, <1>4, <1>5

LEMMA OffFront ==
  ASSUME TypeOK, queue # <<>>, queue' = Tail(queue)
  PROVE  /\ queue' \in Seq(Events) /\ Len(queue) \in Nat \ {0} /\ Len(queue') = Len(queue) - 1
         /\ DOMAIN queue = 1..Len(queue) /\ DOMAIN queue' = 1..Len(queue) - 1
         /\ Head(queue) = queue[1] /\ Head(queue) \in InQueue
         /\ \A i \in 1..Len(queue) - 1 : i + 1 \in 2..Len(queue) /\ queue'[i] = queue[i + 1]
         /\ InQueue = InQueue' \cup {Head(queue)}
<1>1. /\ queue \in Seq(Events) /\ DOMAIN queue = 1..Len(queue) /\ Len(queue) \in Nat \ {0}
      /\ queue' \in Seq(Events) /\ Len(queue') = Len(queue) - 1
      /\ DOMAIN queue' = 1..Len(queue) - 1
      /\ Head(queue) = queue[1]
      /\ \A i \in 1..Len(queue) - 1 : i + 1 \in 2..Len(queue) /\ queue'[i] = queue[i + 1]
  BY DEF TypeOK
<1>2. ASSUME NEW i \in 2..Len(queue)
      PROVE  i - 1 \in DOMAIN queue' /\ queue'[i - 1] = queue[i]
  BY <1>1
<1>3. InQueue' \subseteq InQueue /\ Head(queue) \in InQueue
  BY <1>1 DEF InQueue
<1>4. InQueue \subseteq InQueue' \cup {Head(queue)}
  <2> SUFFICES ASSUME NEW f \in InQueue, f # Head(queue) PROVE f \in InQueue'
    OBVIOUS
  <2>1. PICK i \in 1..Len(queue) : f = queue[i]
    BY <1>1 DEF InQueue
  <2>2. i \in 2..Len(queue)
    BY <2>1, <1>1
  <2>3. i - 1 \in DOMAIN queue' /\ f = queue'[i - 1]
    BY <2>1, <2>2, <1>2
  <2> QED BY <2>3 DEF InQueue
<1> QED BY <1>1, <1>3, <1>4

-----------------------------------------------------------------------------
(* Steps of the task that leave the events where they are *)

LEMMA Initially == Init => IInv
<1> SUFFICES ASSUME Init PROVE IInv
  OBVIOUS
<1> USE AsyncTcpAssumption, NoneAssumption DEF Init
<1>1. InQueue = {} /\ InHand = {} /\ AtDoor = {} /\ Current = {} /\ Unhandled = {}
  BY DEF InQueue, InHand, AtDoor, Current, Unhandled
<1>2. TypeOK
  BY DEF TypeOK, Links, Points
<1>3. Numbers /\ Living /\ Once /\ Welcome
  BY <1>1 DEF Numbers, Living, Once, Welcome, Waiting, WaitsOnce, Opened
<1>4. Working /\ Overtaking /\ Clears /\ Gone
  BY <1>1 DEF Working, Overtaking, Clears, Gone, Handled, Swept, Marked, Rotating, SecondLap, StaleOnlyWhenOvertaken
<1>5. LostInv /\ DeletedIsUnreachable
  BY DEF LostInv, DeletedIsUnreachable
<1> QED BY <1>2, <1>3, <1>4, <1>5 DEF IInv

Quiet == UNCHANGED <<queue, lwip, client, addr, deleted, taken, overtaken, lost>>

LEMMA Going ==
  ASSUME TypeOK, NEW p \in Points, Goto(p)
  PROVE  /\ task' \in [pc : Points, event : Events \cup {None}, packet : Events \cup {None},
                       first : Events \cup {None}]
         /\ task'.pc = p /\ UNCHANGED <<task.event, task.packet, task.first>>
         /\ InHand' = InHand /\ Current' = Current
BY DEF TypeOK, Goto, InHand, Current

LEMMA Finishing ==
  ASSUME Done
  PROVE  /\ task' \in [pc : Points, event : Events \cup {None}, packet : Events \cup {None},
                       first : Events \cup {None}]
         /\ task'.pc = "get" /\ task'.event = None /\ task'.packet = None /\ task'.first = None
         /\ InHand' = {} /\ Current' = {}
BY DEF Done, InHand, Current, Points

LEMMA StaysPut ==
  ASSUME IInv, Quiet, UNCHANGED wired, InHand' = InHand, Current' \subseteq Current
  PROVE  /\ InQueue' = InQueue /\ AtDoor' = AtDoor /\ Unhandled' = Unhandled
         /\ Numbers' /\ Living' /\ Once' /\ Overtaking' /\ LostInv' /\ DeletedIsUnreachable'
         /\ ((\A e \in Current : e.kind # "ACCEPT") \/ Current' = Current) => Welcome'
<1> USE DEF IInv, Quiet, lwip
<1>1. InQueue' = InQueue /\ AtDoor' = AtDoor /\ Unhandled' = Unhandled
  BY DEF InQueue, AtDoor, Unhandled
<1>2. \A c \in Conns : Waiting(c)' = Waiting(c)
  BY <1>1 DEF Waiting
<1>3. Numbers'
  BY <1>1 DEF Numbers, Genuine, Opened
<1>4. Living'
  BY DEF Living, Opened
<1>5. Once'
  BY <1>1, <1>2 DEF Once, WaitsOnce
<1>6. Overtaking'
  BY <1>1 DEF Overtaking
<1>7. LostInv' /\ DeletedIsUnreachable'
  BY DEF LostInv, DeletedIsUnreachable, Reused
<1>8. ((\A e \in Current : e.kind # "ACCEPT") \/ Current' = Current) => Welcome'
  BY <1>2 DEF Welcome, Opened
<1> QED BY <1>1, <1>3, <1>4, <1>5, <1>6, <1>7, <1>8

LEMMA AtWork ==
  ASSUME IInv, task.pc # "get"
  PROVE  /\ Event \in Events /\ Current = {Event} /\ Genuine(Event)
         /\ Event.n # 0 => Event.n \in taken[Event.conn]
         /\ task.pc \notin {"first_back", "rest_back"} => InHand = {}
BY DEF IInv, Working, Current, TypeOK, Event, InHand, Numbers, Once

LEMMA QuietStep ==
  ASSUME IInv, Quiet, UNCHANGED <<wired, stale>>, Working',
         task.pc \in {"handle", "api", "close"}, Event.kind # "ACCEPT",
         \/ Done /\ Event.kind # "CLEAR"
         \/ \E p \in {"api", "close", "clear", "first"} : Goto(p)
  PROVE  IInv'
<1> USE DEF IInv
<1>1. Event \in Events /\ Current = {Event} /\ InHand = {}
  BY DEF Working, Current, TypeOK, Event, InHand
<1>2. /\ task' \in [pc : Points, event : Events \cup {None}, packet : Events \cup {None},
                    first : Events \cup {None}]
      /\ InHand' = {} /\ task'.pc \notin {"tcp_close", "discard", "first_back", "rest", "rest_take", "rest_back"}
      /\ Current' = Current \/ (Current' = {} /\ Event.kind # "CLEAR")
  <2>1. CASE Done /\ Event.kind # "CLEAR"
    BY <2>1, <1>1, Finishing
  <2>2. CASE \E p \in {"api", "close", "clear", "first"} : Goto(p)
    <3>1. PICK p \in {"api", "close", "clear", "first"} : Goto(p)
      BY <2>2
    <3>2. p \in Points
      BY DEF Points
    <3>3. /\ task' \in [pc : Points, event : Events \cup {None}, packet : Events \cup {None},
                        first : Events \cup {None}]
          /\ task'.pc = p /\ InHand' = InHand /\ Current' = Current
      BY <3>1, <3>2, Going
    <3> QED BY <3>3, <1>1
  <2> QED BY <2>1, <2>2
<1>3. TypeOK'
  BY <1>2 DEF Quiet, lwip, TypeOK
<1>4. /\ InQueue' = InQueue /\ AtDoor' = AtDoor
      /\ Numbers' /\ Living' /\ Once' /\ Overtaking' /\ LostInv' /\ DeletedIsUnreachable' /\ Welcome'
  BY <1>1, <1>2, StaysPut
<1>5. \A i \in DOMAIN queue : queue[i].kind # "CLEAR"
  BY DEF Clears
<1>6. Clears'
  BY <1>1, <1>2, <1>4, <1>5 DEF Clears, Quiet, InQueue, Event
<1>7. Gone'
  BY <1>1, <1>2, <1>4, <1>5 DEF Gone, Handled, Swept, Marked, Quiet, InQueue, SecondLap, StaleOnlyWhenOvertaken
<1> QED BY <1>3, <1>4, <1>6, <1>7

LEMMA QuietSteps ==
  ASSUME IInv,
         HandleRecv \/ PollQuiet \/ PollSends \/ ServerCloses \/ ApiCall \/ HandleFin \/ HandleClear
  PROVE  IInv'
<1> USE DEF IInv
<1> DEFINE Ready == task.pc \in {"handle", "api", "close"} /\ Event.kind # "ACCEPT"
<1>1. Quiet /\ UNCHANGED <<wired, stale>>
  BY DEF Quiet, HandleRecv, PollQuiet, PollSends, ServerCloses, ApiCall, HandleFin, HandleClear,
         objects, history
<1>2. TypeOK /\ Working
  OBVIOUS
<1>3. UNCHANGED <<client, wired, link>>
  BY <1>1 DEF Quiet, lwip
<1> DEFINE At(p) == task'.pc = p /\ UNCHANGED <<task.event, task.packet, task.first>>
<1>4. ASSUME NEW p \in {"api", "close", "clear", "first"}, Goto(p) PROVE At(p)
  BY <1>2, <1>4, Going DEF Points
<1>5. ASSUME Done PROVE task'.pc = "get" /\ task'.event = None /\ task'.packet = None /\ task'.first = None
  BY <1>5, Finishing
<1> USE DEF Rotating, SecondLap, Alive, Handling, Event, Target
<1>6. CASE HandleRecv \/ PollSends
  <2>1. Ready /\ (At("api") \/ Done) /\ ((Done /\ Event.kind # "CLEAR") \/ Goto("api"))
    BY <1>6, <1>4 DEF HandleRecv, PollSends
  <2>2. Working'
    BY <2>1, <1>2, <1>3, <1>5, <1>6 DEF HandleRecv, PollSends, Working
  <2> QED BY <1>1, <2>1, <2>2, QuietStep
<1>7. CASE PollQuiet \/ ApiCall
  <2>1. Ready /\ Done /\ Event.kind # "CLEAR"
    BY <1>7, <1>2 DEF PollQuiet, ApiCall, Working
  <2>2. Working'
    BY <2>1, <1>2, <1>3, <1>5 DEF Working
  <2> QED BY <1>1, <2>1, <2>2, QuietStep
<1>8. CASE ServerCloses
  <2>1. Ready /\ Goto("close") /\ At("close")
    BY <1>8, <1>4 DEF ServerCloses
  <2>2. Working'
    BY <2>1, <1>2, <1>3, <1>8 DEF ServerCloses, Working
  <2> QED BY <1>1, <2>1, <2>2, QuietStep
<1>9. CASE HandleFin
  <2>1. Ready /\ Goto("clear") /\ At("clear")
    BY <1>9, <1>4 DEF HandleFin
  <2>2. link[Event.conn] # "open"
    BY <1>9, <1>2 DEF HandleFin, Numbers, Genuine, Current, Working
  <2>3. Working'
    BY <2>1, <2>2, <1>2, <1>3, <1>9 DEF HandleFin, Working
  <2> QED BY <1>1, <2>1, <2>3, QuietStep
<1>10. CASE HandleClear
  <2>1. Ready /\ Goto("first") /\ At("first")
    BY <1>10, <1>4 DEF HandleClear
  <2>2. Working'
    BY <2>1, <1>2, <1>3, <1>10 DEF HandleClear, Working
  <2> QED BY <1>1, <2>1, <2>2, QuietStep
<1> QED BY <1>6, <1>7, <1>8, <1>9, <1>10

(* The rotation that ends: no event of a deleted client is left behind. *)
LEMMA RotationSteps ==
  ASSUME IInv, FirstNone \/ Peek
  PROVE  IInv'
<1> USE DEF IInv
<1>1. Quiet /\ UNCHANGED <<wired, stale, queue>> /\ task.pc \in {"first", "rest"}
  BY DEF Quiet, FirstNone, Peek, objects, history
<1>2. /\ Event \in Events /\ Current = {Event} /\ Event.kind = "CLEAR"
      /\ InHand = {}
  BY <1>1 DEF Working, Current, TypeOK, Event, InHand, Rotating
<1>3. \/ Done
      \/ task.pc = "rest" /\ queue # <<>> /\ Head(queue) # task.first /\ Goto("rest_take")
  BY DEF FirstNone, Peek, Done, Goto
<1>4. /\ task' \in [pc : Points, event : Events \cup {None}, packet : Events \cup {None},
                    first : Events \cup {None}]
      /\ InHand' = {}
      /\ \/ Done /\ Current' = {} /\ task'.pc = "get"
         \/ /\ Current' = Current /\ task'.pc = "rest_take" /\ task.pc = "rest"
            /\ queue # <<>> /\ Head(queue) # task.first
            /\ UNCHANGED <<task.event, task.packet, task.first>>
  <2>1. CASE Done
    BY <2>1, Finishing
  <2>2. CASE Goto("rest_take")
    <3>1. task.pc = "rest" /\ queue # <<>> /\ Head(queue) # task.first
      BY <2>2, <1>1, Finishing, Going DEF FirstNone, Peek, Done, Goto, TypeOK, Points
    <3> QED BY <2>2, <3>1, <1>1, <1>2, <1>3, Going DEF Points
  <2> QED BY <1>3, <2>1, <2>2
<1>5. TypeOK'
  BY <1>4, <1>1 DEF Quiet, lwip, TypeOK
<1>6. /\ InQueue' = InQueue /\ AtDoor' = AtDoor
      /\ Numbers' /\ Living' /\ Once' /\ Overtaking' /\ LostInv' /\ DeletedIsUnreachable' /\ Welcome'
  BY <1>1, <1>2, <1>4, StaysPut
<1>7. UNCHANGED <<client, wired, link>>
  BY <1>1 DEF Quiet, lwip
<1>8. Working'
  BY <1>1, <1>2, <1>4, <1>6, <1>7, Finishing DEF Working, Rotating, SecondLap, Event, Target
<1>9. \A i \in DOMAIN queue : queue[i].kind # "CLEAR"
  BY <1>1, <1>2 DEF Clears
<1>10. Clears'
  BY <1>1, <1>4, <1>6, <1>9 DEF Clears, InQueue, Event, Quiet
<1>11. CASE Done
  <2>1. \A j \in DOMAIN queue : queue[j].n = 0 \/ queue[j].conn \notin deleted \ overtaken
    <3>1. CASE queue = <<>>
      BY <3>1
    <3>2. CASE queue # <<>>
      <4>1. task.pc = "rest" /\ Head(queue) = task.first
        BY <3>2, <1>11, <1>1, Finishing DEF FirstNone, Peek, Goto
      <4>2. queue[1] = task.first /\ DOMAIN queue = 1..Len(queue) /\ Len(queue) \in Nat \ {0}
        BY <4>1, <3>2 DEF TypeOK
      <4>3. ASSUME NEW j \in DOMAIN queue, queue[j].n # 0, queue[j].conn \in deleted \ overtaken
            PROVE  FALSE
        <5>1. PICK k \in j+1..Len(queue) : queue[k] = task.first
          BY <4>1, <4>3 DEF Gone, Handled, Swept, Marked, SecondLap
        <5> QED BY <5>1, <4>2 DEF Once, WaitsOnce
      <4> QED BY <4>3
    <3> QED BY <3>1, <3>2
  <2> QED BY <2>1, <1>1, <1>2, <1>4, <1>5, <1>6, <1>8, <1>10, <1>11, Finishing
          DEF Gone, Handled, Swept, Marked, Quiet, SecondLap, StaleOnlyWhenOvertaken
<1>12. CASE ~Done
  <2>1. Gone'
    BY <1>1, <1>2, <1>4, <1>6, <1>12 DEF Gone, Handled, Swept, Marked, Quiet, InQueue, SecondLap, StaleOnlyWhenOvertaken
  <2> QED BY <2>1, <1>5, <1>6, <1>8, <1>10
<1> QED BY <1>11, <1>12

LEMMA AcceptStep == ASSUME IInv, HandleAccept PROVE IInv'
<1> USE DEF IInv
<1>1. /\ task.pc = "handle" /\ Event.kind = "ACCEPT" /\ wired' = wired \cup {Event.conn}
      /\ Done /\ Quiet /\ UNCHANGED stale
  BY DEF HandleAccept, Handling, Quiet, history
<1>2. /\ Event \in Events /\ Current = {Event} /\ InHand = {} /\ Genuine(Event)
      /\ 1 \in taken[Event.conn]
  BY <1>1, AtWork DEF Genuine
<1>3. InHand' = {} /\ Current' = {} /\ task'.pc = "get" /\ task'.packet = None /\ task'.first = None
  BY <1>1, Finishing
<1>4. UNCHANGED <<queue, stalled, link, raised, client, addr, deleted, taken, overtaken, lost>>
  BY <1>1 DEF Quiet, lwip
<1>5. InQueue' = InQueue /\ AtDoor' = AtDoor /\ Unhandled' = Unhandled
  BY <1>2, <1>3, <1>4 DEF InQueue, AtDoor, Unhandled
<1>6. \A c \in Conns : Waiting(c)' = Waiting(c)
  BY <1>5 DEF Waiting
<1>7. TypeOK'
  BY <1>1, <1>2, <1>4, Finishing DEF TypeOK, Events
<1>8. Numbers' /\ Overtaking'
  BY <1>3, <1>4, <1>5 DEF Numbers, Genuine, Opened, Overtaking
<1>9. Living'
  BY <1>1, <1>2, <1>4 DEF Living, Opened, Genuine
<1>10. Once'
  BY <1>3, <1>4, <1>5, <1>6 DEF Once, WaitsOnce
<1>11. Welcome'
  BY <1>1, <1>2, <1>4, <1>6 DEF Welcome, Opened
<1>12. Working'
  BY <1>3, Finishing, <1>1 DEF Working, Rotating, SecondLap
<1>13. Clears' /\ Gone'
  BY <1>1, <1>2, <1>3, <1>4, <1>5 DEF Clears, Gone, Handled, Swept, Marked, SecondLap, StaleOnlyWhenOvertaken
<1>14. LostInv' /\ DeletedIsUnreachable'
  BY <1>4 DEF LostInv, DeletedIsUnreachable, Reused
<1> QED BY <1>7, <1>8, <1>9, <1>10, <1>11, <1>12, <1>13, <1>14

LEMMA StaleStep == ASSUME IInv, HandleStale PROVE IInv'
<1> USE DEF IInv
<1>1. /\ task.pc = "handle" /\ Event.kind \notin {"ACCEPT", "CLEAR"} /\ Target # Event.conn
      /\ stale' = stale \cup {Event.conn} /\ Done /\ Quiet /\ UNCHANGED wired
  BY DEF HandleStale, Quiet, objects
<1>2. Event \in Events /\ Current = {Event} /\ InHand = {} /\ Genuine(Event) /\ Event.n \notin {0, 1}
  BY <1>1, AtWork DEF Genuine
<1>3. Event.conn \in deleted
  BY <1>1, <1>2 DEF Living, Genuine, Target, Events
<1>4. Event.conn \in overtaken
  BY <1>2, <1>3 DEF Gone, Handled, Swept, Marked
<1>5. InHand' = {} /\ Current' = {} /\ task'.pc = "get"
  BY <1>1, Finishing
<1>6. UNCHANGED <<queue, stalled, link, raised, client, addr, deleted, taken, overtaken, lost>>
  BY <1>1 DEF Quiet, lwip
<1>7. /\ InQueue' = InQueue /\ AtDoor' = AtDoor
      /\ Numbers' /\ Living' /\ Once' /\ Overtaking' /\ LostInv' /\ DeletedIsUnreachable' /\ Welcome'
  BY <1>1, <1>2, <1>5, StaysPut
<1>8. TypeOK'
  BY <1>1, <1>2, <1>6, Finishing DEF TypeOK, Events
<1>9. Working'
  BY <1>5, <1>1, Finishing DEF Working, Rotating, SecondLap
<1>10. Clears' /\ Gone'
  BY <1>1, <1>2, <1>4, <1>5, <1>6, <1>7 DEF Clears, Gone, Handled, Swept, Marked, SecondLap, StaleOnlyWhenOvertaken
<1> QED BY <1>7, <1>8, <1>9, <1>10

-----------------------------------------------------------------------------
(* Steps that end a connection *)

(* A pcb that is not open becomes no more open. *)
LEMMA DetachStep ==
  ASSUME IInv, Detach, task.pc \in {"handle", "close"}, Target = Event.conn, HasPcb(Target),
         Event.kind \in {"RECV", "POLL"}, Event.conn \in wired
  PROVE  IInv'
<1> USE DEF IInv
<1>1. /\ Event \in Events /\ Current = {Event} /\ InHand = {} /\ Genuine(Event) /\ Event.conn \in Conns
  BY AtWork DEF Events
<1>2. /\ InHand' = {} /\ Current' = Current /\ task'.pc = "clear"
      /\ UNCHANGED <<task.event, task.packet, task.first>>
      /\ task' \in [pc : Points, event : Events \cup {None}, packet : Events \cup {None},
                    first : Events \cup {None}]
  BY <1>1, Going DEF Detach, Points
<1>3. UNCHANGED <<queue, stalled, raised, client, addr, wired, deleted, taken, overtaken, lost, stale>>
  BY DEF Detach, objects, history
<1>4. /\ link' = [link EXCEPT ![Event.conn] = IF @ = "open" THEN "detached" ELSE @]
      /\ link[Event.conn] \in {"open", "failed"}
  BY DEF Detach, HasPcb
<1>5. /\ InQueue' = InQueue /\ AtDoor' = AtDoor /\ Unhandled' = Unhandled
      /\ \A c \in Conns : Waiting(c)' = Waiting(c)
  BY <1>1, <1>2, <1>3 DEF InQueue, AtDoor, Unhandled, Waiting
<1>6. TypeOK'
  BY <1>2, <1>3, <1>4 DEF TypeOK, Links
<1>7. /\ \A c \in Conns : link'[c] = link[c] \/ (c = Event.conn /\ link'[c] = "detached" /\ link[c] = "open")
      /\ link'[Event.conn] # "open"
  BY <1>1, <1>4 DEF TypeOK
<1>8. \A c \in Conns : Opened(c)' <=> Opened(c)
  BY <1>7 DEF Opened
<1>9. Numbers'
  <2>1. ASSUME NEW e \in Unhandled \cup Current PROVE Genuine(e)'
    <3>1. Genuine(e) /\ e.conn \in Conns
      BY AllEvents DEF Numbers
    <3> QED BY <3>1, <1>3, <1>7, <1>8 DEF Genuine
  <2> QED BY <2>1, <1>2, <1>3, <1>5, <1>8 DEF Numbers
<1>10. Living' /\ Welcome' /\ Once'
  BY <1>2, <1>3, <1>5, <1>8 DEF Living, Welcome, Once, WaitsOnce, TypeOK
<1>11. Working'
  BY <1>1, <1>2, <1>3, <1>7 DEF Working, Rotating, SecondLap, Event, Target
<1>12. Overtaking' /\ Clears' /\ Gone'
  BY <1>1, <1>2, <1>3, <1>5 DEF Overtaking, Clears, Gone, Handled, Swept, Marked, SecondLap, StaleOnlyWhenOvertaken, Event
<1>13. LostInv' /\ DeletedIsUnreachable'
  BY <1>3, <1>7 DEF LostInv, DeletedIsUnreachable, Reused, TypeOK
<1> QED BY <1>6, <1>9, <1>10, <1>11, <1>12, <1>13

LEMMA TcpCloseStep == ASSUME IInv, TcpClose PROVE IInv'
<1> USE DEF IInv
<1>1. task.pc = "tcp_close" /\ stalled = <<>> /\ Goto("discard")
  BY DEF TcpClose
<1>2. /\ Event \in Events /\ Current = {Event} /\ InHand = {} /\ Genuine(Event) /\ Event.conn \in Conns
      /\ Target = Event.conn
  BY <1>1, AtWork DEF Events, Working
<1>3. /\ InHand' = {} /\ Current' = Current /\ task'.pc = "discard"
      /\ UNCHANGED <<task.event, task.packet, task.first>>
      /\ task' \in [pc : Points, event : Events \cup {None}, packet : Events \cup {None},
                    first : Events \cup {None}]
  BY <1>1, <1>2, Going DEF Points
<1>4. UNCHANGED <<queue, stalled, raised, client, addr, wired, deleted, taken, overtaken, lost, stale>>
  BY DEF TcpClose, objects, history
<1>5. /\ InQueue' = InQueue /\ AtDoor' = AtDoor /\ AtDoor = {} /\ Unhandled' = Unhandled
      /\ \A c \in Conns : Waiting(c)' = Waiting(c)
  BY <1>1, <1>2, <1>3, <1>4 DEF InQueue, AtDoor, Unhandled, Waiting
<1>6. TypeOK'
  BY <1>2, <1>3, <1>4 DEF TypeOK, Links, TcpClose
<1>7. /\ \A c \in Conns : link'[c] = link[c] \/ (c = Event.conn /\ link'[c] = "closed" /\ link[c] # "none")
      /\ link'[Event.conn] = "closed"
  BY <1>2 DEF TypeOK, TcpClose, Genuine, Opened
<1>8. \A c \in Conns : Opened(c)' <=> Opened(c)
  BY <1>7 DEF Opened
<1>9. Numbers'
  <2>1. ASSUME NEW e \in Unhandled \cup Current PROVE Genuine(e)'
    <3>1. Genuine(e) /\ e.conn \in Conns
      BY AllEvents DEF Numbers
    <3> QED BY <3>1, <1>4, <1>7, <1>8 DEF Genuine
  <2> QED BY <2>1, <1>3, <1>4, <1>5, <1>8 DEF Numbers
<1>10. Living' /\ Welcome' /\ Once'
  BY <1>3, <1>4, <1>5, <1>8 DEF Living, Welcome, Once, WaitsOnce, TypeOK
<1>11. Working'
  BY <1>1, <1>2, <1>3, <1>4, <1>5, <1>7 DEF Working, Rotating, SecondLap, Event, Target
<1>12. Overtaking' /\ Clears' /\ Gone'
  BY <1>1, <1>2, <1>3, <1>4, <1>5 DEF Overtaking, Clears, Gone, Handled, Swept, Marked, SecondLap, StaleOnlyWhenOvertaken, Event
<1>13. LostInv' /\ DeletedIsUnreachable'
  BY <1>4, <1>7 DEF LostInv, DeletedIsUnreachable, Reused, TypeOK
<1> QED BY <1>6, <1>9, <1>10, <1>11, <1>12, <1>13

(* The client is deleted, or was never given to the web server. *)
LEMMA DeleteStep ==
  ASSUME IInv, DiscardCallback, Done, task.pc \in {"handle", "discard"}, Target = Event.conn,
         Event.kind \in {"RECV", "POLL", "FIN", "ERROR"},
         UNCHANGED <<queue, stalled, raised, addr, wired, taken, overtaken, lost, stale>>,
         \A c \in Conns : link'[c] = link[c] \/ (c = Event.conn /\ link[c] # "none"),
         link' \in [Conns -> Links], link'[Event.conn] = "closed",
         \A e \in AtDoor : e.conn # Event.conn,
         \/ task.pc = "discard"
         \/ \A e \in InQueue : e.conn = Event.conn /\ e.n # 0 => e.conn \in overtaken
  PROVE  IInv'
<1> USE DEF IInv
<1>1. /\ Event \in Events /\ Current = {Event} /\ InHand = {} /\ Genuine(Event)
      /\ Event.conn \in Conns /\ Opened(Event.conn) /\ Event.n \notin {0, 1} /\ Event.arg \in Addrs
      /\ Event.arg = addr[Event.conn] /\ client[Event.arg] = Event.conn
  BY AtWork DEF Events, Genuine, Living, Target
<1>2. InHand' = {} /\ Current' = {} /\ task'.pc = "get" /\ task'.packet = None /\ task'.first = None
  BY Finishing
<1>3. /\ InQueue' = InQueue /\ AtDoor' = AtDoor /\ Unhandled' = Unhandled
      /\ \A c \in Conns : Waiting(c)' = Waiting(c)
  BY <1>1, <1>2 DEF InQueue, AtDoor, Unhandled, Waiting
<1>4. /\ deleted' = (IF Event.conn \in wired THEN deleted \cup {Event.conn} ELSE deleted)
      /\ client' = (IF Event.conn \in wired THEN [client EXCEPT ![Event.arg] = None] ELSE client)
  BY DEF DiscardCallback
<1>5. TypeOK'
  BY <1>1, <1>4, Finishing DEF TypeOK
<1>6. \A c \in Conns : Opened(c)' <=> Opened(c)
  BY <1>1 DEF Opened, Genuine
<1>7. Numbers'
  <2>1. ASSUME NEW e \in Unhandled PROVE Genuine(e)'
    <3>1. Genuine(e) /\ e.conn \in Conns
      BY AllEvents DEF Numbers
    <3> QED BY <3>1, <1>6 DEF Genuine
  <2> QED BY <2>1, <1>2, <1>3, <1>6 DEF Numbers
<1>8. Living'
  <2>1. ASSUME NEW c \in Conns, Opened(c)', c \notin deleted' PROVE client'[addr'[c]] = c
    BY <2>1, <1>1, <1>4, <1>6 DEF Living, TypeOK
  <2>2. ASSUME NEW a \in Addrs, client'[a] # None
        PROVE  (Opened(client[a]) /\ addr[client[a]] = a /\ client[a] \notin deleted)'
    <3>1. client'[a] = client[a] /\ client[a] \in Conns
      BY <2>2, <1>1, <1>4 DEF TypeOK
    <3>2. addr[client[a]] = a /\ Opened(client[a]) /\ client[a] \notin deleted
      BY <3>1, <2>2 DEF Living
    <3>3. client[a] = Event.conn => Event.conn \notin wired
      BY <3>1, <3>2, <2>2, <1>1, <1>4 DEF TypeOK
    <3> QED BY <3>1, <3>2, <3>3, <1>4, <1>6 DEF Opened
  <2>3. \A c \in Conns : Opened(c)' => addr'[c] \in Addrs
    BY <1>6 DEF Living
  <2>4. \A c \in wired' \cup lost' : Opened(c)'
    BY <1>6 DEF Living, TypeOK
  <2> QED BY <2>1, <2>2, <2>3, <2>4 DEF Living
<1>9. Once' /\ Welcome'
  BY <1>1, <1>2, <1>3, <1>4, <1>6 DEF Once, WaitsOnce, Welcome, Genuine
<1>10. Working'
  BY <1>2, Finishing DEF Working, Rotating, SecondLap
<1>11. Overtaking' /\ Clears'
  <2>1. Overtaking'
    BY <1>2, <1>3 DEF Overtaking
  <2>2. ASSUME NEW e \in InQueue, e.kind = "CLEAR" PROVE e.conn \in deleted' \cup overtaken
    <3>1. task.pc = "discard" /\ e.conn = Event.conn
      BY <2>2 DEF Clears, InQueue
    <3>2. Event.conn \in wired \cup overtaken
      BY <3>1, <1>1 DEF Working, Overtaking
    <3> QED BY <3>1, <3>2, <1>4
  <2>3. Clears'
    BY <1>1, <1>2, <1>3, <2>2 DEF Clears
  <2> QED BY <2>1, <2>3
<1>12. Gone'
  BY <1>1, <1>2, <1>3, <1>4 DEF Gone, Handled, Swept, Marked, SecondLap, StaleOnlyWhenOvertaken, Clears, InQueue
<1>13. LostInv'
  BY <1>4 DEF LostInv, Reused
<1>14. DeletedIsUnreachable'
  BY <1>1, <1>4 DEF DeletedIsUnreachable, AtDoor, TypeOK
<1> QED BY <1>5, <1>7, <1>8, <1>9, <1>10, <1>11, <1>12, <1>13, <1>14

LEMMA EndingSteps ==
  ASSUME IInv, PollRxTimeout \/ Close \/ Discard \/ HandleError
  PROVE  IInv'
<1> USE DEF IInv
<1>1. CASE PollRxTimeout
  BY <1>1, DetachStep DEF PollRxTimeout, Alive, Handling
<1>2. CASE Close
  <2>1. /\ task.pc = "close" /\ Target = Event.conn /\ Event.kind \in {"RECV", "POLL", "FIN"}
    BY <1>2 DEF Close, Working
  <2>4. CASE HasPcb(Target)
    <3>1. Event.kind # "FIN"
      BY <2>1, <2>4, AtWork DEF Genuine, HasPcb
    <3>2. Event.conn \in wired
      BY <2>1, <3>1 DEF Working
    <3> QED BY <1>2, <2>1, <2>4, <3>1, <3>2, DetachStep DEF Close
  <2>5. CASE ~HasPcb(Target)
    <3>1. Done /\ UNCHANGED <<queue, lwip, objects, history>>
      BY <1>2, <2>5 DEF Close
    <3>2. Working'
      BY <3>1, Finishing DEF Working, Rotating, SecondLap
    <3> QED BY <2>1, <3>1, <3>2, QuietStep DEF Quiet, objects, history
  <2> QED BY <2>4, <2>5
<1>3. CASE Discard
  <2>1. /\ task.pc = "discard" /\ DiscardCallback /\ Done
        /\ UNCHANGED <<queue, stalled, link, raised, addr, wired, taken, overtaken, lost, stale>>
    BY <1>3 DEF Discard, lwip, history
  <2>2. /\ Event.kind \in {"RECV", "POLL", "FIN"} /\ Target = Event.conn
        /\ link[Event.conn] = "closed" /\ \A e \in AtDoor : e.conn # Event.conn
    BY <2>1 DEF Working
  <2>3. link' \in [Conns -> Links]
    BY <2>1 DEF TypeOK
  <2> QED BY <2>1, <2>2, <2>3, DeleteStep
<1>4. CASE HandleError
  <2>1. /\ task.pc = "handle" /\ Event.kind = "ERROR" /\ Target = Event.conn
        /\ DiscardCallback /\ Done /\ link' = [link EXCEPT ![Event.conn] = "closed"]
        /\ UNCHANGED <<queue, stalled, raised, addr, wired, taken, overtaken, lost, stale>>
    BY <1>4 DEF HandleError, history, Alive, Handling
  <2>2. /\ Event \in Events /\ Event.conn \in Conns /\ Current = {Event} /\ Genuine(Event)
        /\ Event.n \in taken[Event.conn] /\ Event.n = raised[Event.conn] /\ Event.n \in Nat
    BY <2>1, AtWork DEF Events, Genuine
  <2>3. /\ link' \in [Conns -> Links] /\ link'[Event.conn] = "closed"
        /\ \A c \in Conns : link'[c] = link[c] \/ (c = Event.conn /\ link[c] # "none")
    BY <2>1, <2>2 DEF TypeOK, Links, Genuine, Opened
  <2>4. \A e \in AtDoor : e.conn # Event.conn
    BY <2>2 DEF Numbers, Once, AtDoor, Unhandled
  <2>5. ASSUME NEW e \in InQueue, e.conn = Event.conn, e.n # 0 PROVE e.conn \in overtaken
    <3>1. e \in Unhandled /\ e.n \in Nat /\ Genuine(e)
      BY AllEvents DEF Unhandled, Numbers
    <3>2. e.n # Event.n /\ e.n <= raised[Event.conn]
      BY <2>2, <2>5, <3>1 DEF Once, Genuine
    <3>3. Earlier(e, Event)
      BY <2>2, <2>5, <3>1, <3>2 DEF Earlier
    <3> QED BY <2>2, <2>5, <3>3 DEF Overtaking
  <2> QED BY <2>1, <2>3, <2>4, <2>5, DeleteStep
<1> QED BY <1>1, <1>2, <1>3, <1>4

-----------------------------------------------------------------------------
(* Steps that put an event into the queue *)

(* Every event has a place of its own; ahead of a CLEAR there are ACCEPTs;  *)
(* and what stood before the packet that ends the rotation still does.      *)
Positions(e) ==
  /\ \A i, j \in DOMAIN queue' : queue'[i] = queue'[j] => i = j
  /\ \A i \in DOMAIN queue' : queue'[i].kind = "CLEAR" =>
       /\ \A j \in 1..i-1 : queue'[j].kind = "ACCEPT"
       /\ \E h \in DOMAIN queue : queue[h] = queue'[i]
  /\ \A j \in DOMAIN queue' :
       \/ queue'[j] = e
       \/ \E h \in DOMAIN queue :
            /\ queue[h] = queue'[j]
            /\ (\E k \in h+1..Len(queue) : queue[k] = task.first)
                 => \E k \in j+1..Len(queue') : queue'[k] = task.first
  /\ queue # <<>> => queue' # <<>> /\ Head(queue') \in {e, Head(queue)}

LEMMA Inserted ==
  ASSUME IInv, NEW e \in Events, e \notin InQueue, e.kind # "CLEAR",
         \/ queue' = Append(queue, e)
         \/ e.kind = "ACCEPT" /\ queue' = <<e>> \o queue
  PROVE  /\ queue' \in Seq(Events) /\ Len(queue') = Len(queue) + 1 /\ InQueue' = InQueue \cup {e}
         /\ Positions(e)
<1> USE DEF IInv
<1>1. TypeOK /\ queue \in Seq(Events) /\ Len(queue) \in Nat /\ DOMAIN queue = 1..Len(queue)
  BY DEF TypeOK
<1>2. \A i \in 1..Len(queue) : queue[i] # e
  BY <1>1 DEF InQueue
<1>3. \A i, j \in 1..Len(queue) : queue[i] = queue[j] => i = j
  BY <1>1 DEF Once, WaitsOnce
<1>4. \A i \in 1..Len(queue) : queue[i].kind = "CLEAR" => \A j \in 1..i-1 : queue[j].kind = "ACCEPT"
  BY <1>1 DEF Clears
<1> HIDE DEF IInv
<1>5. CASE queue' = Append(queue, e)
  <2>1. /\ queue' \in Seq(Events) /\ Len(queue') = Len(queue) + 1
        /\ DOMAIN queue' = 1..Len(queue) + 1
        /\ \A i \in 1..Len(queue) : queue'[i] = queue[i]
        /\ queue'[Len(queue) + 1] = e
        /\ InQueue' = InQueue \cup {e}
    BY <1>1, <1>5, AtBack
  <2>2. \A i, j \in DOMAIN queue' : queue'[i] = queue'[j] => i = j
    BY <2>1, <1>1, <1>2, <1>3
  <2>3. \A i \in DOMAIN queue' : queue'[i].kind = "CLEAR" =>
          /\ \A j \in 1..i-1 : queue'[j].kind = "ACCEPT"
          /\ \E h \in DOMAIN queue : queue[h] = queue'[i]
    BY <2>1, <1>1, <1>4
  <2>4. ASSUME NEW j \in DOMAIN queue', queue'[j] # e
        PROVE  /\ j \in DOMAIN queue /\ queue[j] = queue'[j]
               /\ (\E k \in j+1..Len(queue) : queue[k] = task.first)
                    => \E k \in j+1..Len(queue') : queue'[k] = task.first
    BY <2>1, <2>4, <1>1
  <2>5. queue' # <<>> /\ (queue # <<>> => Head(queue') = Head(queue))
    BY <2>1, <1>1, <1>5
  <2> QED BY <2>1, <2>2, <2>3, <2>4, <2>5 DEF Positions
<1>6. CASE e.kind = "ACCEPT" /\ queue' = <<e>> \o queue
  <2>1. /\ queue' \in Seq(Events) /\ Len(queue') = Len(queue) + 1
        /\ DOMAIN queue' = 1..Len(queue) + 1
        /\ queue'[1] = e
        /\ \A i \in 2..Len(queue) + 1 : i - 1 \in 1..Len(queue) /\ queue'[i] = queue[i - 1]
        /\ InQueue' = InQueue \cup {e}
    BY <1>1, <1>6, InFront
  <2>2. \A i, j \in DOMAIN queue' : queue'[i] = queue'[j] => i = j
    <3> SUFFICES ASSUME NEW i \in 1..Len(queue) + 1, NEW j \in 1..Len(queue) + 1, queue'[i] = queue'[j]
                 PROVE  i = j
      BY <2>1
    <3>1. i # 1 => i - 1 \in 1..Len(queue) /\ queue'[i] = queue[i - 1]
      BY <2>1, <1>1
    <3>2. j # 1 => j - 1 \in 1..Len(queue) /\ queue'[j] = queue[j - 1]
      BY <2>1, <1>1
    <3> QED BY <3>1, <3>2, <2>1, <1>1, <1>2, <1>3
  <2>3. ASSUME NEW i \in DOMAIN queue', queue'[i].kind = "CLEAR"
        PROVE  /\ \A j \in 1..i-1 : queue'[j].kind = "ACCEPT"
               /\ \E h \in DOMAIN queue : queue[h] = queue'[i]
    <3>1. i - 1 \in 1..Len(queue) /\ queue'[i] = queue[i - 1]
      BY <2>1, <2>3, <1>1, <1>6
    <3>2. ASSUME NEW j \in 1..i-1 PROVE queue'[j].kind = "ACCEPT"
      <4>1. CASE j = 1
        BY <4>1, <2>1, <1>6
      <4>2. CASE j # 1
        <5>1. j - 1 \in 1..(i - 1) - 1 /\ queue'[j] = queue[j - 1]
          BY <4>2, <2>1, <3>1, <1>1
        <5> QED BY <5>1, <3>1, <2>3, <1>4
      <4> QED BY <4>1, <4>2
    <3> QED BY <3>1, <3>2, <1>1
  <2>4. ASSUME NEW j \in DOMAIN queue', queue'[j] # e
        PROVE  /\ j - 1 \in DOMAIN queue /\ queue[j - 1] = queue'[j]
               /\ (\E k \in (j-1)+1..Len(queue) : queue[k] = task.first)
                    => \E k \in j+1..Len(queue') : queue'[k] = task.first
    <3>1. j - 1 \in DOMAIN queue /\ queue[j - 1] = queue'[j]
      BY <2>1, <2>4, <1>1
    <3>2. ASSUME NEW k \in (j-1)+1..Len(queue), queue[k] = task.first
          PROVE  k + 1 \in j+1..Len(queue') /\ queue'[k + 1] = task.first
      <4>1. k + 1 \in 2..Len(queue) + 1 /\ (k + 1) - 1 = k
        BY <2>1, <3>1, <1>1
      <4>2. queue'[k + 1] = queue[(k + 1) - 1]
        BY <4>1, <2>1
      <4> QED BY <4>1, <4>2, <3>2, <2>1, <3>1, <1>1
    <3> QED BY <3>1, <3>2
  <2>5. queue' # <<>> /\ Head(queue') = e
    BY <2>1, <1>1
  <2> QED BY <2>1, <2>2, <2>3, <2>4, <2>5 DEF Positions
<1> QED BY <1>5, <1>6

LEMMA OneAtDoor ==
  ASSUME IInv, stalled # <<>>
  PROVE  /\ stalled[1].event \in Events /\ AtDoor = {stalled[1].event}
         /\ stalled[1].event \in Unhandled /\ Genuine(stalled[1].event)
         /\ stalled[1].event.n = raised[stalled[1].event.conn]
         /\ stalled[1].front <=> stalled[1].event.kind = "ACCEPT"
         /\ stalled[1].event.kind # "CLEAR" /\ stalled[1].event.conn \notin deleted
<1>1. DOMAIN stalled = {1}
  <2> DEFINE Late == [event : Events, front : BOOLEAN]
  <2>1. stalled \in Seq(Late) /\ Len(stalled) <= 1
    BY DEF IInv, TypeOK
  <2> HIDE DEF Late
  <2>2. DOMAIN stalled = 1..Len(stalled) /\ Len(stalled) \in Nat /\ Len(stalled) # 0
    BY <2>1, EmptySeq
  <2> QED BY <2>1, <2>2
<1>2. AtDoor = {stalled[1].event}
  BY <1>1 DEF AtDoor
<1>3. stalled[1].event \in Unhandled
  BY <1>2 DEF Unhandled
<1> QED BY <1>1, <1>2, <1>3, AllEvents DEF IInv, Numbers, Genuine, Clears, DeletedIsUnreachable

(* Events of deleted clients are swept all the same when the queue grows.   *)
LEMMA SweptGrown ==
  ASSUME IInv, NEW e, Positions(e), e \notin InQueue, UNCHANGED <<task, deleted, overtaken, stale>>,
         InQueue \subseteq InQueue', InQueue' \subseteq InQueue \cup {e}, InHand' = InHand, Current' = Current,
         e.conn \notin deleted
  PROVE  Gone'
<1>1. Gone
  BY DEF IInv
<1>2. Swept'
  <2> SUFFICES ASSUME NEW j \in DOMAIN queue', queue'[j].n # 0, queue'[j].conn \in deleted \ overtaken
               PROVE  /\ \E d \in InQueue' \cup Current : d.kind = "CLEAR" /\ d.conn = queue'[j].conn
                      /\ SecondLap => \E k \in j+1..Len(queue') : queue'[k] = task.first
    BY DEF Swept, SecondLap
  <2>1. PICK h \in DOMAIN queue :
              /\ queue[h] = queue'[j]
              /\ (\E k \in h+1..Len(queue) : queue[k] = task.first)
                   => \E k \in j+1..Len(queue') : queue'[k] = task.first
    BY DEF Positions
  <2>2. /\ \E d \in InQueue \cup Current : d.kind = "CLEAR" /\ d.conn = queue[h].conn
        /\ SecondLap => \E k \in h+1..Len(queue) : queue[k] = task.first
    BY <1>1, <2>1 DEF Gone, Swept
  <2> QED BY <2>1, <2>2
<1>3. Marked'
  <2>1. task.pc = "rest_take" => task.first \in InQueue /\ queue # <<>> /\ Head(queue) # task.first
    BY <1>1 DEF Gone, Marked, SecondLap
  <2>2. task.pc = "rest_take" => queue' # <<>> /\ Head(queue') # task.first
    BY <2>1 DEF Positions
  <2> QED BY <1>1, <2>2 DEF Gone, Marked, SecondLap
<1>4. Handled' /\ StaleOnlyWhenOvertaken'
  BY <1>1 DEF Gone, Handled, StaleOnlyWhenOvertaken
<1> QED BY <1>2, <1>3, <1>4 DEF Gone

LEMMA ResumeStep == ASSUME IInv, Resume PROVE IInv'
<1>0. PICK e : e = stalled[1].event
  OBVIOUS
<1>1. /\ stalled # <<>> /\ Len(queue) < QueueSize /\ stalled' = <<>>
      /\ UNCHANGED <<link, raised, client, addr, wired, deleted, task, taken, overtaken, lost, stale>>
      /\ queue' = IF stalled[1].front THEN <<e>> \o queue ELSE Append(queue, e)
  BY <1>0, AsyncTcpAssumption DEF Resume, objects, history, Put, Full, IInv, TypeOK
<1>2. /\ e \in Events /\ AtDoor = {e} /\ e \in Unhandled /\ Genuine(e) /\ e.n = raised[e.conn]
      /\ stalled[1].front <=> e.kind = "ACCEPT"
      /\ e.kind # "CLEAR" /\ e.conn \notin deleted /\ e \notin InQueue /\ e.conn \in Conns
  <2>1. e \notin InQueue
    BY <1>0, <1>1, OneAtDoor DEF IInv, Once, WaitsOnce
  <2> QED BY <1>0, <1>1, <2>1, OneAtDoor DEF Events
<1>3. \/ queue' = Append(queue, e)
      \/ e.kind = "ACCEPT" /\ queue' = <<e>> \o queue
  BY <1>1, <1>2
<1>4. /\ queue' \in Seq(Events) /\ Len(queue') = Len(queue) + 1 /\ InQueue' = InQueue \cup {e}
      /\ Positions(e)
  BY <1>2, <1>3, Inserted
<1> USE DEF IInv
<1>5. /\ AtDoor' = {} /\ InHand' = InHand /\ Current' = Current /\ Unhandled' = Unhandled
      /\ \A c \in Conns : Waiting(c)' = Waiting(c)
  <2>1. AtDoor' = {} /\ InHand' = InHand /\ Current' = Current
    BY <1>1 DEF AtDoor, InHand, Current
  <2>2. Unhandled' = Unhandled
    BY <2>1, <1>2, <1>4 DEF Unhandled
  <2> QED BY <2>1, <2>2 DEF Waiting
<1>6. TypeOK'
  BY <1>1, <1>4, AsyncTcpAssumption DEF TypeOK
<1>7. Numbers' /\ Living' /\ Welcome' /\ LostInv' /\ DeletedIsUnreachable'
  BY <1>1, <1>5 DEF Numbers, Genuine, Opened, Living, Welcome, LostInv, Reused, DeletedIsUnreachable
<1>8. Once'
  <2>1. WaitsOnce'
    <3>1. WaitsOnce
      BY DEF Once
    <3> HIDE DEF IInv
    <3> QED BY <3>1, <1>1, <1>2, <1>4, <1>5 DEF WaitsOnce, Positions
  <2>2. /\ \A d, f \in Unhandled' : d.conn = f.conn /\ d.n = f.n => d = f
        /\ \A d \in Unhandled' : d.n \notin taken'[d.conn]
        /\ \A d \in Current' : d.n # 0 => d.n \in taken'[d.conn]
        /\ \A c \in Conns : c \notin lost' \cup deleted' => taken'[c] \cup Waiting(c)' = 1..raised'[c]
    BY <1>1, <1>5 DEF Once
  <2> QED BY <2>1, <2>2 DEF Once
<1>9. Working'
  BY <1>1, <1>5 DEF Working, Rotating, SecondLap, Event, Target
<1>10. Overtaking'
  <2>1. ASSUME NEW d \in Current PROVE ~Earlier(e, d)
    <3>1. d \in Events /\ Genuine(d) /\ d.n <= raised[d.conn] /\ d.n \in Nat
      BY AllEvents DEF Numbers, Genuine
    <3> QED BY <3>1, <1>2 DEF Earlier, TypeOK
  <2> QED BY <2>1, <1>1, <1>4, <1>5 DEF Overtaking
<1>11. Clears'
  <2>1. ASSUME NEW i \in DOMAIN queue', queue'[i].kind = "CLEAR"
        PROVE  \E h \in DOMAIN queue : queue[h] = queue'[i] /\ queue[h].kind = "CLEAR"
    BY <2>1, <1>4 DEF Positions
  <2>2. ASSUME NEW i \in DOMAIN queue', queue'[i].kind = "CLEAR"
        PROVE  \/ task.pc = "get"
               \/ task.pc = "handle" /\ Event.kind = "ACCEPT"
               \/ task.pc \in {"tcp_close", "discard"} /\ Event.conn = queue'[i].conn
    <3>1. PICK h \in DOMAIN queue : queue[h] = queue'[i] /\ queue[h].kind = "CLEAR"
      BY <2>1, <2>2
    <3> QED BY <3>1 DEF Clears
  <2>3. \A i \in DOMAIN queue' : queue'[i].kind = "CLEAR" => \A j \in 1..i-1 : queue'[j].kind = "ACCEPT"
    BY <1>4 DEF Positions
  <2>4. /\ \A d \in (InHand \cup AtDoor)' : d.kind # "CLEAR"
        /\ task'.pc \in {"tcp_close", "discard"} =>
             \E d \in InQueue' : d.kind = "CLEAR" /\ d.conn = Event'.conn
        /\ \A d \in InQueue' \cup Current' :
             d.kind = "CLEAR" /\ task'.pc \notin {"tcp_close", "discard"} => d.conn \in deleted' \cup overtaken'
    BY <1>1, <1>2, <1>4, <1>5 DEF Clears, Event
  <2>5. task' = task
    BY <1>1
  <2> QED BY <2>2, <2>3, <2>4, <2>5 DEF Clears, Event
<1>12. Gone'
  BY <1>1, <1>2, <1>4, <1>5, SweptGrown
<1> QED BY <1>6, <1>7, <1>8, <1>9, <1>10, <1>11, <1>12

(* A callback of the lwIP thread, for a connection that is open or opened *)
LEMMA CallbackStep ==
  ASSUME IInv, NEW c \in Conns, NEW kind \in Kinds \ {"CLEAR"}, NEW arg \in Addrs \cup {Server},
         NEW front \in BOOLEAN, Callback(c, kind, arg, front), front <=> kind = "ACCEPT",
         link[c] \in {"none", "open"}, kind = "ACCEPT" <=> link[c] = "none",
         arg = (IF kind = "ACCEPT" THEN Server ELSE addr'[c]), addr'[c] \in Addrs,
         link' \in [Conns -> Links], link'[c] # "none", \A d \in Conns \ {c} : link'[d] = link[d],
         kind \in {"FIN", "ERROR"} => link'[c] # "open", kind = "FIN" => link'[c] = "closed",
         addr' \in [Conns -> Addrs \cup {None}], \A d \in Conns : Opened(d) => addr'[d] = addr[d],
         client' \in [Addrs -> Conns \cup {None}], Living',
         \A a \in Addrs : client[a] # None => client'[a] = client[a]
  PROVE  IInv'
<1> USE DEF IInv
<1>0. PICK e : e = [kind |-> kind, arg |-> arg, conn |-> c, n |-> raised[c] + 1]
  OBVIOUS
<1>1. /\ stalled = <<>> /\ raised' = [raised EXCEPT ![c] = @ + 1]
      /\ UNCHANGED <<wired, deleted, task, taken, overtaken, lost, stale>>
      /\ \/ stalled' = <<[event |-> e, front |-> front]>> /\ UNCHANGED queue
         \/ /\ Len(queue) < QueueSize /\ UNCHANGED stalled
            /\ queue' = IF front THEN <<e>> \o queue ELSE Append(queue, e)
  BY <1>0, AsyncTcpAssumption DEF Callback, Send, Full, Put, history, TypeOK
<1>2. /\ e \in Events /\ e.n = raised[c] + 1 /\ e.conn = c /\ e.kind = kind /\ e.arg = arg
      /\ raised[c] \in Nat /\ raised' \in [Conns -> Nat]
      /\ \A d \in Conns : raised'[d] = IF d = c THEN raised[c] + 1 ELSE raised[d]
  BY <1>0, <1>1 DEF Events, TypeOK
<1>3. /\ raised[c] = 0 <=> kind = "ACCEPT"
      /\ \A d \in Conns : Opened(d)' <=> Opened(d) \/ d = c
      /\ c \notin deleted
  BY DEF Numbers, Opened, DeletedIsUnreachable
<1>4. \A d \in Unhandled \cup Current : d # e
  BY <1>2, AllEvents DEF Numbers, Genuine
<1>5. e \notin InQueue /\ e.kind # "CLEAR"
  BY <1>2, <1>4 DEF Unhandled
<1>6. AtDoor = {} /\ InHand' = InHand /\ Current' = Current
  BY <1>1 DEF AtDoor, InHand, Current
<1>7. \/ AtDoor' = {e} /\ UNCHANGED queue
      \/ AtDoor' = {} /\ UNCHANGED stalled /\ Len(queue) < QueueSize
         /\ (queue' = Append(queue, e) \/ (e.kind = "ACCEPT" /\ queue' = <<e>> \o queue))
  BY <1>1, <1>2 DEF AtDoor
<1>8. /\ queue' \in Seq(Events) /\ InQueue' \subseteq InQueue \cup {e} /\ InQueue \subseteq InQueue'
      /\ Len(queue') <= QueueSize /\ Unhandled' = Unhandled \cup {e}
      /\ InQueue' \cap AtDoor' = {} /\ InHand \cap (InQueue' \cup AtDoor') = {}
      /\ Positions(e)
  <2>1. CASE AtDoor' = {e} /\ UNCHANGED queue
    <3>1. InQueue' = InQueue
      BY <2>1 DEF InQueue
    <3>2. Positions(e)
      BY <2>1 DEF Positions, Once, WaitsOnce, Clears
    <3> QED BY <2>1, <3>1, <3>2, <1>4, <1>5, <1>6 DEF Once, WaitsOnce, Unhandled, TypeOK
  <2>2. CASE /\ AtDoor' = {} /\ UNCHANGED stalled /\ Len(queue) < QueueSize
             /\ (queue' = Append(queue, e) \/ (e.kind = "ACCEPT" /\ queue' = <<e>> \o queue))
    <3>1. /\ queue' \in Seq(Events) /\ Len(queue') = Len(queue) + 1 /\ InQueue' = InQueue \cup {e}
          /\ Positions(e)
      <4> HIDE DEF IInv
      <4>1. e \in Events /\ e \notin InQueue /\ e.kind # "CLEAR"
        BY <1>2, <1>5
      <4>2. queue' = Append(queue, e) \/ (e.kind = "ACCEPT" /\ queue' = <<e>> \o queue)
        BY <2>2
      <4> QED BY <4>1, <4>2, Inserted
    <3>2. Len(queue') <= QueueSize
      BY <2>2, <3>1, AsyncTcpAssumption DEF TypeOK
    <3>3. Unhandled' = Unhandled \cup {e}
      BY <2>2, <3>1, <1>6 DEF Unhandled
    <3>4. InHand \cap (InQueue' \cup AtDoor') = {}
      BY <2>2, <3>1, <1>4 DEF Unhandled, Once, WaitsOnce
    <3> QED BY <2>2, <3>1, <3>2, <3>3, <3>4
  <2> QED BY <1>7, <2>1, <2>2
<1>9. \A d \in Conns : Waiting(d)' = Waiting(d) \cup (IF d = c THEN {raised[c] + 1} ELSE {})
  <2>1. ASSUME NEW d \in Conns
        PROVE  Waiting(d)' = Waiting(d) \cup (IF d = c THEN {raised[c] + 1} ELSE {})
    BY <1>2, <1>8 DEF Waiting
  <2> QED BY <2>1
<1>10. TypeOK'
  <2>1. stalled' \in Seq([event : Events, front : BOOLEAN]) /\ Len(stalled') <= 1
    <3> DEFINE Late == [event : Events, front : BOOLEAN]
    <3>1. stalled \in Seq(Late) /\ Len(stalled) <= 1 /\ [event |-> e, front |-> front] \in Late
      BY <1>2 DEF TypeOK
    <3> HIDE DEF Late
    <3>2. stalled' = stalled \/ stalled' = <<[event |-> e, front |-> front]>>
      BY <1>1
    <3>3. ASSUME stalled' = stalled PROVE stalled' \in Seq(Late) /\ Len(stalled') <= 1
      BY <3>1, <3>3
    <3>4. ASSUME stalled' = <<[event |-> e, front |-> front]>>
          PROVE  stalled' \in Seq(Late) /\ Len(stalled') <= 1
      <4> DEFINE late == [event |-> e, front |-> front]
      <4>1. late \in Late
        BY <3>1
      <4> HIDE DEF late
      <4>2. <<late>> \in Seq(Late) /\ Len(<<late>>) = 1
        BY <4>1
      <4> QED BY <3>4, <4>2 DEF late
    <3> QED BY <3>2, <3>3, <3>4 DEF Late
  <2> QED BY <1>1, <1>2, <1>8, <2>1 DEF TypeOK
<1>11. Numbers'
  <2>1. Genuine(e)'
    <3>1. Opened(c)' /\ e.n <= raised'[c] /\ e.n = raised'[c] /\ (kind = "ACCEPT" <=> e.n = 1) /\ e.n # 0
      BY <1>2, <1>3 DEF Opened
    <3> QED BY <3>1, <1>2, <1>5 DEF Genuine
  <2>2. ASSUME NEW d \in Unhandled \cup Current PROVE Genuine(d)'
    <3>1. Genuine(d) /\ d.conn \in Conns /\ d.n \in Nat
      BY AllEvents DEF Numbers
    <3>2. d.conn # c => Genuine(d)'
      BY <3>1, <1>2, <1>3 DEF Genuine, Opened
    <3>3. d.conn = c => d.kind \notin {"FIN", "ERROR", "CLEAR"} /\ link[c] = "open"
      BY <3>1 DEF Genuine, Opened
    <3>4. d.conn = c => Genuine(d)'
      BY <3>1, <3>3, <1>2, <1>3 DEF Genuine, Opened
    <3> QED BY <3>2, <3>4
  <2>3. \A d \in Conns : Opened(d)' <=> raised'[d] # 0
    BY <1>2, <1>3 DEF Numbers
  <2>4. \A d \in Conns : taken'[d] \subseteq 1..raised'[d]
    BY <1>1, <1>2 DEF Numbers, TypeOK
  <2>5. \A i \in DOMAIN stalled' :
          /\ stalled'[i].event.n = raised'[stalled'[i].event.conn]
          /\ stalled'[i].front <=> stalled'[i].event.n = 1
    <3>1. CASE stalled' = <<>>
      BY <3>1
    <3>2. CASE stalled' = <<[event |-> e, front |-> front]>>
      BY <3>2, <1>2, <1>3
    <3> QED BY <3>1, <3>2, <1>1
  <2>6. \A d \in Unhandled' \cup Current' : Genuine(d)'
    BY <2>1, <2>2, <1>6, <1>8
  <2> QED BY <2>3, <2>4, <2>5, <2>6 DEF Numbers
<1>12. Once'
  <2>1. \A d \in Unhandled' : d.n \notin taken'[d.conn]
    BY <1>1, <1>2, <1>8 DEF Once, Numbers, TypeOK
  <2>2. \A d \in Conns : d \notin lost' \cup deleted' => taken'[d] \cup Waiting(d)' = 1..raised'[d]
    BY <1>1, <1>2, <1>9 DEF Once
  <2>3. WaitsOnce'
    BY <1>1, <1>6, <1>8 DEF Once, WaitsOnce, Positions
  <2>4. \A d \in Unhandled : d.conn = c => d.n # e.n
    BY <1>2, AllEvents DEF Numbers, Genuine
  <2>5. \A d, f \in Unhandled' : d.conn = f.conn /\ d.n = f.n => d = f
    BY <2>4, <1>2, <1>8 DEF Once
  <2>6. \A d \in Current' : d.n # 0 => d.n \in taken'[d.conn]
    BY <1>1, <1>6 DEF Once
  <2> QED BY <2>1, <2>2, <2>3, <2>5, <2>6 DEF Once
<1>13. Welcome'
  <2>1. link[c] = "none" => 1 \in Waiting(c)'
    BY <1>2, <1>3, <1>9
  <2>2. link[c] # "none" => Opened(c)
    BY DEF Opened
  <2> QED BY <2>1, <2>2, <1>1, <1>3, <1>6, <1>9 DEF Welcome
<1>14. ASSUME NEW d \in Current
       PROVE  (d.kind \in {"FIN", "ERROR", "CLEAR"} \/ link[d.conn] # "open" => d.conn # c) /\ ~Earlier(e, d)
  <2>1. Genuine(d) /\ d.conn \in Conns /\ d.n \in Nat
    BY AllEvents DEF Numbers
  <2> QED BY <2>1, <1>2 DEF Genuine, Opened, Earlier
<1>15. Working'
  <2>1. task.pc \in {"api", "close", "clear", "tcp_close", "discard"} =>
          client'[Event.arg] = Event.conn /\ Event.conn \in Conns
    BY AtWork, AsyncTcpAssumption DEF Working, Target, Genuine, Living, Events
  <2>2. task.pc \in {"clear", "tcp_close", "discard"} => link'[Event.conn] = link[Event.conn] /\ Event.conn # c
    BY <1>14, <2>1, AtWork DEF Working
  <2>3. task.pc = "discard" => \A d \in AtDoor' : d.conn # Event.conn
    BY <2>2, <1>2, <1>7
  <2> QED BY <2>1, <2>2, <2>3, <1>1 DEF Working, Rotating, SecondLap, Event, Target
<1>16. Overtaking'
  BY <1>1, <1>6, <1>8, <1>14 DEF Overtaking
<1>17. Clears'
  <2>1. Clears
    OBVIOUS
  <2> HIDE DEF IInv
  <2>2. \A i \in DOMAIN queue' : queue'[i].kind = "CLEAR" =>
          /\ \A j \in 1..i-1 : queue'[j].kind = "ACCEPT"
          /\ \/ task'.pc = "get"
             \/ task'.pc = "handle" /\ Event'.kind = "ACCEPT"
             \/ task'.pc \in {"tcp_close", "discard"} /\ Event'.conn = queue'[i].conn
    BY <2>1, <1>1, <1>8 DEF Clears, Event, Positions
  <2>3. \A d \in InHand' \cup AtDoor' : d.kind # "CLEAR"
    BY <2>1, <1>5, <1>6, <1>7 DEF Clears
  <2>4. task.pc \in {"tcp_close", "discard"} =>
          \E d \in InQueue' : d.kind = "CLEAR" /\ d.conn = Event.conn
    BY <2>1, <1>8 DEF Clears
  <2>5. \A d \in InQueue' \cup Current' :
          d.kind = "CLEAR" /\ task.pc \notin {"tcp_close", "discard"} => d.conn \in deleted \cup overtaken
    BY <2>1, <1>5, <1>6, <1>8 DEF Clears
  <2> QED BY <2>2, <2>3, <2>4, <2>5, <1>1 DEF Clears, Event
<1>18. Gone'
  BY <1>1, <1>2, <1>3, <1>5, <1>6, <1>8, SweptGrown
<1>19. LostInv'
  BY <1>1 DEF LostInv, Reused, Living, TypeOK
<1>20. DeletedIsUnreachable'
  BY <1>1, <1>2, <1>3 DEF DeletedIsUnreachable, TypeOK
<1> QED BY <1>10, <1>11, <1>12, <1>13, <1>15, <1>16, <1>17, <1>18, <1>19, <1>20

LEMMA RaiseSteps ==
  ASSUME IInv, NEW c \in Conns,
         \/ \E a \in Addrs : Accept(c, a)
         \/ \E kind \in {"RECV", "POLL"} : Raise(c, kind)
         \/ Fin(c)
         \/ Err(c)
  PROVE  IInv'
<1>1. TypeOK /\ Living
  BY DEF IInv
<1>2. CASE \E a \in Addrs : Accept(c, a)
  <2>1. PICK a \in Addrs : Accept(c, a)
    BY <1>2
  <2>2. /\ Callback(c, "ACCEPT", Server, TRUE) /\ link[c] = "none" /\ client[a] = None
        /\ link' = [link EXCEPT ![c] = "open"] /\ client' = [client EXCEPT ![a] = c]
        /\ addr' = [addr EXCEPT ![c] = a] /\ UNCHANGED <<wired, deleted, lost>>
    BY <2>1 DEF Accept, Callback, history
  <2>3. /\ link' \in [Conns -> Links] /\ link'[c] = "open" /\ addr'[c] = a
        /\ \A d \in Conns \ {c} : link'[d] = link[d] /\ addr'[d] = addr[d]
        /\ client' \in [Addrs -> Conns \cup {None}] /\ addr' \in [Conns -> Addrs \cup {None}]
        /\ client'[a] = c /\ \A b \in Addrs \ {a} : client'[b] = client[b]
    BY <2>2, <1>1 DEF TypeOK, Links
  <2>4. c \notin deleted
    BY <2>2 DEF IInv, DeletedIsUnreachable
  <2>5. Living'
    <3>1. \A d \in Conns : Opened(d)' <=> Opened(d) \/ d = c
      BY <2>3 DEF Opened
    <3>2. \A d \in Conns : Opened(d)' => addr'[d] \in Addrs
      BY <1>1, <2>3, <3>1 DEF Living
    <3>3. ASSUME NEW d \in Conns, Opened(d)', d \notin deleted' PROVE client'[addr'[d]] = d
      BY <1>1, <2>2, <2>3, <3>1, <3>3, AsyncTcpAssumption DEF Living
    <3>4. ASSUME NEW b \in Addrs, client'[b] # None
          PROVE  (Opened(client[b]) /\ addr[client[b]] = b /\ client[b] \notin deleted)'
      <4>1. CASE b = a
        BY <4>1, <2>2, <2>3, <2>4, <3>1
      <4>2. CASE b # a
        <5>1. client'[b] = client[b] /\ client[b] \in Conns
          BY <4>2, <3>4, <2>3, <1>1 DEF TypeOK
        <5>2. Opened(client[b]) /\ addr[client[b]] = b /\ client[b] \notin deleted
          BY <5>1, <3>4, <1>1 DEF Living
        <5>3. client[b] # c
          BY <5>2, <2>2 DEF Opened
        <5> QED BY <5>1, <5>2, <5>3, <2>2, <2>3, <3>1
      <4> QED BY <4>1, <4>2
    <3>5. \A d \in wired' \cup lost' : Opened(d)'
      BY <1>1, <2>2, <3>1 DEF Living, TypeOK
    <3> QED BY <3>2, <3>3, <3>4, <3>5 DEF Living
  <2>6. \A d \in Conns : Opened(d) => addr'[d] = addr[d]
    BY <2>2, <2>3 DEF Opened
  <2>7. \A b \in Addrs : client[b] # None => client'[b] = client[b]
    BY <2>2, <2>3
  <2> QED BY <2>2, <2>3, <2>5, <2>6, <2>7, CallbackStep DEF Kinds
<1>3. ASSUME link[c] = "open"
      PROVE  /\ addr[c] \in Addrs /\ addr \in [Conns -> Addrs \cup {None}]
             /\ client \in [Addrs -> Conns \cup {None}]
  BY <1>1, <1>3 DEF Living, Opened, TypeOK
<1>4. ASSUME NEW kind \in {"RECV", "POLL", "FIN", "ERROR"}, link[c] = "open",
             Callback(c, kind, addr[c], FALSE), UNCHANGED <<client, addr>>,
             link' \in [Conns -> Links], link'[c] # "none", \A d \in Conns \ {c} : link'[d] = link[d],
             kind \in {"FIN", "ERROR"} => link'[c] # "open", kind = "FIN" => link'[c] = "closed"
      PROVE  IInv'
  <2>1. \A d \in Conns : Opened(d)' <=> Opened(d)
    BY <1>4 DEF Opened
  <2>2. UNCHANGED <<wired, deleted, lost>>
    BY <1>4 DEF Callback, history
  <2>3. Living'
    BY <1>1, <1>4, <2>1, <2>2 DEF Living, TypeOK
  <2> QED BY <1>3, <1>4, <2>3, CallbackStep DEF Kinds
<1>5. CASE \E kind \in {"RECV", "POLL"} : Raise(c, kind)
  BY <1>1, <1>4, <1>5 DEF Raise, TypeOK
<1>6. CASE Fin(c)
  BY <1>1, <1>4, <1>6 DEF Fin, TypeOK, Links
<1>7. CASE Err(c)
  BY <1>1, <1>4, <1>7 DEF Err, TypeOK, Links
<1> QED BY <1>2, <1>5, <1>6, <1>7

(* What is to sweep the queue goes to its front. *)
LEMMA ClearStep == ASSUME IInv, PrependClear PROVE IInv'
<1>0. PICK e : e = [kind |-> "CLEAR", arg |-> Event.arg, conn |-> Event.conn, n |-> 0]
  OBVIOUS
<1>1. /\ task.pc = "clear" /\ Len(queue) < QueueSize /\ queue' = <<e>> \o queue
      /\ Goto(IF Event.kind = "FIN" THEN "discard" ELSE "tcp_close")
      /\ UNCHANGED <<stalled, link, raised, client, addr, wired, deleted, taken, overtaken, lost, stale>>
  BY <1>0, AsyncTcpAssumption DEF PrependClear, lwip, objects, history, Put, Full, IInv, TypeOK
<1>2. /\ Event \in Events /\ Current = {Event} /\ InHand = {} /\ Genuine(Event) /\ Event.conn \in Conns
      /\ Event.kind \in {"RECV", "POLL", "FIN"} /\ Event.arg = addr[Event.conn] /\ link[Event.conn] # "open"
      /\ Event.n # 0 /\ Event.n \in Nat /\ Event.n \in taken[Event.conn] /\ Target = Event.conn
  BY <1>1, AtWork DEF IInv, Working, Genuine, Events
<1>3. /\ e \in Events /\ e.kind = "CLEAR" /\ e.n = 0 /\ e.conn = Event.conn /\ e.arg = Event.arg
  BY <1>0, <1>2 DEF Events, Kinds
<1>4. /\ queue \in Seq(Events) /\ Len(queue) \in Nat
      /\ queue' \in Seq(Events) /\ Len(queue') = Len(queue) + 1
      /\ DOMAIN queue = 1..Len(queue) /\ DOMAIN queue' = 1..Len(queue) + 1 /\ queue'[1] = e
      /\ \A i \in 2..Len(queue) + 1 : i - 1 \in 1..Len(queue) /\ queue'[i] = queue[i - 1]
      /\ InQueue' = InQueue \cup {e}
  <2>1. TypeOK /\ queue \in Seq(Events) /\ Len(queue) \in Nat
    BY DEF IInv, TypeOK
  <2> QED BY <1>1, <1>3, <2>1, InFront
<1>5. /\ InHand' = {} /\ Current' = Current
      /\ task'.pc = (IF Event.kind = "FIN" THEN "discard" ELSE "tcp_close")
      /\ UNCHANGED <<task.event, task.packet, task.first>>
      /\ task' \in [pc : Points, event : Events \cup {None}, packet : Events \cup {None},
                    first : Events \cup {None}]
  BY <1>1, <1>2, Going DEF Points, IInv
<1>6. AtDoor' = AtDoor /\ Unhandled' = Unhandled \cup {e} /\ \A c \in Conns : Waiting(c)' = Waiting(c)
  <2>1. AtDoor' = AtDoor /\ Unhandled' = Unhandled \cup {e}
    BY <1>1, <1>2, <1>4, <1>5 DEF AtDoor, Unhandled
  <2>2. ASSUME NEW c \in Conns PROVE Waiting(c)' = Waiting(c)
    BY <2>1, <1>3 DEF Waiting
  <2> QED BY <2>1, <2>2
<1>7. \A d \in InQueue \cup AtDoor : d.kind # "CLEAR"
  BY <1>1, <1>2 DEF IInv, Clears, InQueue
<1> USE DEF IInv
<1>8. TypeOK'
  BY <1>1, <1>4, <1>5, AsyncTcpAssumption DEF TypeOK
<1>9. Numbers'
  <2>1. Genuine(e)
    BY <1>2, <1>3 DEF Genuine, TypeOK, Opened
  <2>2. \A d \in Unhandled' \cup Current' : Genuine(d)
    BY <2>1, <1>5, <1>6 DEF Numbers
  <2> QED BY <2>2, <1>1 DEF Numbers, Genuine, Opened
<1>10. Living' /\ LostInv' /\ DeletedIsUnreachable'
  BY <1>1 DEF Living, LostInv, DeletedIsUnreachable, Opened, Reused
<1>11. Once'
  <2>1. \A i, j \in DOMAIN queue' : queue'[i] = queue'[j] => i = j
    <3> SUFFICES ASSUME NEW i \in 1..Len(queue) + 1, NEW j \in 1..Len(queue) + 1, queue'[i] = queue'[j]
                 PROVE  i = j
      BY <1>4
    <3>1. i # 1 => i - 1 \in 1..Len(queue) /\ queue'[i] = queue[i - 1] /\ queue'[i] # e
      BY <1>3, <1>4, <1>7 DEF InQueue
    <3>2. j # 1 => j - 1 \in 1..Len(queue) /\ queue'[j] = queue[j - 1] /\ queue'[j] # e
      BY <1>3, <1>4, <1>7 DEF InQueue
    <3>3. CASE i = 1 \/ j = 1
      BY <3>1, <3>2, <3>3, <1>4
    <3>4. CASE i # 1 /\ j # 1
      <4>1. \A k, l \in DOMAIN queue : queue[k] = queue[l] => k = l
        BY DEF Once, WaitsOnce
      <4>2. i - 1 = j - 1
        BY <4>1, <3>1, <3>2, <3>4, <1>4
      <4> QED BY <4>2
    <3> QED BY <3>3, <3>4
  <2>2. e \notin AtDoor /\ e.n \notin taken[e.conn]
    BY <1>2, <1>3, <1>7 DEF Numbers
  <2>3. WaitsOnce'
    BY <2>1, <2>2, <1>1, <1>4, <1>5, <1>6 DEF Once, WaitsOnce
  <2>4. \A d \in Unhandled : d.n # 0
    BY <1>2, <1>7 DEF Numbers, Genuine, Unhandled
  <2>5. \A d, f \in Unhandled' : d.conn = f.conn /\ d.n = f.n => d = f
    BY <2>4, <1>3, <1>6 DEF Once
  <2> QED BY <2>2, <2>3, <2>5, <1>1, <1>5, <1>6 DEF Once
<1>12. Welcome'
  BY <1>1, <1>5, <1>6 DEF Welcome, Opened
<1>13. Working'
  <2>1. Event.kind = "FIN" => link[Event.conn] = "closed" /\ \A d \in AtDoor : d.conn # Event.conn
    <3>1. Event.kind = "FIN" => link[Event.conn] = "closed" /\ Event.n = raised[Event.conn]
      BY <1>2 DEF Genuine
    <3>2. \A d \in AtDoor : d.n = raised[d.conn] /\ d.n \notin taken[d.conn]
      BY DEF Numbers, Once, AtDoor, Unhandled
    <3> QED BY <3>1, <3>2, <1>2
  <2>2. Event' = Event /\ Target' = Target
    BY <1>1, <1>5 DEF Event, Target
  <2>3. task'.packet = None /\ task'.first = None /\ task'.event # None
    BY <1>1, <1>5 DEF Working, SecondLap
  <2>4. Event.kind # "FIN" => Event.conn \in wired
    BY <1>1 DEF Working
  <2> QED BY <2>1, <2>2, <2>3, <2>4, <1>1, <1>2, <1>5, <1>6 DEF Working, Rotating, SecondLap
<1>14. Overtaking'
  BY <1>1, <1>3, <1>4, <1>5 DEF Overtaking, Earlier
<1>15. Clears'
  <2>1. ASSUME NEW i \in DOMAIN queue', queue'[i].kind = "CLEAR" PROVE i = 1
    BY <2>1, <1>4, <1>7 DEF InQueue
  <2>2. Event' = Event /\ task'.pc \in {"tcp_close", "discard"}
    BY <1>5 DEF Event
  <2>3. \A d \in InHand' \cup AtDoor' : d.kind # "CLEAR"
    BY <1>5, <1>6, <1>7
  <2> QED BY <2>1, <2>2, <2>3, <1>3, <1>4 DEF Clears
<1>16. Gone'
  <2>1. ASSUME NEW j \in DOMAIN queue', queue'[j].n # 0, queue'[j].conn \in deleted \ overtaken
        PROVE  \E d \in InQueue \cup Current : d.kind = "CLEAR" /\ d.conn = queue'[j].conn
    <3>1. j - 1 \in DOMAIN queue /\ queue'[j] = queue[j - 1]
      BY <2>1, <1>3, <1>4
    <3> QED BY <2>1, <3>1 DEF Gone, Swept
  <2>2. ~SecondLap' /\ task'.pc # "rest_take"
    BY <1>5 DEF SecondLap
  <2>3. Handled' /\ StaleOnlyWhenOvertaken'
    BY <1>1, <1>2, <1>5 DEF Gone, Handled, StaleOnlyWhenOvertaken
  <2> HIDE DEF IInv
  <2>4. Swept' /\ Marked'
    BY <2>1, <2>2, <1>1, <1>4, <1>5 DEF Swept, Marked
  <2> QED BY <2>3, <2>4 DEF Gone
<1> QED BY <1>8, <1>9, <1>10, <1>11, <1>12, <1>13, <1>14, <1>15, <1>16

-----------------------------------------------------------------------------
(* Steps that take an event out of the queue *)

LEMMA Removed ==
  ASSUME IInv, queue # <<>>, queue' = Tail(queue)
  PROVE  /\ queue' \in Seq(Events) /\ Len(queue) \in Nat \ {0} /\ Len(queue') = Len(queue) - 1
         /\ DOMAIN queue = 1..Len(queue) /\ DOMAIN queue' = 1..Len(queue) - 1
         /\ Head(queue) = queue[1] /\ Head(queue) \in InQueue
         /\ \A i \in 1..Len(queue) - 1 : i + 1 \in 2..Len(queue) /\ queue'[i] = queue[i + 1]
         /\ InQueue = InQueue' \cup {Head(queue)} /\ Head(queue) \notin InQueue'
         /\ \A i, j \in DOMAIN queue' : queue'[i] = queue'[j] => i = j
<1>1. /\ queue' \in Seq(Events) /\ Len(queue) \in Nat \ {0} /\ Len(queue') = Len(queue) - 1
      /\ DOMAIN queue = 1..Len(queue) /\ DOMAIN queue' = 1..Len(queue) - 1
      /\ Head(queue) = queue[1] /\ Head(queue) \in InQueue
      /\ \A i \in 1..Len(queue) - 1 : i + 1 \in 2..Len(queue) /\ queue'[i] = queue[i + 1]
      /\ InQueue = InQueue' \cup {Head(queue)}
  <2>1. TypeOK
    BY DEF IInv
  <2> QED BY <2>1, OffFront
<1>2. \A i, j \in 1..Len(queue) : queue[i] = queue[j] => i = j
  BY <1>1 DEF IInv, Once, WaitsOnce
<1>3. Head(queue) \notin InQueue'
  <2> SUFFICES ASSUME Head(queue) \in InQueue' PROVE FALSE
    OBVIOUS
  <2>1. PICK i \in 1..Len(queue) - 1 : queue'[i] = Head(queue)
    BY <1>1 DEF InQueue
  <2>2. i + 1 \in 2..Len(queue) /\ queue[i + 1] = queue[1]
    BY <2>1, <1>1
  <2> QED BY <2>2, <1>1, <1>2
<1>4. \A i, j \in 1..Len(queue) - 1 : queue'[i] = queue'[j] => i = j
  <2> SUFFICES ASSUME NEW i \in 1..Len(queue) - 1, NEW j \in 1..Len(queue) - 1, queue'[i] = queue'[j]
               PROVE  i = j
    OBVIOUS
  <2>1. i + 1 \in 1..Len(queue) /\ j + 1 \in 1..Len(queue) /\ queue[i + 1] = queue[j + 1]
    BY <1>1
  <2>2. i + 1 = j + 1
    BY <2>1, <1>2
  <2> QED BY <2>2
<1> QED BY <1>1, <1>3, <1>4

LEMMA GetStep == ASSUME IInv, Get PROVE IInv'
<1>0. PICK h : h = Head(queue)
  OBVIOUS
<1>1. /\ task.pc = "get" /\ queue # <<>> /\ queue' = Tail(queue)
      /\ task' = [task EXCEPT !.pc = "handle", !.event = h]
      /\ overtaken' = IF \E i \in 2..Len(queue) : Earlier(queue[i], h)
                        THEN overtaken \cup {h.conn} ELSE overtaken
      /\ taken' = [taken EXCEPT ![h.conn] = @ \cup ({h.n} \ {0})]
      /\ UNCHANGED <<stalled, link, raised, client, addr, wired, deleted, lost, stale>>
  BY <1>0 DEF Get, lwip, objects
<1>2. /\ TypeOK /\ Numbers /\ Living /\ Once /\ Welcome /\ Working
      /\ Overtaking /\ Clears /\ Gone /\ LostInv /\ DeletedIsUnreachable
  BY DEF IInv
<1>3. /\ queue' \in Seq(Events) /\ Len(queue) \in Nat \ {0} /\ Len(queue') = Len(queue) - 1
      /\ DOMAIN queue = 1..Len(queue) /\ DOMAIN queue' = 1..Len(queue) - 1
      /\ h = queue[1] /\ h \in InQueue
      /\ \A i \in 1..Len(queue) - 1 : i + 1 \in 2..Len(queue) /\ queue'[i] = queue[i + 1]
      /\ InQueue = InQueue' \cup {h} /\ h \notin InQueue'
  BY <1>0, <1>1, Removed
<1>4. \A i, j \in DOMAIN queue' : queue'[i] = queue'[j] => i = j
  BY <1>0, <1>1, Removed
<1>5. /\ h \in Events /\ h \in Unhandled /\ Genuine(h) /\ h.conn \in Conns /\ h.n \in Nat
      /\ h.n \notin taken[h.conn]
  BY <1>2, <1>3, AllEvents DEF Unhandled, Numbers, Once
<1>6. InHand = {} /\ Current = {} /\ task.packet = None /\ task.first = None
  BY <1>1, <1>2 DEF InHand, Current, Working, SecondLap
<1>7. /\ task' \in [pc : Points, event : Events \cup {None}, packet : Events \cup {None},
                    first : Events \cup {None}]
      /\ task'.pc = "handle" /\ task'.event = h /\ task'.packet = None /\ task'.first = None
      /\ Event' = h /\ h # None
  BY <1>1, <1>2, <1>5, <1>6, NoneAssumption DEF TypeOK, Points, Event
<1>8. Current' = {h} /\ InHand' = {} /\ AtDoor' = AtDoor /\ Unhandled' = Unhandled \ {h}
  <2>1. Current' = {h} /\ InHand' = {} /\ AtDoor' = AtDoor
    BY <1>1, <1>7 DEF Current, InHand, AtDoor
  <2>2. h \notin AtDoor
    BY <1>2, <1>3 DEF Once, WaitsOnce
  <2> QED BY <2>1, <2>2, <1>3, <1>4, <1>6 DEF Unhandled
<1>9. /\ taken' \in [Conns -> SUBSET Nat]
      /\ \A c \in Conns : taken'[c] = taken[c] \cup (IF c = h.conn THEN {h.n} \ {0} ELSE {})
  BY <1>1, <1>2, <1>5 DEF TypeOK
<1>10. \A c \in Conns : Waiting(c)' \subseteq Waiting(c) /\ Waiting(c) \subseteq Waiting(c)' \cup taken'[c]
  BY <1>8, <1>9, <1>5 DEF Waiting
<1>11. overtaken \subseteq overtaken' /\ overtaken' \subseteq overtaken \cup {h.conn}
  BY <1>1
<1>12. TypeOK'
  BY <1>1, <1>2, <1>3, <1>5, <1>7, <1>9, <1>11, AsyncTcpAssumption DEF TypeOK
<1>13. Numbers'
  <2>1. \A e \in Unhandled' \cup Current' : Genuine(e)
    BY <1>2, <1>5, <1>8 DEF Numbers
  <2>2. \A c \in Conns : taken'[c] \subseteq 1..raised[c]
    BY <1>2, <1>5, <1>9 DEF Numbers, Genuine, TypeOK
  <2> QED BY <2>1, <2>2, <1>1, <1>2 DEF Numbers, Genuine, Opened
<1>14. Living' /\ LostInv' /\ DeletedIsUnreachable'
  BY <1>1, <1>2, <1>11 DEF Living, LostInv, DeletedIsUnreachable, Opened, Reused
<1>15. Once'
  <2>1. WaitsOnce'
    BY <1>2, <1>3, <1>4, <1>8 DEF Once, WaitsOnce
  <2>2. \A e, f \in Unhandled' : e.conn = f.conn /\ e.n = f.n => e = f
    BY <1>2, <1>8 DEF Once
  <2>3. ASSUME NEW e \in Unhandled' PROVE e.n \notin taken'[e.conn]
    <3>1. e \in Unhandled /\ e # h /\ e.conn \in Conns
      BY <1>2, <1>8, AllEvents
    <3> QED BY <3>1, <1>2, <1>5, <1>9 DEF Once
  <2>4. \A e \in Current' : e.n # 0 => e.n \in taken'[e.conn]
    BY <1>5, <1>8, <1>9
  <2>5. \A c \in Conns : c \notin lost' \cup deleted' => taken'[c] \cup Waiting(c)' = 1..raised'[c]
    <3> SUFFICES ASSUME NEW c \in Conns, c \notin lost \cup deleted
                 PROVE  taken'[c] \cup Waiting(c)' = 1..raised[c]
      BY <1>1
    <3>1. taken[c] \cup Waiting(c) = 1..raised[c]
      BY <1>2 DEF Once
    <3>2. taken'[c] \subseteq 1..raised[c] /\ taken[c] \subseteq taken'[c]
      BY <1>1, <1>9, <1>13 DEF Numbers
    <3> QED BY <3>1, <3>2, <1>10
  <2> QED BY <2>1, <2>2, <2>3, <2>4, <2>5 DEF Once
<1>16. Welcome'
  <2>1. ASSUME NEW c \in Conns, 1 \in Waiting(c), 1 \notin Waiting(c)' PROVE h.conn = c /\ h.kind = "ACCEPT"
    BY <2>1, <1>2, <1>5, <1>8 DEF Waiting, Genuine
  <2>2. \A c \in wired' : 1 \in taken'[c]
    BY <1>1, <1>2, <1>9 DEF Welcome, TypeOK
  <2> QED BY <2>1, <2>2, <1>1, <1>2, <1>6, <1>8 DEF Welcome, Opened
<1>17. Working'
  BY <1>7 DEF Working, Rotating, SecondLap, Event
<1>18. Overtaking'
  <2>1. ASSUME NEW f \in InQueue', Earlier(f, h) PROVE h.conn \in overtaken'
    <3>1. PICK i \in 1..Len(queue) - 1 : f = queue'[i]
      BY <1>3 DEF InQueue
    <3>2. i + 1 \in 2..Len(queue) /\ f = queue[i + 1]
      BY <3>1, <1>3
    <3> QED BY <3>2, <2>1, <1>1
  <2>2. ASSUME h.kind = "FIN", h.conn \notin wired PROVE h.conn \in overtaken'
    <3>1. h.n = raised[h.conn] /\ h.n \notin {0, 1} /\ Opened(h.conn)
      BY <2>2, <1>5 DEF Genuine
    <3>2. 1 \in Waiting(h.conn)
      BY <3>1, <2>2, <1>2, <1>5, <1>6 DEF Welcome
    <3>3. PICK f \in Unhandled : f.conn = h.conn /\ f.n = 1
      BY <3>2 DEF Waiting
    <3>4. f \notin AtDoor
      BY <3>1, <3>3, <1>2 DEF Numbers, AtDoor
    <3>5. f \in InQueue'
      BY <3>1, <3>3, <3>4, <1>3, <1>6 DEF Unhandled
    <3>6. Earlier(f, h)
      BY <3>1, <3>3, <1>5 DEF Earlier
    <3> QED BY <3>5, <3>6, <2>1
  <2> QED BY <2>1, <2>2, <1>1, <1>8 DEF Overtaking
<1>19. ASSUME NEW i \in 2..Len(queue), queue[i].kind = "CLEAR"
       PROVE  h.kind = "ACCEPT" /\ \A j \in 1..i-1 : queue[j].kind = "ACCEPT"
  <2>1. 1 \in 1..i-1 /\ i \in DOMAIN queue
    BY <1>3
  <2> QED BY <2>1, <1>2, <1>3, <1>19 DEF Clears
<1>20. Clears'
  <2>1. ASSUME NEW i \in DOMAIN queue', queue'[i].kind = "CLEAR"
        PROVE  h.kind = "ACCEPT" /\ \A j \in 1..i-1 : queue'[j].kind = "ACCEPT"
    <3>1. i + 1 \in 2..Len(queue) /\ queue'[i] = queue[i + 1]
      BY <1>3
    <3>2. h.kind = "ACCEPT" /\ \A j \in 1..(i+1)-1 : queue[j].kind = "ACCEPT"
      BY <3>1, <2>1, <1>19
    <3>3. ASSUME NEW j \in 1..i-1 PROVE queue'[j] = queue[j + 1] /\ j + 1 \in 1..(i+1)-1
      BY <1>3
    <3> QED BY <3>2, <3>3
  <2>2. \A e \in InQueue' \cup Current' : e.kind = "CLEAR" => e.conn \in deleted' \cup overtaken'
    BY <1>1, <1>2, <1>3, <1>8, <1>11 DEF Clears
  <2>3. \A e \in InHand' \cup AtDoor' : e.kind # "CLEAR"
    BY <1>2, <1>8 DEF Clears
  <2> QED BY <2>1, <2>2, <2>3, <1>7 DEF Clears
<1>21. Gone'
  <2>1. ASSUME h.n # 0, h.conn \in deleted, h.conn \notin overtaken PROVE FALSE
    <3>1. PICK d \in InQueue : d.kind = "CLEAR" /\ d.conn = h.conn
      BY <2>1, <1>2, <1>3, <1>6 DEF Gone, Swept
    <3>2. PICK i \in 1..Len(queue) : d = queue[i]
      BY <1>3, <3>1 DEF InQueue
    <3>3. i \in 2..Len(queue)
      BY <3>1, <3>2, <1>3, <1>5, <2>1 DEF Genuine
    <3>4. h.n = 1
      BY <3>1, <3>2, <3>3, <1>19, <1>5 DEF Genuine
    <3>5. 1 \in taken[h.conn]
      BY <2>1, <1>2 DEF TypeOK, Welcome
    <3> QED BY <3>4, <3>5, <1>5
  <2>2. Handled'
    BY <2>1, <1>1, <1>8, <1>11 DEF Handled
  <2>3. ASSUME NEW j \in DOMAIN queue', queue'[j].n # 0, queue'[j].conn \in deleted \ overtaken'
        PROVE  \E e \in InQueue' \cup Current' : e.kind = "CLEAR" /\ e.conn = queue'[j].conn
    <3>1. j + 1 \in DOMAIN queue /\ queue'[j] = queue[j + 1]
      BY <1>3
    <3>2. \E e \in InQueue \cup Current : e.kind = "CLEAR" /\ e.conn = queue[j + 1].conn
      BY <3>1, <2>3, <1>2, <1>11 DEF Gone, Swept
    <3> QED BY <3>1, <3>2, <1>3, <1>6, <1>8
  <2>4. Swept' /\ Marked'
    BY <2>3, <1>1, <1>7 DEF Swept, Marked, SecondLap
  <2> QED BY <2>2, <2>4, <1>1, <1>2, <1>11 DEF Gone, StaleOnlyWhenOvertaken
<1> QED BY <1>12, <1>13, <1>14, <1>15, <1>16, <1>17, <1>18, <1>20, <1>21 DEF IInv

(* While CLEAR is handled there is no other. *)
LEMMA InRotation ==
  ASSUME IInv, Rotating
  PROVE  /\ Event \in Events /\ Event.kind = "CLEAR" /\ Event.n = 0 /\ Current = {Event}
         /\ Event.conn \in Conns /\ Event.arg = addr[Event.conn] /\ Event.arg \in Addrs
         /\ Event.conn \in deleted \cup overtaken
         /\ \A e \in Unhandled : e \in Events /\ Genuine(e) /\ e.kind # "CLEAR" /\ e.n # 0
         /\ task.pc \notin {"first_back", "rest_back"} => InHand = {}
         /\ task.pc \in {"first_back", "rest_back"} => task.packet \in Events /\ InHand = {task.packet}
<1>1. task.pc # "get" /\ Event.kind = "CLEAR"
  BY DEF IInv, Working, Rotating
<1>2. /\ Event \in Events /\ Current = {Event} /\ Genuine(Event) /\ Event.conn \in Conns
      /\ task.pc \notin {"first_back", "rest_back"} => InHand = {}
  BY <1>1, AtWork DEF Events
<1>3. Event.n = 0 /\ Event.arg = addr[Event.conn] /\ Event.arg \in Addrs /\ Event.conn \in deleted \cup overtaken
  BY <1>1, <1>2 DEF Genuine, IInv, Living, Clears, Rotating
<1>4. \A e \in Unhandled : e.kind # "CLEAR"
  BY <1>1 DEF IInv, Clears, Unhandled, InQueue, Rotating
<1>5. \A e \in Unhandled : e \in Events /\ Genuine(e) /\ e.n # 0
  BY <1>4, AllEvents DEF IInv, Numbers, Genuine
<1>6. task.pc \in {"first_back", "rest_back"} => task.packet \in Events /\ InHand = {task.packet}
  BY DEF IInv, Working, InHand, TypeOK
<1> QED BY <1>1, <1>2, <1>3, <1>4, <1>5, <1>6

(* What waits ahead of the packet that ends the rotation still does, and    *)
(* CLEARs are where they were.                                              *)
LEMMA SweptShrunk ==
  ASSUME IInv, queue # <<>>, queue' = Tail(queue), Rotating,
         UNCHANGED <<deleted, overtaken, stale>>, Current' = Current, UNCHANGED task.first,
         SecondLap' => SecondLap /\ Head(queue) # task.first, task'.pc # "rest_take"
  PROVE  Swept' /\ Marked'
<1>1. /\ Len(queue) \in Nat \ {0} /\ Len(queue') = Len(queue) - 1
      /\ DOMAIN queue = 1..Len(queue) /\ DOMAIN queue' = 1..Len(queue) - 1
      /\ Head(queue) = queue[1]
      /\ \A i \in 1..Len(queue) - 1 : i + 1 \in 2..Len(queue) /\ queue'[i] = queue[i + 1]
      /\ InQueue = InQueue' \cup {Head(queue)}
  BY Removed
<1>2. /\ Swept /\ Marked /\ Current = {Event}
      /\ \A e \in InQueue : e.kind # "CLEAR"
  BY InRotation DEF IInv, Gone, Unhandled
<1>3. Swept'
  <2> SUFFICES ASSUME NEW j \in DOMAIN queue', queue'[j].n # 0, queue'[j].conn \in deleted' \ overtaken'
               PROVE  /\ \E e \in InQueue' \cup Current' : e.kind = "CLEAR" /\ e.conn = queue'[j].conn
                      /\ SecondLap' => \E k \in j+1..Len(queue') : queue'[k] = task'.first
    BY DEF Swept
  <2>1. j \in 1..Len(queue) - 1 /\ j + 1 \in DOMAIN queue /\ queue'[j] = queue[j + 1]
    BY <1>1
  <2>2. /\ \E e \in InQueue \cup Current : e.kind = "CLEAR" /\ e.conn = queue[j + 1].conn
        /\ SecondLap => \E k \in (j+1)+1..Len(queue) : queue[k] = task.first
    BY <2>1, <1>2 DEF Swept
  <2>3. \E e \in Current' : e.kind = "CLEAR" /\ e.conn = queue'[j].conn
    BY <2>1, <2>2, <1>2
  <2>4. ASSUME SecondLap' PROVE \E k \in j+1..Len(queue') : queue'[k] = task'.first
    <3>1. PICK k \in (j+1)+1..Len(queue) : queue[k] = task.first
      BY <2>2, <2>4
    <3>2. k - 1 \in j+1..Len(queue') /\ k - 1 \in 1..Len(queue) - 1 /\ (k - 1) + 1 = k
      BY <3>1, <2>1, <1>1
    <3>3. queue'[k - 1] = queue[(k - 1) + 1]
      BY <3>2, <1>1
    <3> QED BY <3>1, <3>2, <3>3
  <2> QED BY <2>3, <2>4
<1>4. Marked'
  BY <1>1, <1>2 DEF Marked
<1> QED BY <1>3, <1>4

(* CLEAR throws an event away: of its own client, or of one that has the    *)
(* address of its client, which then is deleted.                            *)
LEMMA DropStep == ASSUME IInv, DropFirst \/ DropRest PROVE IInv'
<1>0. PICK h : h = Head(queue)
  OBVIOUS
<1>1. /\ TypeOK /\ Numbers /\ Living /\ Once /\ Welcome /\ Working
      /\ Overtaking /\ Clears /\ Gone /\ LostInv /\ DeletedIsUnreachable
  BY DEF IInv
<1>2. /\ task.pc \in {"first", "rest_take"} /\ queue # <<>> /\ queue' = Tail(queue) /\ h.arg = Event.arg
      /\ lost' = IF client[h.arg] = h.conn THEN lost \cup {h.conn} ELSE lost
      /\ UNCHANGED <<stalled, link, raised, client, addr, wired, deleted, taken, overtaken, stale>>
      /\ \/ task.pc = "first" /\ UNCHANGED task
         \/ task.pc = "rest_take" /\ Goto("rest")
  <2>1. CASE DropFirst
    BY <2>1, <1>0 DEF DropFirst, Drop, Matches, lwip, objects
  <2>2. CASE DropRest
    BY <2>2, <1>0, <1>1 DEF DropRest, Drop, Matches, lwip, objects, Gone, Marked
  <2> QED BY <2>1, <2>2
<1>3. Rotating
  BY <1>2 DEF Rotating
<1>4. /\ queue' \in Seq(Events) /\ Len(queue) \in Nat \ {0} /\ Len(queue') = Len(queue) - 1
      /\ DOMAIN queue' = 1..Len(queue) - 1 /\ h \in InQueue
      /\ InQueue = InQueue' \cup {h} /\ h \notin InQueue'
      /\ \A i, j \in DOMAIN queue' : queue'[i] = queue'[j] => i = j
  BY <1>0, <1>2, Removed
<1>5. /\ Event.conn \in Conns /\ Event.conn \in deleted \cup overtaken /\ Current = {Event}
      /\ Event.arg = addr[Event.conn] /\ Event.arg \in Addrs /\ InHand = {}
      /\ \A e \in Unhandled : e.kind # "CLEAR"
  BY <1>2, <1>3, InRotation
<1>6. /\ h \in Unhandled /\ h \in Events /\ Genuine(h) /\ h.conn \in Conns /\ h.n # 1
      /\ h.arg = addr[h.conn] /\ Opened(h.conn)
  <2>1. h \in Unhandled /\ h \in Events /\ Genuine(h) /\ h.conn \in Conns
    BY <1>3, <1>4, InRotation DEF Unhandled, Events
  <2> QED BY <2>1, <1>2, <1>5, AsyncTcpAssumption DEF Genuine
<1>7. /\ task' \in [pc : Points, event : Events \cup {None}, packet : Events \cup {None},
                    first : Events \cup {None}]
      /\ UNCHANGED <<task.event, task.packet, task.first>>
      /\ task'.pc = (IF task.pc = "first" THEN "first" ELSE "rest")
      /\ Current' = Current /\ InHand' = {} /\ AtDoor' = AtDoor
  <2>1. CASE UNCHANGED task /\ task.pc = "first"
    BY <2>1, <1>1, <1>2, <1>5 DEF TypeOK, Current, InHand, AtDoor
  <2>2. CASE task.pc = "rest_take" /\ Goto("rest")
    BY <2>2, <1>1, <1>2, <1>5, Going DEF Points, AtDoor
  <2> QED BY <2>1, <2>2, <1>2
<1>8. Unhandled' = Unhandled \ {h}
  <2>1. h \notin AtDoor
    BY <1>1, <1>4 DEF Once, WaitsOnce
  <2> QED BY <2>1, <1>4, <1>5, <1>7 DEF Unhandled
<1>9. \A c \in Conns : c # h.conn => Waiting(c)' = Waiting(c)
  BY <1>8 DEF Waiting
<1>10. h.conn \in lost' \cup deleted
  BY <1>1, <1>2, <1>6 DEF Living
<1>11. lost \subseteq lost' /\ lost' \subseteq lost \cup {h.conn}
  BY <1>2
<1>12. TypeOK'
  BY <1>1, <1>2, <1>4, <1>6, <1>7, <1>11, AsyncTcpAssumption DEF TypeOK
<1>13. Numbers' /\ Living' /\ DeletedIsUnreachable' /\ Overtaking'
  <2>1. Numbers'
    BY <1>1, <1>2, <1>7, <1>8 DEF Numbers, Genuine, Opened
  <2>2. Living'
    BY <1>1, <1>2, <1>6, <1>11 DEF Living, Opened
  <2>3. DeletedIsUnreachable' /\ Overtaking'
    BY <1>1, <1>2, <1>4, <1>7 DEF Overtaking, DeletedIsUnreachable
  <2> QED BY <2>1, <2>2, <2>3
<1>14. Once'
  <2>1. WaitsOnce'
    BY <1>1, <1>4, <1>5, <1>7 DEF Once, WaitsOnce
  <2>2. \A c \in Conns : c \notin lost' \cup deleted' => taken'[c] \cup Waiting(c)' = 1..raised'[c]
    BY <1>1, <1>2, <1>9, <1>10, <1>11 DEF Once
  <2> QED BY <2>1, <2>2, <1>1, <1>2, <1>7, <1>8 DEF Once
<1>15. Welcome'
  <2>1. \A c \in Conns : 1 \in Waiting(c) => 1 \in Waiting(c)'
    BY <1>6, <1>8 DEF Waiting
  <2> QED BY <2>1, <1>1, <1>2, <1>7 DEF Welcome, Opened
<1>16. Working'
  BY <1>1, <1>2, <1>3, <1>7 DEF Working, Rotating, SecondLap, Event
<1>17. Clears'
  <2>1. \A e \in InQueue' \cup InHand' \cup AtDoor' : e.kind # "CLEAR"
    BY <1>4, <1>5, <1>7 DEF Unhandled
  <2>2. \A i \in DOMAIN queue' : queue'[i] \in InQueue'
    BY DEF InQueue
  <2> QED BY <2>1, <2>2, <1>1, <1>2, <1>5, <1>7 DEF Clears
<1>18. Gone'
  <2>1. SecondLap' => SecondLap /\ Head(queue) # task.first
    BY <1>1, <1>2, <1>7 DEF SecondLap, Gone, Marked
  <2>2. Swept' /\ Marked'
    BY <2>1, <1>2, <1>3, <1>7, SweptShrunk
  <2> QED BY <2>2, <1>1, <1>2, <1>5, <1>7 DEF Gone, Handled, StaleOnlyWhenOvertaken
<1>19. LostInv'
  <2>1. ASSUME client[h.arg] = h.conn PROVE h.conn \in overtaken \/ Reused(h.conn)
    <3>1. h.conn \notin deleted
      BY <2>1, <1>1, <1>2, <1>5, <1>6, AsyncTcpAssumption DEF Living
    <3>2. CASE Event.conn \in deleted
      BY <3>1, <3>2, <1>2, <1>5, <1>6 DEF Reused
    <3>3. CASE Event.conn \notin deleted
      <4>1. Opened(Event.conn)
        BY <1>1, <1>5 DEF Numbers, Genuine
      <4>2. client[addr[Event.conn]] = Event.conn
        BY <4>1, <3>3, <1>1, <1>5 DEF Living
      <4> QED BY <4>2, <3>3, <2>1, <1>2, <1>5
    <3> QED BY <3>2, <3>3
  <2> QED BY <2>1, <1>1, <1>2 DEF LostInv, Reused
<1> QED BY <1>12, <1>13, <1>14, <1>15, <1>16, <1>17, <1>18, <1>19 DEF IInv

(* The rotation takes an event of another client into its hands. *)
LEMMA TakeStep == ASSUME IInv, TakeFirst \/ TakeRest PROVE IInv'
<1>0. PICK h : h = Head(queue)
  OBVIOUS
<1>1. /\ TypeOK /\ Numbers /\ Living /\ Once /\ Welcome /\ Working
      /\ Overtaking /\ Clears /\ Gone /\ LostInv /\ DeletedIsUnreachable
  BY DEF IInv
<1>2. /\ task.pc \in {"first", "rest_take"} /\ queue # <<>> /\ queue' = Tail(queue) /\ h.arg # Event.arg
      /\ UNCHANGED <<stalled, link, raised, client, addr, wired, deleted, taken, overtaken, lost, stale>>
      /\ task' = [task EXCEPT !.pc = IF task.pc = "first" THEN "first_back" ELSE "rest_back",
                              !.packet = h]
  <2>1. CASE TakeFirst
    BY <2>1, <1>0 DEF TakeFirst, Matches, lwip, objects, history
  <2>2. CASE TakeRest
    BY <2>2, <1>0, <1>1 DEF TakeRest, Matches, lwip, objects, history, Gone, Marked
  <2> QED BY <2>1, <2>2
<1>3. Rotating
  BY <1>2 DEF Rotating
<1>4. /\ queue' \in Seq(Events) /\ Len(queue) \in Nat \ {0} /\ Len(queue') = Len(queue) - 1
      /\ DOMAIN queue = 1..Len(queue) /\ DOMAIN queue' = 1..Len(queue) - 1
      /\ h = queue[1] /\ h \in InQueue
      /\ InQueue = InQueue' \cup {h} /\ h \notin InQueue'
      /\ \A i, j \in DOMAIN queue' : queue'[i] = queue'[j] => i = j
  BY <1>0, <1>2, Removed
<1>5. /\ Event.conn \in Conns /\ Event.conn \in deleted \cup overtaken /\ Current = {Event}
      /\ Event.arg = addr[Event.conn] /\ InHand = {}
      /\ \A e \in Unhandled : e.kind # "CLEAR"
  BY <1>2, <1>3, InRotation
<1>6. /\ h \in Unhandled /\ h \in Events /\ Genuine(h) /\ h.conn \in Conns /\ h # None
      /\ h.n \notin taken[h.conn]
  BY <1>1, <1>3, <1>4, NoneAssumption, InRotation DEF Unhandled, Events, Once
<1>7. /\ task' \in [pc : Points, event : Events \cup {None}, packet : Events \cup {None},
                    first : Events \cup {None}]
      /\ UNCHANGED <<task.event, task.first>> /\ task'.packet = h
      /\ task'.pc = (IF task.pc = "first" THEN "first_back" ELSE "rest_back")
      /\ Current' = Current /\ InHand' = {h} /\ AtDoor' = AtDoor
  <2>1. /\ task' \in [pc : Points, event : Events \cup {None}, packet : Events \cup {None},
                      first : Events \cup {None}]
        /\ UNCHANGED <<task.event, task.first>> /\ task'.packet = h
        /\ task'.pc = (IF task.pc = "first" THEN "first_back" ELSE "rest_back")
    BY <1>1, <1>2, <1>6 DEF TypeOK, Points
  <2>2. Current' = Current /\ InHand' = {h} /\ AtDoor' = AtDoor
    BY <2>1, <1>2, <1>6 DEF Current, InHand, AtDoor
  <2> QED BY <2>1, <2>2
<1>8. Unhandled' = Unhandled /\ \A c \in Conns : Waiting(c)' = Waiting(c)
  <2>1. Unhandled' = Unhandled
    BY <1>4, <1>5, <1>7 DEF Unhandled
  <2> QED BY <2>1 DEF Waiting
<1>9. TypeOK'
  BY <1>1, <1>2, <1>4, <1>7, AsyncTcpAssumption DEF TypeOK
<1>10. Numbers' /\ Living' /\ DeletedIsUnreachable' /\ Overtaking' /\ LostInv'
  <2>1. Numbers'
    BY <1>1, <1>2, <1>7, <1>8 DEF Numbers, Genuine, Opened
  <2>2. Living' /\ LostInv'
    BY <1>1, <1>2 DEF Living, Opened, LostInv, Reused
  <2>3. DeletedIsUnreachable' /\ Overtaking'
    BY <1>1, <1>2, <1>4, <1>7 DEF Overtaking, DeletedIsUnreachable
  <2> QED BY <2>1, <2>2, <2>3
<1>11. Once'
  <2>1. h \notin AtDoor
    BY <1>1, <1>4 DEF Once, WaitsOnce
  <2>2. WaitsOnce'
    BY <2>1, <1>1, <1>4, <1>7 DEF Once, WaitsOnce
  <2> QED BY <2>2, <1>1, <1>2, <1>7, <1>8 DEF Once
<1>12. Welcome'
  BY <1>1, <1>2, <1>7, <1>8 DEF Welcome, Opened
<1>13. Working'
  BY <1>1, <1>2, <1>3, <1>6, <1>7 DEF Working, Rotating, SecondLap, Event
<1>14. Clears'
  <2>1. \A e \in InQueue' \cup InHand' \cup AtDoor' : e.kind # "CLEAR"
    BY <1>4, <1>5, <1>6, <1>7 DEF Unhandled
  <2>2. \A i \in DOMAIN queue' : queue'[i] \in InQueue'
    BY DEF InQueue
  <2> QED BY <2>1, <2>2, <1>1, <1>2, <1>5, <1>7 DEF Clears
<1>15. Handled'
  <2>1. ASSUME h.n # 0, h.conn \in deleted, h.conn \notin overtaken PROVE FALSE
    <3>1. \E e \in InQueue \cup Current : e.kind = "CLEAR" /\ e.conn = h.conn
      BY <2>1, <1>1, <1>4 DEF Gone, Swept
    <3>2. Event.conn = h.conn
      BY <3>1, <1>5 DEF Unhandled
    <3>3. h.n = 1
      BY <3>2, <1>2, <1>5, <1>6 DEF Genuine
    <3>4. 1 \in taken[h.conn]
      BY <2>1, <1>1 DEF TypeOK, Welcome
    <3> QED BY <3>3, <3>4, <1>6
  <2> QED BY <2>1, <1>1, <1>2, <1>7 DEF Handled, Gone
<1>16. Gone'
  <2>1. SecondLap' => SecondLap /\ Head(queue) # task.first
    BY <1>1, <1>2, <1>7 DEF SecondLap, Gone, Marked
  <2>2. Swept' /\ Marked'
    BY <2>1, <1>2, <1>3, <1>7, SweptShrunk
  <2> QED BY <2>2, <1>1, <1>2, <1>15 DEF Gone, StaleOnlyWhenOvertaken
<1> QED BY <1>9, <1>10, <1>11, <1>12, <1>13, <1>14, <1>16 DEF IInv

(* It puts it back at the end. *)
LEMMA BackStep == ASSUME IInv, FirstBack \/ RestBack PROVE IInv'
<1>0. PICK e : e = task.packet
  OBVIOUS
<1>1. /\ TypeOK /\ Numbers /\ Living /\ Once /\ Welcome /\ Working
      /\ Overtaking /\ Clears /\ Gone /\ LostInv /\ DeletedIsUnreachable
  BY DEF IInv
<1>2. /\ task.pc \in {"first_back", "rest_back"} /\ Len(queue) < QueueSize /\ queue' = Append(queue, e)
      /\ UNCHANGED <<stalled, link, raised, client, addr, wired, deleted, taken, overtaken, lost, stale>>
  BY <1>0, <1>1, AsyncTcpAssumption DEF FirstBack, RestBack, Put, Full, lwip, objects, history, TypeOK
<1>3. Rotating
  BY <1>2 DEF Rotating
<1>4. /\ Current = {Event} /\ Event.n = 0 /\ e \in Events /\ InHand = {e} /\ e # None /\ e \in Unhandled
      /\ \A d \in Unhandled : d.kind # "CLEAR"
  BY <1>0, <1>2, <1>3, InRotation, NoneAssumption DEF Unhandled
<1>5. /\ Len(queue) \in Nat /\ queue' \in Seq(Events) /\ Len(queue') = Len(queue) + 1
      /\ DOMAIN queue = 1..Len(queue) /\ DOMAIN queue' = 1..Len(queue) + 1
      /\ \A i \in 1..Len(queue) : queue'[i] = queue[i]
      /\ queue'[Len(queue) + 1] = e
      /\ InQueue' = InQueue \cup {e}
  <2>1. Len(queue) \in Nat
    BY <1>1 DEF TypeOK
  <2> QED BY <2>1, <1>1, <1>2, <1>4, AtBack
<1>6. e \notin InQueue /\ e \notin AtDoor
  BY <1>1, <1>4 DEF Once, WaitsOnce
<1>7. /\ task' \in [pc : Points, event : Events \cup {None}, packet : Events \cup {None},
                    first : Events \cup {None}]
      /\ UNCHANGED <<task.event>> /\ task'.packet = None /\ task'.pc = "rest"
      /\ task'.first = IF task.pc = "first_back" THEN e ELSE task.first
      /\ Current' = Current /\ InHand' = {} /\ AtDoor' = AtDoor
  <2>1. ASSUME FirstBack
        PROVE  /\ task' \in [pc : Points, event : Events \cup {None}, packet : Events \cup {None},
                             first : Events \cup {None}]
               /\ UNCHANGED <<task.event>> /\ task'.packet = None /\ task'.pc = "rest"
               /\ task.pc = "first_back" /\ task'.first = e
    BY <2>1, <1>0, <1>1, <1>4 DEF FirstBack, TypeOK, Points
  <2>2. ASSUME RestBack
        PROVE  /\ task' \in [pc : Points, event : Events \cup {None}, packet : Events \cup {None},
                             first : Events \cup {None}]
               /\ UNCHANGED <<task.event>> /\ task'.packet = None /\ task'.pc = "rest"
               /\ task.pc = "rest_back" /\ task'.first = task.first
    BY <2>2, <1>0, <1>1, <1>4 DEF RestBack, TypeOK, Points
  <2>3. task'.event = task.event /\ task'.packet = None
    BY <2>1, <2>2
  <2>4. Current' = Current /\ InHand' = {} /\ AtDoor' = AtDoor
    BY <2>3, <1>2 DEF Current, InHand, AtDoor
  <2> QED BY <2>1, <2>2, <2>4
<1>8. Unhandled' = Unhandled /\ \A c \in Conns : Waiting(c)' = Waiting(c)
  <2>1. Unhandled' = Unhandled
    BY <1>4, <1>5, <1>7 DEF Unhandled
  <2> QED BY <2>1 DEF Waiting
<1>9. TypeOK'
  BY <1>1, <1>2, <1>5, <1>7, AsyncTcpAssumption DEF TypeOK
<1>10. Numbers' /\ Living' /\ DeletedIsUnreachable' /\ Overtaking' /\ LostInv'
  <2>1. Numbers'
    BY <1>1, <1>2, <1>7, <1>8 DEF Numbers, Genuine, Opened
  <2>2. Living' /\ LostInv' /\ DeletedIsUnreachable'
    BY <1>1, <1>2 DEF Living, Opened, LostInv, Reused, DeletedIsUnreachable
  <2>3. ~Earlier(e, Event)
    BY <1>4 DEF Earlier, Events
  <2>4. Overtaking'
    BY <2>3, <1>1, <1>2, <1>4, <1>5, <1>7 DEF Overtaking
  <2> QED BY <2>1, <2>2, <2>4
<1>11. Once'
  <2>1. \A i, j \in DOMAIN queue' : queue'[i] = queue'[j] => i = j
    BY <1>1, <1>5, <1>6 DEF Once, WaitsOnce, InQueue
  <2>2. WaitsOnce'
    BY <2>1, <1>1, <1>4, <1>5, <1>6, <1>7 DEF Once, WaitsOnce
  <2> QED BY <2>2, <1>1, <1>2, <1>7, <1>8 DEF Once
<1>12. Welcome'
  BY <1>1, <1>2, <1>7, <1>8 DEF Welcome, Opened
<1>13. Working'
  BY <1>1, <1>2, <1>3, <1>4, <1>7 DEF Working, Rotating, SecondLap, Event
<1>14. Clears'
  <2>1. \A d \in InQueue' \cup InHand' \cup AtDoor' : d.kind # "CLEAR"
    BY <1>4, <1>5, <1>7 DEF Unhandled
  <2>2. \A i \in DOMAIN queue' : queue'[i] \in InQueue'
    BY DEF InQueue
  <2> QED BY <2>1, <2>2, <1>1, <1>2, <1>7 DEF Clears
<1>15. e.n # 0 /\ e.conn \in deleted => e.conn \in overtaken
  BY <1>1, <1>4 DEF Gone, Handled
<1>16. Swept'
  <2> SUFFICES ASSUME NEW j \in 1..Len(queue) + 1, queue'[j].n # 0, queue'[j].conn \in deleted \ overtaken
               PROVE  /\ \E d \in InQueue' \cup Current : d.kind = "CLEAR" /\ d.conn = queue'[j].conn
                      /\ \E k \in j+1..Len(queue') : queue'[k] = task'.first
    BY <1>2, <1>5, <1>7 DEF Swept
  <2>1. j \in 1..Len(queue) /\ queue'[j] = queue[j]
    BY <1>5, <1>15
  <2>2. \E d \in InQueue \cup Current : d.kind = "CLEAR" /\ d.conn = queue'[j].conn
    BY <2>1, <1>1, <1>5 DEF Gone, Swept
  <2>3. CASE task.pc = "first_back"
    <3>1. Len(queue) + 1 \in j+1..Len(queue') /\ queue'[Len(queue) + 1] = task'.first
      BY <2>1, <2>3, <1>5, <1>7
    <3> QED BY <3>1, <2>2, <1>5
  <2>4. CASE task.pc = "rest_back"
    <3>1. PICK k \in j+1..Len(queue) : queue[k] = task.first
      BY <2>1, <2>4, <1>1, <1>5 DEF Gone, Swept, SecondLap
    <3>2. k \in j+1..Len(queue') /\ queue'[k] = task'.first
      BY <3>1, <2>1, <2>4, <1>5, <1>7
    <3> QED BY <3>2, <2>2, <1>5
  <2> QED BY <2>3, <2>4, <1>2
<1>17. Gone'
  BY <1>1, <1>2, <1>5, <1>7, <1>16 DEF Gone, Handled, Marked, SecondLap, StaleOnlyWhenOvertaken
<1> QED BY <1>9, <1>10, <1>11, <1>12, <1>13, <1>14, <1>17 DEF IInv

-----------------------------------------------------------------------------
LEMMA Stutter == ASSUME IInv, UNCHANGED vars PROVE IInv'
<1>1. UNCHANGED <<queue, stalled, link, raised, client, addr, wired, deleted, task,
                  taken, overtaken, lost, stale>>
  BY DEF vars, lwip, objects, history
<1>2. /\ InQueue' = InQueue /\ InHand' = InHand /\ AtDoor' = AtDoor /\ Unhandled' = Unhandled
      /\ Current' = Current
  BY <1>1 DEF InQueue, InHand, AtDoor, Unhandled, Current
<1>3. \A c \in Conns : Waiting(c)' = Waiting(c)
  BY <1>2 DEF Waiting
<1> USE <1>1, <1>2, <1>3 DEF IInv
<1>4. TypeOK' /\ Numbers' /\ Living' /\ Welcome'
  BY DEF TypeOK, Numbers, Genuine, Opened, Living, Welcome
<1>5. Once' /\ Working' /\ Overtaking'
  BY DEF Once, WaitsOnce, Working, Rotating, SecondLap, Event, Target, Overtaking
<1>6. Clears' /\ Gone'
  BY DEF Clears, Event, Gone, Handled, Swept, Marked, SecondLap, StaleOnlyWhenOvertaken
<1>7. LostInv' /\ DeletedIsUnreachable'
  BY DEF LostInv, Reused, DeletedIsUnreachable
<1> QED BY <1>4, <1>5, <1>6, <1>7

LEMMA Step == ASSUME IInv, [Next]_vars PROVE IInv'
<1>1. CASE Lwip
  BY <1>1, RaiseSteps, ResumeStep DEF Lwip
<1>2. CASE Task
  <2>1. CASE RemoveEvents
    BY <2>1, RotationSteps, DropStep, TakeStep, BackStep DEF RemoveEvents
  <2>2. CASE HandleRecv \/ PollQuiet \/ PollSends \/ ServerCloses \/ ApiCall \/ HandleFin \/ HandleClear
    BY <2>2, QuietSteps
  <2>3. CASE PollRxTimeout \/ Close \/ Discard \/ HandleError
    BY <2>3, EndingSteps
  <2>4. CASE Get \/ HandleAccept \/ HandleStale \/ PrependClear \/ TcpClose
    BY <2>4, GetStep, AcceptStep, StaleStep, ClearStep, TcpCloseStep
  <2> QED BY <1>2, <2>1, <2>2, <2>3, <2>4 DEF Task
<1>3. CASE Rest \/ UNCHANGED vars
  BY <1>3, Stutter DEF Rest
<1> QED BY <1>1, <1>2, <1>3 DEF Next

(* The inductive invariant holds of every behaviour of the queue, its       *)
(* callbacks and its task.                                                  *)
THEOREM Invariance == Spec => []IInv
<1>1. Init => IInv
  BY Initially
<1>2. IInv /\ [Next]_vars => IInv'
  BY Step
<1> QED BY <1>1, <1>2, PTL DEF Spec

(* The queue holds QueueSize events at most, and the state of the callbacks *)
(* and of the task is one of those that AsyncTCP.cpp has.                   *)
THEOREM TypeCorrect == Spec => []TypeOK
<1>1. IInv => TypeOK
  BY DEF IInv
<1> QED BY <1>1, Invariance, PTL

(* An AsyncClient is deleted only when lwIP can no longer call it: no open  *)
(* pcb refers to it and no callback for it waits for the queue.             *)
THEOREM DeletedClientIsUnreachable == Spec => []DeletedIsUnreachable
<1>1. IInv => DeletedIsUnreachable
  BY DEF IInv
<1> QED BY <1>1, Invariance, PTL

(* _handle_async_event() calls a handler of a deleted client only when the  *)
(* queue gave an event of the client ahead of an earlier one.               *)
THEOREM StaleEventsWereOvertaken == Spec => []StaleOnlyWhenOvertaken
<1>1. IInv => StaleOnlyWhenOvertaken
  BY DEF IInv, Gone
<1> QED BY <1>1, Invariance, PTL

(* Every event that lwIP raises is handled once at most, and waits until it *)
(* is, unless the client was deleted, or CLEAR throws it away because its   *)
(* client has the address of a deleted one or was overtaken.                *)
THEOREM EventsHandledOnce == Spec => []EachHandledOnce
<1>1. IInv => EachHandledOnce
  <2> SUFFICES ASSUME IInv PROVE EachHandledOnce
    OBVIOUS
  <2>1. ASSUME NEW c \in Conns PROVE taken[c] \cap Waiting(c) = {}
    BY DEF IInv, Once, Waiting
  <2> QED BY <2>1 DEF IInv, Once, LostInv, EachHandledOnce
<1> QED BY <1>1, Invariance, PTL

-----------------------------------------------------------------------------
(* A single connection: whatever the queue does, its events are delivered   *)
(* as EventDelivery says.                                                   *)

Sorted == \A i, j \in DOMAIN queue : i < j => queue[i].n < queue[j].n

(* Nothing is ahead of its time, and CLEAR finds nothing to put back. *)
AloneInv ==
  /\ IInv
  /\ Sorted
  /\ overtaken = {}
  /\ task.pc \notin {"first_back", "rest", "rest_take", "rest_back"}

LEMMA AloneFacts ==
  ASSUME NEW c, Conns = {c}, AloneInv
  PROVE  /\ InHand = {} /\ Unhandled = InQueue \cup AtDoor
         /\ Waiting(c) = {e.n : e \in {f \in Unhandled : f.n # 0}}
         /\ \A e \in Unhandled \cup Current :
              e \in Events /\ e.conn = c /\ e.n \in Nat /\ e.n <= raised[c] /\ Genuine(e) /\ Opened(c)
         /\ raised[c] \in Nat /\ raised \in [Conns -> Nat] /\ taken \in [Conns -> SUBSET Nat]
         /\ \A e \in AtDoor : e.n = raised[c] /\ e.kind # "CLEAR"
         /\ c \in deleted => 1 \in taken[c] /\ link[c] = "closed"
<1>1. InHand = {}
  BY DEF AloneInv, IInv, Working, InHand
<1>2. /\ \A e \in Unhandled \cup Current :
           e \in Events /\ e.conn = c /\ e.n \in Nat /\ e.n <= raised[c] /\ Genuine(e) /\ Opened(c)
      /\ \A e \in AtDoor : e.n = raised[c] /\ e.kind # "CLEAR"
  BY AllEvents DEF AloneInv, IInv, Numbers, Genuine, AtDoor, Clears, Unhandled
<1>3. Waiting(c) = {e.n : e \in {f \in Unhandled : f.n # 0}}
  BY <1>2 DEF Waiting
<1>4. /\ raised[c] \in Nat /\ raised \in [Conns -> Nat] /\ taken \in [Conns -> SUBSET Nat]
      /\ c \in deleted => 1 \in taken[c] /\ link[c] = "closed"
  BY DEF AloneInv, IInv, TypeOK, Welcome, DeletedIsUnreachable
<1> QED BY <1>1, <1>2, <1>3, <1>4 DEF Unhandled

LEMMA AloneInit == ASSUME Init PROVE AloneInv /\ Delivery!Init
<1>1. AloneInv
  BY Initially DEF Init, AloneInv, Sorted
<1>2. \A c \in Conns : Waiting(c) = {}
  BY NoneAssumption DEF Init, Waiting, Unhandled, InQueue, InHand, AtDoor
<1> QED BY <1>1, <1>2 DEF Init, Delivery!Init

(* Steps that leave the events alone, and at most delete the client *)
LEMMA AloneStill ==
  ASSUME NEW c, Conns = {c}, AloneInv, IInv',
         UNCHANGED <<queue, stalled, raised, taken, overtaken>>,
         task'.pc \notin {"first_back", "rest", "rest_take", "rest_back"},
         deleted' = deleted \/ deleted' = deleted \cup {c}
  PROVE  AloneInv' /\ [Delivery!Next]_(Delivery!vars)
<1>1. AloneInv'
  BY DEF AloneInv, Sorted
<1>2. Unhandled' = Unhandled
  <2>1. InHand' = {} /\ InHand = {}
    BY <1>1 DEF AloneInv, IInv, Working, InHand
  <2> QED BY <2>1 DEF Unhandled, InQueue, AtDoor
<1>3. Waiting(c)' = Waiting(c)
  BY <1>2 DEF Waiting
<1> QED BY <1>1, <1>3 DEF Delivery!Next, Delivery!Delete, Delivery!vars

(* The event at the front of the queue is the one that has waited longest. *)
LEMMA Foremost ==
  ASSUME NEW c, Conns = {c}, AloneInv, queue # <<>>, queue' = Tail(queue),
         NEW h, h = Head(queue), UNCHANGED stalled
  PROVE  /\ h \in Unhandled /\ h \in Events /\ h.conn = c /\ h.n \in Nat
         /\ Sorted' /\ \A i \in 2..Len(queue) : ~Earlier(queue[i], h)
         /\ InQueue' \cup AtDoor' = Unhandled \ {h}
         /\ h.n # 0 => h.n \in Waiting(c) /\ \A m \in Waiting(c) : h.n <= m
         /\ {e.n : e \in {f \in Unhandled \ {h} : f.n # 0}} = Waiting(c) \ {h.n}
<1>1. /\ Len(queue) \in Nat \ {0} /\ DOMAIN queue = 1..Len(queue) /\ DOMAIN queue' = 1..Len(queue) - 1
      /\ h = queue[1] /\ h \in InQueue
      /\ \A i \in 1..Len(queue) - 1 : i + 1 \in 2..Len(queue) /\ queue'[i] = queue[i + 1]
      /\ InQueue = InQueue' \cup {h} /\ h \notin InQueue'
  BY Removed DEF AloneInv
<1>2. \A i \in 2..Len(queue) : h.n < queue[i].n
  BY <1>1 DEF AloneInv, Sorted
<1>3. /\ h \in Unhandled /\ h \in Events /\ h.conn = c /\ h.n \in Nat /\ h.n <= raised[c]
      /\ Waiting(c) = {e.n : e \in {f \in Unhandled : f.n # 0}}
      /\ Unhandled = InQueue \cup AtDoor
      /\ \A e \in Unhandled : e.n \in Nat
      /\ \A e \in AtDoor : e.n = raised[c]
  BY <1>1, AloneFacts DEF Unhandled
<1>4. \A i \in 2..Len(queue) : ~Earlier(queue[i], h)
  <2> SUFFICES ASSUME NEW i \in 2..Len(queue) PROVE ~Earlier(queue[i], h)
    OBVIOUS
  <2>1. queue[i] \in Unhandled
    BY <1>1 DEF Unhandled, InQueue
  <2> QED BY <2>1, <1>2, <1>3 DEF Earlier
<1>5. Sorted'
  <2> SUFFICES ASSUME NEW i \in 1..Len(queue) - 1, NEW j \in 1..Len(queue) - 1, i < j
               PROVE  queue'[i].n < queue'[j].n
    BY <1>1 DEF Sorted
  <2>1. queue'[i] = queue[i + 1] /\ queue'[j] = queue[j + 1] /\ i + 1 \in DOMAIN queue /\ j + 1 \in DOMAIN queue
    BY <1>1
  <2> QED BY <2>1 DEF AloneInv, Sorted
<1>6. InQueue' \cup AtDoor' = Unhandled \ {h}
  BY <1>1, <1>3 DEF AtDoor, AloneInv, IInv, Once, WaitsOnce
<1>7. \A e \in Unhandled : e.n = h.n => e = h
  BY <1>3, AloneFacts DEF AloneInv, IInv, Once
<1>8. \A e \in Unhandled : h.n <= e.n
  <2> SUFFICES ASSUME NEW e \in Unhandled PROVE h.n <= e.n
    OBVIOUS
  <2>1. CASE e \in AtDoor
    BY <2>1, <1>3
  <2>2. CASE e \in InQueue
    <3>1. PICK i \in 1..Len(queue) : e = queue[i]
      BY <2>2, <1>1 DEF InQueue
    <3>2. CASE i = 1
      BY <3>1, <3>2, <1>1, <1>3
    <3>3. CASE i # 1
      <4>1. h.n < queue[i].n
        BY <3>3, <1>1, <1>2
      <4>2. h.n \in Nat /\ queue[i].n \in Nat
        BY <3>1, <1>3
      <4> QED BY <4>1, <4>2, <3>1
    <3> QED BY <3>2, <3>3
  <2> QED BY <2>1, <2>2, <1>3
<1>9. {e.n : e \in {f \in Unhandled \ {h} : f.n # 0}} = Waiting(c) \ {h.n}
  BY <1>3, <1>7
<1>10. h.n # 0 => h.n \in Waiting(c) /\ \A m \in Waiting(c) : h.n <= m
  BY <1>3, <1>8
<1> QED BY <1>3, <1>4, <1>5, <1>6, <1>9, <1>10

LEMMA AloneGet ==
  ASSUME NEW c, Conns = {c}, AloneInv, IInv', Get
  PROVE  AloneInv' /\ [Delivery!Next]_(Delivery!vars)
<1>0. PICK h : h = Head(queue)
  OBVIOUS
<1>1. /\ task.pc = "get" /\ queue # <<>> /\ queue' = Tail(queue)
      /\ task' = [task EXCEPT !.pc = "handle", !.event = h]
      /\ overtaken' = IF \E i \in 2..Len(queue) : Earlier(queue[i], h)
                        THEN overtaken \cup {h.conn} ELSE overtaken
      /\ taken' = [taken EXCEPT ![h.conn] = @ \cup ({h.n} \ {0})]
      /\ UNCHANGED <<stalled, raised, deleted>>
  BY <1>0 DEF Get, lwip, objects
<1>2. /\ h \in Unhandled /\ h \in Events /\ h.conn = c /\ h.n \in Nat
      /\ Sorted' /\ \A i \in 2..Len(queue) : ~Earlier(queue[i], h)
      /\ InQueue' \cup AtDoor' = Unhandled \ {h}
      /\ h.n # 0 => h.n \in Waiting(c) /\ \A m \in Waiting(c) : h.n <= m
      /\ {e.n : e \in {f \in Unhandled \ {h} : f.n # 0}} = Waiting(c) \ {h.n}
  BY <1>0, <1>1, Foremost
<1>3. task'.pc = "handle" /\ task'.event = h
  BY <1>1 DEF AloneInv, IInv, TypeOK
<1>4. AloneInv' /\ overtaken' = {}
  BY <1>1, <1>2, <1>3 DEF AloneInv
<1>5. Waiting(c)' = Waiting(c) \ {h.n}
  <2>1. /\ Waiting(c)' = {e.n : e \in {f \in Unhandled' : f.n # 0}}
        /\ Unhandled' = InQueue' \cup AtDoor'
    <3>1. InHand' = {}
      BY <1>4 DEF AloneInv, IInv, Working, InHand
    <3>2. Unhandled' = Unhandled \ {h}
      BY <3>1, <1>2 DEF Unhandled
    <3> QED BY <3>1, <3>2, <1>2, AloneFacts DEF Waiting, Unhandled
  <2> QED BY <2>1, <1>2
<1> DEFINE W == [d \in Conns |-> Waiting(d)]
<1>6. W' = [W EXCEPT ![c] = @ \ {h.n}]
  BY <1>5
<1>7. CASE h.n = 0
  <2>1. Waiting(c)' = Waiting(c)
    BY <1>5, <1>7, AloneFacts
  <2>2. taken' = taken
    BY <1>1, <1>2, <1>7, AloneFacts
  <2> QED BY <2>1, <2>2, <1>1, <1>4 DEF Delivery!vars
<1>8. CASE h.n # 0
  <2>1. c \notin deleted
    <3>1. h \in Current'
      BY <1>2, <1>3, NoneAssumption DEF Current
    <3> QED BY <3>1, <1>1, <1>2, <1>4, <1>8 DEF IInv, Gone, Handled
  <2>2. taken' = [taken EXCEPT ![c] = @ \cup {h.n}]
    BY <1>1, <1>2, <1>8
  <2>3. h.n \in W[c] /\ \A m \in W[c] : h.n <= m
    BY <1>2, <1>8
  <2> HIDE DEF W
  <2>4. \E n \in W[c] : /\ n \in W[c] /\ \A m \in W[c] : n <= m
                        /\ taken' = [taken EXCEPT ![c] = @ \cup {n}]
                        /\ W' = [W EXCEPT ![c] = @ \ {n}]
    BY <1>6, <2>2, <2>3
  <2> USE DEF W
  <2>5. Delivery!Deliver(c)
    BY <2>1, <2>4, <1>1 DEF Delivery!Deliver, Delivery!First
  <2> QED BY <2>5, <1>4 DEF Delivery!Next
<1> QED BY <1>7, <1>8

LEMMA AloneDrop ==
  ASSUME NEW c, Conns = {c}, AloneInv, IInv', DropFirst
  PROVE  AloneInv' /\ [Delivery!Next]_(Delivery!vars)
<1>0. PICK h : h = Head(queue)
  OBVIOUS
<1>1. /\ task.pc = "first" /\ queue # <<>> /\ queue' = Tail(queue)
      /\ UNCHANGED <<stalled, raised, deleted, task, taken, overtaken>>
  BY DEF DropFirst, lwip, objects
<1>2. /\ h \in Unhandled /\ h \in Events /\ h.conn = c /\ h.n \in Nat
      /\ Sorted'
      /\ InQueue' \cup AtDoor' = Unhandled \ {h}
      /\ h.n # 0 => h.n \in Waiting(c) /\ \A m \in Waiting(c) : h.n <= m
      /\ {e.n : e \in {f \in Unhandled \ {h} : f.n # 0}} = Waiting(c) \ {h.n}
  BY <1>0, <1>1, Foremost
<1>3. h.n # 0 /\ c \in deleted
  BY <1>1, <1>2, InRotation DEF AloneInv, Rotating
<1>4. AloneInv'
  BY <1>1, <1>2 DEF AloneInv
<1>5. Waiting(c)' = Waiting(c) \ {h.n}
  <2>1. InHand' = {}
    BY <1>4 DEF AloneInv, IInv, Working, InHand
  <2>2. Unhandled' = Unhandled \ {h}
    BY <2>1, <1>2 DEF Unhandled
  <2>3. Waiting(c)' = {e.n : e \in {f \in Unhandled' : f.n # 0}}
    BY <2>2, AloneFacts DEF Waiting
  <2> QED BY <2>2, <2>3, <1>2
<1> DEFINE W == [d \in Conns |-> Waiting(d)]
<1>6. W' = [W EXCEPT ![c] = @ \ {h.n}] /\ h.n \in W[c] /\ \A m \in W[c] : h.n <= m
  BY <1>2, <1>3, <1>5
<1>7. \E n \in W[c] : /\ n \in W[c] /\ \A m \in W[c] : n <= m
                      /\ W' = [W EXCEPT ![c] = @ \ {n}]
  <2> HIDE DEF W
  <2> QED BY <1>6
<1>8. Delivery!Discard(c)
  BY <1>1, <1>3, <1>7 DEF Delivery!Discard, Delivery!First
<1> QED BY <1>4, <1>8 DEF Delivery!Next

LEMMA AloneCallback ==
  ASSUME NEW c, Conns = {c}, AloneInv, IInv',
         NEW kind \in Kinds, NEW arg \in Addrs \cup {Server}, NEW front \in BOOLEAN,
         Callback(c, kind, arg, front), link[c] \in {"none", "open"}, front <=> link[c] = "none"
  PROVE  AloneInv' /\ [Delivery!Next]_(Delivery!vars)
<1>0. PICK e : e = [kind |-> kind, arg |-> arg, conn |-> c, n |-> raised[c] + 1]
  OBVIOUS
<1>1. /\ stalled = <<>> /\ raised' = [raised EXCEPT ![c] = @ + 1]
      /\ UNCHANGED <<deleted, task, taken, overtaken>>
      /\ \/ stalled' = <<[event |-> e, front |-> front]>> /\ UNCHANGED queue
         \/ UNCHANGED stalled /\ queue' = IF front THEN <<e>> \o queue ELSE Append(queue, e)
  BY <1>0 DEF Callback, Send, Put, history
<1>2. /\ e.n = raised[c] + 1 /\ e.conn = c /\ raised[c] \in Nat /\ e \in Events
      /\ \A d \in Unhandled : d.n \in Nat /\ d.n <= raised[c]
      /\ c \notin deleted /\ TypeOK
  BY <1>0, AloneFacts DEF Events, AloneInv, IInv
<1>3. front => queue = <<>>
  <2> SUFFICES ASSUME front, queue # <<>> PROVE FALSE
    OBVIOUS
  <2>1. Head(queue) \in InQueue
    BY <1>2, EmptySeq DEF TypeOK, InQueue
  <2> QED BY <2>1, AloneFacts DEF Unhandled, Opened
<1>4. /\ Unhandled' = Unhandled \cup {e}
      /\ queue' = queue \/ queue' = Append(queue, e)
  <2>1. AtDoor = {} /\ InHand' = InHand
    BY <1>1 DEF AtDoor, InHand
  <2>2. CASE stalled' = <<[event |-> e, front |-> front]>> /\ UNCHANGED queue
    <3>1. AtDoor' = {e} /\ InQueue' = InQueue
      BY <2>2 DEF AtDoor, InQueue
    <3> QED BY <2>1, <2>2, <3>1 DEF Unhandled
  <2>3. CASE UNCHANGED stalled /\ queue' = IF front THEN <<e>> \o queue ELSE Append(queue, e)
    <3>1. queue' = Append(queue, e)
      <4>1. CASE front
        <5>1. <<e>> \o <<>> = Append(<<>>, e)
          OBVIOUS
        <5> QED BY <5>1, <4>1, <2>3, <1>3
      <4> QED BY <4>1, <2>3
    <3>2. InQueue' = InQueue \cup {e}
      BY <3>1, <1>2, AtBack
    <3>3. AtDoor' = {}
      BY <2>3, <1>1 DEF AtDoor
    <3> QED BY <2>1, <3>1, <3>2, <3>3 DEF Unhandled
  <2> QED BY <1>1, <2>2, <2>3
<1>5. Sorted'
  <2>1. CASE queue' = queue
    BY <2>1 DEF AloneInv, Sorted
  <2>2. CASE queue' = Append(queue, e)
    <3>1. /\ DOMAIN queue = 1..Len(queue) /\ DOMAIN queue' = 1..Len(queue) + 1 /\ Len(queue) \in Nat
          /\ \A i \in 1..Len(queue) : queue'[i] = queue[i]
          /\ queue'[Len(queue) + 1] = e
      BY <2>2, <1>2, AtBack DEF TypeOK
    <3>2. \A i \in 1..Len(queue) : queue[i].n \in Nat /\ queue[i].n <= raised[c]
      BY <3>1, <1>2 DEF Unhandled, InQueue
    <3> QED BY <3>1, <3>2, <1>2 DEF AloneInv, Sorted
  <2> QED BY <2>1, <2>2, <1>4
<1>6. AloneInv'
  BY <1>1, <1>5 DEF AloneInv
<1>7. Waiting(c)' = Waiting(c) \cup {raised[c] + 1}
  BY <1>2, <1>4 DEF Waiting
<1>8. Delivery!Raise(c)
  BY <1>1, <1>2, <1>7 DEF Delivery!Raise
<1> QED BY <1>6, <1>8 DEF Delivery!Next

(* ACCEPT, and anything else that waits for room, finds nothing in the      *)
(* queue that was raised later.                                             *)
LEMMA AloneResume ==
  ASSUME NEW c, Conns = {c}, AloneInv, IInv', Resume
  PROVE  AloneInv' /\ [Delivery!Next]_(Delivery!vars)
<1>0. PICK e : e = stalled[1].event
  OBVIOUS
<1>1. /\ stalled # <<>> /\ stalled' = <<>>
      /\ UNCHANGED <<raised, deleted, task, taken, overtaken>>
      /\ queue' = IF stalled[1].front THEN <<e>> \o queue ELSE Append(queue, e)
  BY <1>0 DEF Resume, objects, history, Put
<1>2. /\ e \in Events /\ AtDoor = {e} /\ e \in Unhandled /\ e.n = raised[c] /\ e.conn = c
      /\ stalled[1].front => e.n = 1
      /\ e.n \notin taken[c] /\ c \notin deleted /\ TypeOK /\ raised[c] \in Nat
  <2>1. IInv
    BY DEF AloneInv
  <2>2. /\ e \in Events /\ AtDoor = {e} /\ e \in Unhandled /\ Genuine(e)
        /\ stalled[1].front => e.kind = "ACCEPT" /\ e.conn \notin deleted
    BY <2>1, <1>0, <1>1, OneAtDoor
  <2> QED BY <2>1, <2>2, AloneFacts, OneAtDoor, <1>0, <1>1 DEF Genuine, IInv, Once
<1>3. \A d \in InQueue : d.n \in Nat /\ d.n < e.n
  <2> SUFFICES ASSUME NEW d \in InQueue PROVE d.n \in Nat /\ d.n < e.n
    OBVIOUS
  <2>1. d \in Unhandled /\ d # e
    BY <1>2 DEF AloneInv, IInv, Once, WaitsOnce, Unhandled
  <2>2. d.n # e.n /\ d.n \in Nat /\ d.n <= raised[c]
    BY <2>1, <1>2, AloneFacts DEF AloneInv, IInv, Once
  <2> QED BY <2>2, <1>2
<1>4. stalled[1].front => queue = <<>>
  <2> SUFFICES ASSUME stalled[1].front, queue # <<>> PROVE FALSE
    OBVIOUS
  <2>1. PICK d : d \in InQueue
    BY <1>2, EmptySeq DEF TypeOK, InQueue
  <2>2. d.n = 0 /\ d.kind = "CLEAR" /\ d.conn = c
    BY <2>1, <1>2, <1>3, AloneFacts DEF Unhandled, Genuine
  <2>3. task.pc \in {"tcp_close", "discard"}
    BY <2>1, <2>2, <1>2 DEF AloneInv, IInv, Clears
  <2>4. /\ Event \in Current /\ Event.n # 0 /\ Event.n # 1
    BY <2>3, AtWork DEF AloneInv, IInv, Working, Genuine
  <2> QED BY <2>4, <1>2, AloneFacts
<1>5. queue' = Append(queue, e)
  <2>1. CASE stalled[1].front
    <3>1. <<e>> \o <<>> = Append(<<>>, e)
      OBVIOUS
    <3> QED BY <2>1, <3>1, <1>1, <1>4
  <2> QED BY <2>1, <1>1
<1>6. /\ DOMAIN queue = 1..Len(queue) /\ DOMAIN queue' = 1..Len(queue) + 1 /\ Len(queue) \in Nat
      /\ \A i \in 1..Len(queue) : queue'[i] = queue[i]
      /\ queue'[Len(queue) + 1] = e /\ InQueue' = InQueue \cup {e}
  BY <1>2, <1>5, AtBack DEF TypeOK
<1>7. Sorted'
  <2>1. \A i \in 1..Len(queue) : queue[i].n \in Nat /\ queue[i].n < e.n
    BY <1>3, <1>6 DEF InQueue
  <2> QED BY <2>1, <1>6 DEF AloneInv, Sorted
<1>8. AloneInv'
  BY <1>1, <1>7 DEF AloneInv
<1>9. Waiting(c)' = Waiting(c)
  <2>1. AtDoor' = {} /\ InHand' = InHand
    BY <1>1 DEF AtDoor, InHand
  <2>2. Unhandled' = Unhandled
    BY <2>1, <1>2, <1>6 DEF Unhandled
  <2> QED BY <2>2 DEF Waiting
<1> QED BY <1>1, <1>8, <1>9 DEF Delivery!vars

LEMMA AloneClear ==
  ASSUME NEW c, Conns = {c}, AloneInv, IInv', PrependClear
  PROVE  AloneInv' /\ [Delivery!Next]_(Delivery!vars)
<1>0. PICK e : e = [kind |-> "CLEAR", arg |-> Event.arg, conn |-> Event.conn, n |-> 0]
  OBVIOUS
<1>1. /\ task.pc = "clear" /\ queue' = <<e>> \o queue
      /\ task' = [task EXCEPT !.pc = IF Event.kind = "FIN" THEN "discard" ELSE "tcp_close"]
      /\ UNCHANGED <<stalled, raised, deleted, taken, overtaken>>
  BY <1>0 DEF PrependClear, lwip, objects, history, Put, Goto
<1>2. e \in Events /\ e.n = 0 /\ TypeOK
  <2>1. Event \in Events
    BY <1>1, AtWork DEF AloneInv
  <2> QED BY <2>1, <1>0 DEF Events, Kinds, AloneInv, IInv
<1>3. /\ DOMAIN queue = 1..Len(queue) /\ DOMAIN queue' = 1..Len(queue) + 1 /\ Len(queue) \in Nat
      /\ queue'[1] = e
      /\ \A i \in 2..Len(queue) + 1 : i - 1 \in 1..Len(queue) /\ queue'[i] = queue[i - 1]
      /\ InQueue' = InQueue \cup {e}
  <2>1. Len(queue) \in Nat
    BY <1>2 DEF TypeOK
  <2> QED BY <2>1, <1>1, <1>2, InFront
<1>4. \A i \in 1..Len(queue) : queue[i].n \in Nat /\ queue[i].n > 0
  <2> SUFFICES ASSUME NEW i \in 1..Len(queue) PROVE queue[i].n \in Nat /\ queue[i].n > 0
    OBVIOUS
  <2>1. queue[i] \in InQueue /\ queue[i].n \in Nat /\ Genuine(queue[i])
    <3>1. queue[i] \in InQueue
      BY <1>3 DEF InQueue
    <3> QED BY <3>1, AloneFacts DEF Unhandled
  <2>2. queue[i].kind # "CLEAR"
    BY <1>1, <1>3, AtWork DEF AloneInv, IInv, Clears
  <2> QED BY <2>1, <2>2 DEF Genuine
<1>5. Sorted'
  <2> SUFFICES ASSUME NEW i \in 1..Len(queue) + 1, NEW j \in 1..Len(queue) + 1, i < j
               PROVE  queue'[i].n < queue'[j].n
    BY <1>3 DEF Sorted
  <2>1. j - 1 \in 1..Len(queue) /\ queue'[j] = queue[j - 1]
    BY <1>3
  <2>2. CASE i = 1
    BY <2>1, <2>2, <1>2, <1>3, <1>4
  <2>3. CASE i # 1
    <3>1. i - 1 \in 1..Len(queue) /\ queue'[i] = queue[i - 1]
      BY <2>3, <1>3
    <3>2. \A k, l \in 1..Len(queue) : k < l => queue[k].n < queue[l].n
      BY <1>3 DEF AloneInv, Sorted
    <3>3. i - 1 < j - 1
      BY <1>3
    <3>4. queue[i - 1].n < queue[j - 1].n
      BY <3>1, <2>1, <3>2, <3>3
    <3> QED BY <3>1, <2>1, <3>4
  <2> QED BY <2>2, <2>3
<1>6. AloneInv'
  <2>1. task'.pc \in {"discard", "tcp_close"}
    BY <1>1, <1>2 DEF TypeOK
  <2> QED BY <2>1, <1>1, <1>5 DEF AloneInv
<1>7. Waiting(c)' = Waiting(c)
  <2>1. AtDoor' = AtDoor /\ InHand' = {} /\ InHand = {}
    BY <1>1, <1>6 DEF AtDoor, InHand, AloneInv, IInv, Working
  <2>2. Unhandled' = Unhandled \cup {e}
    BY <2>1, <1>3 DEF Unhandled
  <2> QED BY <2>2, <1>2 DEF Waiting
<1> QED BY <1>1, <1>6, <1>7 DEF Delivery!vars

(* Every event that waits when CLEAR is handled is one of the client's. *)
LEMMA AloneNoTake ==
  ASSUME NEW c, Conns = {c}, AloneInv
  PROVE  ~TakeFirst /\ ~TakeRest /\ ~FirstBack /\ ~RestBack /\ ~Peek /\ ~DropRest
<1>1. ASSUME TakeFirst PROVE FALSE
  <2>1. task.pc = "first" /\ queue # <<>> /\ Head(queue).arg # Event.arg
    BY <1>1 DEF TakeFirst, Matches
  <2>2. Head(queue) \in Unhandled
    BY <2>1, EmptySeq DEF AloneInv, IInv, TypeOK, Unhandled, InQueue
  <2>3. /\ Event.conn = c /\ c \in deleted /\ Event.arg = addr[c]
    BY <2>1, InRotation DEF AloneInv, Rotating
  <2>4. Head(queue).n = 1 /\ Head(queue).n \notin taken[c]
    BY <2>1, <2>2, <2>3, AloneFacts DEF Genuine, AloneInv, IInv, Once
  <2> QED BY <2>3, <2>4, AloneFacts
<1> QED BY <1>1 DEF AloneInv, TakeRest, FirstBack, RestBack, Peek, DropRest

LEMMA AloneStep ==
  ASSUME NEW c, Conns = {c}, AloneInv, [Next]_vars
  PROVE  AloneInv' /\ [Delivery!Next]_(Delivery!vars)
<1>1. IInv /\ IInv'
  BY Step DEF AloneInv
<1> DEFINE Still == /\ UNCHANGED <<queue, stalled, raised, taken, overtaken>>
                    /\ task'.pc \notin {"first_back", "rest", "rest_take", "rest_back"}
                    /\ deleted' = deleted \/ deleted' = deleted \cup {c}
<1>2. CASE \E d \in Conns, a \in Addrs : Accept(d, a)
  BY <1>1, <1>2, AloneCallback DEF Accept, Kinds
<1>3. CASE (\E d \in Conns, kind \in {"RECV", "POLL"} : Raise(d, kind)) \/ (\E d \in Conns : Fin(d) \/ Err(d))
  <2>1. link[c] = "open" => addr[c] \in Addrs
    BY <1>1 DEF IInv, Living, Opened
  <2> QED BY <1>1, <1>3, <2>1, AloneCallback DEF Raise, Fin, Err, Kinds
<1>4. CASE Resume
  BY <1>1, <1>4, AloneResume
<1>5. CASE Get \/ PrependClear \/ RemoveEvents
  <2>1. CASE FirstNone
    <3>1. Still
      BY <2>1, Finishing DEF FirstNone, lwip, objects, history
    <3> QED BY <3>1, <1>1, AloneStill
  <2> QED BY <1>1, <1>5, <2>1, AloneGet, AloneClear, AloneDrop, AloneNoTake DEF RemoveEvents
<1>6. CASE \/ HandleAccept \/ HandleStale \/ HandleRecv \/ PollQuiet \/ PollSends \/ PollRxTimeout
           \/ ServerCloses \/ Close \/ ApiCall \/ HandleFin \/ HandleError \/ HandleClear \/ TcpClose \/ Discard
  <2>1. /\ UNCHANGED <<queue, stalled, raised, taken, overtaken>>
        /\ \/ UNCHANGED deleted
           \/ DiscardCallback /\ task.pc \in {"handle", "discard"} /\ Target = Event.conn
    BY <1>1, <1>6 DEF HandleAccept, HandleStale, HandleRecv, PollQuiet, PollSends, PollRxTimeout,
          ServerCloses, Close, ApiCall, HandleFin, HandleError, HandleClear, TcpClose, Discard, Detach,
          Alive, Handling, lwip, objects, history, IInv, Working
  <2>2. Done \/ \E p \in {"api", "close", "clear", "first", "discard"} : Goto(p)
    BY <1>6 DEF HandleAccept, HandleStale, HandleRecv, PollQuiet, PollSends, PollRxTimeout,
          ServerCloses, Close, ApiCall, HandleFin, HandleError, HandleClear, TcpClose, Discard, Detach
  <2>3. task'.pc \notin {"first_back", "rest", "rest_take", "rest_back"}
    BY <1>1, <2>2 DEF Done, Goto, IInv, TypeOK
  <2>4. deleted' = deleted \/ deleted' = deleted \cup {c}
    BY <1>1, <2>1, AtWork, AloneFacts DEF DiscardCallback
  <2> QED BY <1>1, <2>1, <2>3, <2>4, AloneStill
<1>7. CASE Rest \/ UNCHANGED vars
  <2>1. Still
    BY <1>7 DEF Rest, vars, lwip, objects, history, AloneInv
  <2> QED BY <2>1, <1>1, AloneStill
<1> QED BY <1>2, <1>3, <1>4, <1>5, <1>6, <1>7 DEF Next, Lwip, Task

(* A client that is alone with the web server gets the events of its        *)
(* connection once each and in the order in which lwIP raised them, however *)
(* often the queue is full: AsyncTCP implements EventDelivery.              *)
THEOREM AloneDeliveredInOrder ==
  ASSUME NEW c, Conns = {c}
  PROVE  Spec => DeliveredInOrder
<1>1. Init => AloneInv /\ Delivery!Init
  BY AloneInit
<1>2. AloneInv /\ [Next]_vars => AloneInv' /\ [Delivery!Next]_(Delivery!vars)
  BY AloneStep
<1> QED BY <1>1, <1>2, PTL DEF Spec, DeliveredInOrder, Delivery!Spec

(* Nor is an event of its ever thrown away while it lives, or handled when  *)
(* it is deleted.                                                           *)
THEOREM AloneNothingLost ==
  ASSUME NEW c, Conns = {c}
  PROVE  Spec => [](lost = {} /\ stale = {})
<1>1. Init => AloneInv
  BY AloneInit
<1>2. AloneInv /\ [Next]_vars => AloneInv'
  BY AloneStep
<1>3. AloneInv => lost = {} /\ stale = {}
  BY DEF AloneInv, IInv, TypeOK, LostInv, Reused, Gone, StaleOnlyWhenOvertaken
<1> QED BY <1>1, <1>2, <1>3, PTL DEF Spec
=============================================================================
