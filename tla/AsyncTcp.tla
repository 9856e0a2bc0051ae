------------------------------ MODULE AsyncTcp ------------------------------
(***************************************************************************)
(* AsyncTCP, which carries the web server: the callbacks that the lwIP     *)
(* thread makes for the connections of the server put events into one      *)
(* bounded queue, and the task "async_tcp" takes them out and runs the     *)
(* handlers of class AsyncClient, which end by deleting the client.        *)
(*                                                                         *)
(* The lwIP thread waits in a callback while the queue is full; the task   *)
(* waits while lwIP is in a callback (tcpip_api_call) and, when it puts an *)
(* event itself, while the queue is full.  Nobody else uses the queue.     *)
(*                                                                         *)
(* Each connection is opened once.  Events with no client as argument,     *)
(* which lwIP may still raise after FIN, are thrown away by the task       *)
(* and are left out.  A client is known to the queue by its                *)
(* address only, and an address is used again once its client is deleted.  *)
(***************************************************************************)
EXTENDS Naturals, Sequences, FiniteSets

CONSTANTS
  Conns,      \* connections that clients open to the server
  Addrs,      \* addresses at which AsyncClient objects may live
  Server,     \* the AsyncServer, which the ACCEPT events go to
  None,       \* no object, no event
  QueueSize,  \* length of _async_queue, 32 in the code
  Budget      \* bound: events of each connection, but ACCEPT and the last one

ASSUME AsyncTcpAssumption ==
  /\ Server \notin Addrs /\ None \notin Conns
  /\ QueueSize \in Nat \ {0}
  /\ Budget \in [Conns -> Nat]

VARIABLES
  queue,      \* _async_queue
  stalled,    \* the event a callback waits to put, and at which end
  link,       \* the pcb of each connection
  client,     \* the client that lives at an address, named by its connection
  addr,       \* where the client of a connection was created
  wired,      \* clients that the web server has been told of
  deleted,    \* clients that the web server has deleted
  raised,     \* events raised for each connection
  task,       \* the task "async_tcp"
  taken,      \* history: the events of each connection that were taken out
  overtaken,  \* history: connections of which an event was taken out before an
              \* earlier one
  lost,       \* history: events thrown away while their client lived
  stale       \* history: events handled when their client had been deleted

lwip    == <<stalled, link, raised>>
objects == <<client, addr, wired, deleted>>
history == <<taken, overtaken, lost, stale>>
vars    == <<queue, lwip, objects, task, history>>

(* RECV stands for SENT as well: both run a callback of the request, which  *)
(* may call lwIP.  CONNECTED and DNS belong to outgoing connections.        *)
Kinds == {"ACCEPT", "RECV", "POLL", "FIN", "ERROR", "CLEAR"}

(* The n-th event of connection c; ACCEPT is the first.  A CLEAR that the   *)
(* task puts itself has no number.                                          *)
Events == [kind : Kinds, arg : Addrs \cup {Server}, conn : Conns, n : Nat]

ASSUME NoneAssumption == None \notin Events

Links == {"none",      \* not opened yet
          "open",      \* its tcp_arg is the client
          "detached",  \* _close() has taken the callbacks off
          "failed",    \* freed by lwIP after an error; the client's _pcb dangles
          "closed"}    \* closed, and the client's _pcb is NULL

HasPcb(c) == link[c] \in {"open", "failed"}

Full(q) == Len(q) >= QueueSize

-----------------------------------------------------------------------------
Init ==
  /\ queue = <<>> /\ stalled = <<>>
  /\ link = [c \in Conns |-> "none"]
  /\ client = [a \in Addrs |-> None] /\ addr = [c \in Conns |-> None]
  /\ wired = {} /\ deleted = {}
  /\ raised = [c \in Conns |-> 0]
  /\ task = [pc |-> "get", event |-> None, packet |-> None, first |-> None]
  /\ taken = [c \in Conns |-> {}]
  /\ overtaken = {} /\ lost = {} /\ stale = {}

Put(e, front) == IF front THEN <<e>> \o queue ELSE Append(queue, e)

(* _send_async_event, _prepend_async_event in a callback of the lwIP thread *)
Send(e, front) ==
  IF Full(queue) THEN stalled' = <<[event |-> e, front |-> front]>> /\ UNCHANGED queue
                 ELSE queue' = Put(e, front) /\ UNCHANGED stalled

(* The lwIP thread enters a callback for connection c. *)
Callback(c, kind, arg, front) ==
  /\ stalled = <<>>
  /\ raised' = [raised EXCEPT ![c] = @ + 1]
  /\ Send([kind |-> kind, arg |-> arg, conn |-> c, n |-> raised[c] + 1], front)
  /\ UNCHANGED <<wired, deleted, task, history>>

(* AsyncServer::_accept(): a client is created and attached to the pcb, and *)
(* ACCEPT goes to the front of the queue.                                   *)
Accept(c, a) ==
  /\ link[c] = "none" /\ client[a] = None
  /\ link' = [link EXCEPT ![c] = "open"]
  /\ client' = [client EXCEPT ![a] = c]
  /\ addr' = [addr EXCEPT ![c] = a]
  /\ Callback(c, "ACCEPT", Server, TRUE)

(* _tcp_recv() with a pbuf, _tcp_poll() *)
Raise(c, kind) ==
  /\ link[c] = "open" /\ raised[c] <= Budget[c]
  /\ Callback(c, kind, addr[c], FALSE)
  /\ UNCHANGED <<link, client, addr>>

(* Mutant: the pcb is not closed in the callback. *)
FinLater(c) ==
  /\ link[c] = "open"
  /\ Callback(c, "FIN", addr[c], FALSE)
  /\ UNCHANGED <<link, client, addr>>

(* _tcp_recv() without a pbuf: _lwip_fin() closes the pcb at once. *)
Fin(c) ==
  /\ link[c] = "open"
  /\ link' = [link EXCEPT ![c] = "closed"]
  /\ Callback(c, "FIN", addr[c], FALSE)
  /\ UNCHANGED <<client, addr>>

(* _tcp_error(): lwIP has freed the pcb. *)
Err(c) ==
  /\ link[c] = "open"
  /\ link' = [link EXCEPT ![c] = "failed"]
  /\ Callback(c, "ERROR", addr[c], FALSE)
  /\ UNCHANGED <<client, addr>>

(* There is room again for the event that a callback waits to put. *)
Resume ==
  /\ stalled # <<>> /\ ~Full(queue)
  /\ queue' = Put(stalled[1].event, stalled[1].front)
  /\ stalled' = <<>>
  /\ UNCHANGED <<link, raised, objects, task, history>>

Lwip ==
  \/ \E c \in Conns, a \in Addrs : Accept(c, a)
  \/ \E c \in Conns, kind \in {"RECV", "POLL"} : Raise(c, kind)
  \/ \E c \in Conns : Fin(c)
  \/ \E c \in Conns : Err(c)
  \/ Resume

-----------------------------------------------------------------------------
Event  == task.event
Target == client[Event.arg]

Goto(pc) == task' = [task EXCEPT !.pc = pc]
Done     == task' = [pc |-> "get", event |-> None, packet |-> None, first |-> None]

(* e was raised before f for the same connection; CLEAR has no place. *)
Earlier(e, f) == e.conn = f.conn /\ 0 < e.n /\ e.n < f.n

(* _async_service_task() takes the next event. *)
Get ==
  /\ task.pc = "get" /\ queue # <<>>
  /\ task' = [task EXCEPT !.pc = "handle", !.event = Head(queue)]
  /\ overtaken' = IF \E i \in 2..Len(queue) : Earlier(queue[i], Head(queue))
                    THEN overtaken \cup {Head(queue).conn} ELSE overtaken
  /\ taken' = [taken EXCEPT ![Head(queue).conn] = @ \cup ({Head(queue).n} \ {0})]
  /\ queue' = Tail(queue)
  /\ UNCHANGED <<lwip, objects, lost, stale>>

Handling(kind) == task.pc = "handle" /\ Event.kind = kind

(* AsyncServer::_accepted(): the web server makes a request of the client   *)
(* and installs its callbacks, the one that deletes the client among them.  *)
HandleAccept ==
  /\ Handling("ACCEPT")
  /\ wired' = wired \cup {Event.conn}
  /\ Done
  /\ UNCHANGED <<queue, lwip, client, addr, deleted, history>>

(* An event of a client that is gone.  What becomes of it is undefined; the *)
(* outcome followed here is that nothing else is harmed.                    *)
HandleStale ==
  /\ task.pc = "handle" /\ Event.kind \notin {"ACCEPT", "CLEAR"}
  /\ Target # Event.conn
  /\ stale' = stale \cup {Event.conn}
  /\ Done
  /\ UNCHANGED <<queue, lwip, objects, taken, overtaken, lost>>

Alive(kind) == Handling(kind) /\ Target = Event.conn

(* _recv(): the data is acknowledged through lwIP. *)
HandleRecv ==
  /\ Alive("RECV")
  /\ IF HasPcb(Target) THEN Goto("api") ELSE Done
  /\ UNCHANGED <<queue, lwip, objects, history>>

(* _poll() of a client that is neither late nor has anything to send *)
PollQuiet ==
  /\ Alive("POLL")
  /\ Done
  /\ UNCHANGED <<queue, lwip, objects, history>>

(* _poll() that goes on with the response, _onPoll() *)
PollSends ==
  /\ Alive("POLL") /\ HasPcb(Target) /\ Target \in wired
  /\ Goto("api")
  /\ UNCHANGED <<queue, lwip, objects, history>>

(* The start of _close(): it takes the callbacks off the pcb. *)
Detach ==
  /\ link' = [link EXCEPT ![Target] = IF @ = "open" THEN "detached" ELSE @]
  /\ Goto("clear")
  /\ UNCHANGED <<queue, stalled, raised, objects, history>>

(* _poll() when no data has come for as long as the web server allows *)
PollRxTimeout ==
  /\ Alive("POLL") /\ HasPcb(Target) /\ Target \in wired
  /\ Detach

(* The web server calls close(): in _poll() when data it sent has not been   *)
(* acknowledged in time, in _recv() when a request starts with an empty      *)
(* line.  First what was received is acknowledged through lwIP.              *)
ServerCloses ==
  /\ \E kind \in {"RECV", "POLL"} : Alive(kind)
  /\ HasPcb(Target) /\ Target \in wired
  /\ Goto("close")
  /\ UNCHANGED <<queue, lwip, objects, history>>

(* close() goes on; the pcb may be gone by now. *)
Close ==
  /\ task.pc = "close" /\ stalled = <<>>
  /\ IF HasPcb(Target) THEN Detach
                       ELSE Done /\ UNCHANGED <<queue, lwip, objects, history>>

(* tcpip_api_call: the call is made by the lwIP thread. *)
ApiCall ==
  /\ task.pc = "api" /\ stalled = <<>>
  /\ Done
  /\ UNCHANGED <<queue, lwip, objects, history>>

HandleFin ==
  /\ Alive("FIN")
  /\ Goto("clear")
  /\ UNCHANGED <<queue, lwip, objects, history>>

(* Mutant: CLEAR goes to the back of the queue. *)
AppendClear ==
  /\ task.pc = "clear" /\ ~Full(queue)
  /\ queue' = Put([kind |-> "CLEAR", arg |-> Event.arg, conn |-> Event.conn, n |-> 0], FALSE)
  /\ Goto(IF Event.kind = "FIN" THEN "discard" ELSE "tcp_close")
  /\ UNCHANGED <<lwip, objects, history>>

(* _tcp_clear_events() *)
PrependClear ==
  /\ task.pc = "clear" /\ ~Full(queue)
  /\ queue' = Put([kind |-> "CLEAR", arg |-> Event.arg, conn |-> Event.conn, n |-> 0], TRUE)
  /\ Goto(IF Event.kind = "FIN" THEN "discard" ELSE "tcp_close")
  /\ UNCHANGED <<lwip, objects, history>>

(* The rest of _close(): _tcp_close(), which lwIP executes *)
TcpClose ==
  /\ task.pc = "tcp_close" /\ stalled = <<>>
  /\ link' = [link EXCEPT ![Target] = "closed"]
  /\ Goto("discard")
  /\ UNCHANGED <<queue, stalled, raised, objects, history>>

(* _discard_cb: the web server deletes the request and the client. *)
DiscardCallback ==
  IF Target \in wired
    THEN /\ deleted' = deleted \cup {Target}
         /\ client' = [client EXCEPT ![Event.arg] = None]
    ELSE UNCHANGED <<deleted, client>>

Discard ==
  /\ task.pc = "discard"
  /\ DiscardCallback
  /\ Done
  /\ UNCHANGED <<queue, lwip, addr, wired, history>>

(* Mutant: the client is not discarded. *)
HandleErrorKeeps ==
  /\ Alive("ERROR")
  /\ link' = [link EXCEPT ![Target] = "closed"]
  /\ Done
  /\ UNCHANGED <<queue, stalled, raised, objects, history>>

(* _error(): the client forgets its pcb and is discarded; its events stay. *)
HandleError ==
  /\ Alive("ERROR")
  /\ link' = [link EXCEPT ![Target] = "closed"]
  /\ DiscardCallback
  /\ Done
  /\ UNCHANGED <<queue, stalled, raised, addr, wired, history>>

-----------------------------------------------------------------------------
(* _remove_events_with_arg(): every event goes once round the queue, and    *)
(* those of the client are thrown away.  Each call on the queue is a step,  *)
(* for the lwIP thread may put events between them.                         *)
HandleClear ==
  /\ Handling("CLEAR")
  /\ Goto("first")
  /\ UNCHANGED <<queue, lwip, objects, history>>

(* free(packet): the pbuf of a RECV is not freed with it. *)
Drop(e) ==
  lost' = IF client[e.arg] = e.conn THEN lost \cup {e.conn} ELSE lost

Matches(e) == e.arg = Event.arg

(* The first packet that is not thrown away is put back and remembered. *)
FirstNone ==
  /\ task.pc = "first" /\ queue = <<>>
  /\ Done
  /\ UNCHANGED <<queue, lwip, objects, history>>

DropFirst ==
  /\ task.pc = "first" /\ queue # <<>> /\ Matches(Head(queue))
  /\ Drop(Head(queue))
  /\ queue' = Tail(queue)
  /\ UNCHANGED <<lwip, objects, task, taken, overtaken, stale>>

TakeFirst ==
  /\ task.pc = "first" /\ queue # <<>> /\ ~Matches(Head(queue))
  /\ task' = [task EXCEPT !.pc = "first_back", !.packet = Head(queue)]
  /\ queue' = Tail(queue)
  /\ UNCHANGED <<lwip, objects, history>>

FirstBack ==
  /\ task.pc = "first_back" /\ ~Full(queue)
  /\ queue' = Put(task.packet, FALSE)
  /\ task' = [task EXCEPT !.pc = "rest", !.first = task.packet, !.packet = None]
  /\ UNCHANGED <<lwip, objects, history>>

(* Mutant: goes on until the queue is empty. *)
PeekForever ==
  /\ task.pc = "rest"
  /\ IF queue = <<>> THEN Done ELSE Goto("rest_take")
  /\ UNCHANGED <<queue, lwip, objects, history>>

(* xQueuePeek: has the remembered packet come round? *)
Peek ==
  /\ task.pc = "rest"
  /\ IF queue = <<>> \/ Head(queue) = task.first THEN Done ELSE Goto("rest_take")
  /\ UNCHANGED <<queue, lwip, objects, history>>

DropRest ==
  /\ task.pc = "rest_take" /\ Matches(Head(queue))
  /\ Drop(Head(queue))
  /\ queue' = Tail(queue)
  /\ Goto("rest")
  /\ UNCHANGED <<lwip, objects, taken, overtaken, stale>>

TakeRest ==
  /\ task.pc = "rest_take" /\ ~Matches(Head(queue))
  /\ task' = [task EXCEPT !.pc = "rest_back", !.packet = Head(queue)]
  /\ queue' = Tail(queue)
  /\ UNCHANGED <<lwip, objects, history>>

(* Mutant: the packet is not put back. *)
RestBackLost ==
  /\ task.pc = "rest_back" /\ ~Full(queue)
  /\ task' = [task EXCEPT !.pc = "rest", !.packet = None]
  /\ UNCHANGED <<queue, lwip, objects, history>>

RestBack ==
  /\ task.pc = "rest_back" /\ ~Full(queue)
  /\ queue' = Put(task.packet, FALSE)
  /\ task' = [task EXCEPT !.pc = "rest", !.packet = None]
  /\ UNCHANGED <<lwip, objects, history>>

RemoveEvents ==
  \/ FirstNone \/ DropFirst \/ TakeFirst \/ FirstBack
  \/ Peek \/ DropRest \/ TakeRest \/ RestBack

Task ==
  \/ Get \/ HandleAccept \/ HandleStale \/ HandleRecv
  \/ PollQuiet \/ PollSends \/ PollRxTimeout \/ ServerCloses \/ Close \/ ApiCall
  \/ HandleFin \/ HandleError \/ HandleClear
  \/ PrependClear \/ TcpClose \/ Discard \/ RemoveEvents

(* Every connection has come and gone, and all of it has been handled. *)
AllQuiet ==
  /\ \A c \in Conns : link[c] \in {"failed", "closed"}
  /\ queue = <<>> /\ stalled = <<>> /\ task.pc = "get"

Rest == AllQuiet /\ UNCHANGED vars

Next == Lwip \/ Task \/ Rest

Spec == Init /\ [][Next]_vars

(* FreeRTOS runs the task when it can go on, and lwIP ends its waiting. *)
FairSpec == Spec /\ WF_vars(Task) /\ WF_vars(Resume)

-----------------------------------------------------------------------------
Points == {"get", "handle", "api", "close", "clear", "tcp_close", "discard", "first",
           "first_back", "rest", "rest_take", "rest_back"}

TypeOK ==
  /\ queue \in Seq(Events) /\ Len(queue) <= QueueSize
  /\ stalled \in Seq([event : Events, front : BOOLEAN]) /\ Len(stalled) <= 1
  /\ link \in [Conns -> Links]
  /\ client \in [Addrs -> Conns \cup {None}]
  /\ addr \in [Conns -> Addrs \cup {None}]
  /\ wired \subseteq Conns /\ deleted \subseteq wired
  /\ raised \in [Conns -> Nat] /\ taken \in [Conns -> SUBSET Nat]
  /\ task \in [pc : Points, event : Events \cup {None}, packet : Events \cup {None},
               first : Events \cup {None}]
  /\ overtaken \cup lost \cup stale \subseteq Conns

(* Between two events the queue holds the events of every connection in the *)
(* order in which lwIP raised them, the order that the comment on           *)
(* _remove_events_with_arg() means to keep.                                 *)
OrderKept ==
  task.pc = "get" =>
    \A i, j \in 1..Len(queue) : i < j => ~Earlier(queue[j], queue[i])

(* A handler is called for a deleted client only after the order was lost:  *)
(* what CLEAR, put in front, removes is all that FIN and _close() leave, and *)
(* after ERROR nothing is left if ERROR came last.                          *)
StaleOnlyWhenOvertaken == stale \subseteq overtaken

(* A client is deleted when lwIP has no way left to call it: neither an open *)
(* pcb refers to it nor a callback that waits for the queue.                *)
DeletedIsUnreachable ==
  \A c \in deleted :
    /\ link[c] = "closed"
    /\ stalled # <<>> => stalled[1].event.conn # c

(* Where an event waits to be handled: in the queue, in the hands of the     *)
(* rotation, or with a callback that waits for room.                        *)
InQueue == {queue[i] : i \in DOMAIN queue}
InHand  == {task.packet} \ {None}
AtDoor  == {stalled[i].event : i \in DOMAIN stalled}

Unhandled == InQueue \cup InHand \cup AtDoor
Waiting(c) == {e.n : e \in {f \in Unhandled : f.conn = c /\ f.n # 0}}

WaitsOnce ==
  /\ \A i, j \in DOMAIN queue : queue[i] = queue[j] => i = j
  /\ InQueue \cap InHand = {} /\ InQueue \cap AtDoor = {} /\ InHand \cap AtDoor = {}

(* A client that was deleted had the address that is now c's. *)
Reused(c) == \E d \in deleted \ {c} : addr[d] = addr[c]

(* No event is lost or handled twice while its client lives, however the    *)
(* rotation and the callbacks interleave -- but CLEAR throws events of a    *)
(* living client away if that client has the address of one deleted before, *)
(* or FIN was handled ahead of its ACCEPT.                                  *)
EachHandledOnce ==
  /\ WaitsOnce
  /\ \A c \in Conns :
       /\ taken[c] \cap Waiting(c) = {}
       /\ c \in lost => c \in overtaken \/ Reused(c)
       /\ c \notin lost \cup deleted => taken[c] \cup Waiting(c) = 1..raised[c]

(* With a single connection, a queue that fills up and all, the events are  *)
(* delivered as the web server may expect.                                  *)
Delivery == INSTANCE EventDelivery WITH
  waiting <- [c \in Conns |-> Waiting(c)], delivered <- taken
DeliveredInOrder == Delivery!Spec

(* The queue is emptied: putting events back ends. *)
RotationEnds ==
  task.pc \in {"first", "first_back", "rest", "rest_take", "rest_back"} ~> task.pc = "get"

(* The client of every connection that has ended is deleted in the end,     *)
(* unless one of its events was thrown away or came too late.               *)
ClientsFreed ==
  \A c \in Conns :
    link[c] \in {"failed", "closed"} ~> c \in deleted \cup lost \cup overtaken
=============================================================================
