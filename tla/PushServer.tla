----------------------------- MODULE PushServer -----------------------------
(***************************************************************************)
(* What the server sends of its own accord, to a client of an event source *)
(* or of a web socket, and what the client can rely on; and, from further  *)
(* off, a web socket with all its clients and buffers.                     *)
(***************************************************************************)
EXTENDS EventSource, WebSocket, SocketServer

vars == <<stream, eventVars, socketVars, serverVars>>

NoStream == StreamInit(Faults)
NoSource == source = "none" /\ events = <<>> /\ publish = 0 /\ accepted = <<>> /\ ahead = 0
NoSocket ==
  /\ status = "none" /\ messages = <<>> /\ controls = <<>> /\ input = <<>> /\ segment = <<>>
  /\ frame = NoFrame /\ made = [messages |-> 0, controls |-> 0] /\ handed = <<>> /\ stray = {}
NoServer == ServerStart([app |-> 0, tcp |-> 0, join |-> 0])

(* Only one of the handlers takes a connection. *)
Init ==
  \/ \E s \in Scenarios :
       /\ StreamInit(Faults - s.faults) /\ NoServer
       /\ IF s.events > 0 THEN EventInit(s.events) /\ NoSocket ELSE SocketInit(s) /\ NoSource
  \/ ServerInit /\ NoStream /\ NoSource /\ NoSocket

Next ==
  \/ EventNext /\ UNCHANGED <<socketVars, serverVars>>
  \/ SocketNext /\ UNCHANGED <<eventVars, serverVars>>
  \/ ServerNext /\ UNCHANGED <<stream, eventVars, socketVars>>

(* The tasks of AsyncTCP and lwIP run, lwIP polls twice a second, and a    *)
(* peer that stays connected acknowledges what it is sent.                 *)
Fairness ==
  /\ WF_vars(PeerAcks /\ UNCHANGED <<eventVars, socketVars, serverVars>>)
  /\ WF_vars(((EventOpens \/ EventAck) /\ UNCHANGED <<socketVars, serverVars>>)
             \/ ((SocketOpens \/ SocketAck \/ SocketData) /\ UNCHANGED <<eventVars, serverVars>>))
  /\ WF_vars((EventPoll /\ UNCHANGED <<socketVars, serverVars>>)
             \/ (SocketPoll /\ UNCHANGED <<eventVars, serverVars>>))

Spec == Init /\ [][Next]_vars /\ Fairness

(* The clients of a web socket, and an application that cleans them up *)
CleanupSpec == Init /\ [][Next]_vars /\ ServerFairness

-----------------------------------------------------------------------------
(* Events *)

EventAt(i) == wire[i][1] = "event"
OnWire(e) == \E i \in DOMAIN wire : EventAt(i) /\ wire[i][2] = e
Queued(e) == \E i \in DOMAIN events : events[i].event = e

(* Every event of which a byte reaches the wire is there whole and once;   *)
(* one that is overtaken by a later one is longer than it, unless a call   *)
(* failed for want of memory.  Only an event that has been overtaken, or   *)
(* is no longer than what was acknowledged of the head too late, can leave *)
(* the queue without having been sent, when those acknowledgements are     *)
(* taken for its own.                                                      *)
Passes(d, e) == d > e /\ (accepted[d] < accepted[e] \/ "memory" \in lost)
EventsIntact ==
  source # "none" =>
    /\ \A i \in DOMAIN wire : EventAt(i) =>
         LET e == wire[i][2]
             start == i - wire[i][3]
         IN  \A k \in 1..accepted[e] :
               start + k \in DOMAIN wire /\ wire[start + k] = <<"event", e, k>>
    /\ \A i, j \in DOMAIN wire : (EventAt(i) /\ EventAt(j) /\ i < j) =>
         \/ wire[i][2] < wire[j][2]
         \/ wire[i][2] = wire[j][2] /\ wire[i][3] < wire[j][3]
         \/ Passes(wire[i][2], wire[j][2])
    /\ source = "open" =>
         \A e \in DOMAIN accepted :
           \/ Queued(e) \/ OnWire(e) \/ accepted[e] <= ahead
           \/ \E d \in DOMAIN accepted : Passes(d, e) /\ OnWire(d)

-----------------------------------------------------------------------------
(* Messages *)

MessageBytes(m) == {i \in DOMAIN wire : "message" \in DOMAIN wire[i] /\ wire[i].message = m}

(* A message leaves the queue when each of its bytes has gone out, once    *)
(* and in order, and the peer has acknowledged them all, unless an         *)
(* acknowledgement was credited wrongly: because a control frame was sent  *)
(* twice, because the head of the response was acknowledged in parts,      *)
(* because a control frame was acknowledged in parts, or after a failure.  *)
MessagesAcknowledged ==
  [][\A i \in DOMAIN messages :
       (stray' = {} /\ status' # "disconnected" /\ messages[i].len > 0
          /\ \A j \in DOMAIN messages' : messages'[j].id # messages[i].id) =>
         LET bytes == MessageBytes(messages[i].id)
         IN  /\ \A k \in 1..messages[i].len : \E b \in bytes : wire[b].at = k
             /\ \A b \in bytes : wire[b].at \in 1..messages[i].len
             /\ \A b, c \in bytes : b < c => wire[b].at < wire[c].at
             /\ \A b \in bytes : b <= Len(wire) - unacked - confirmed']_vars

(* However the payload of the peer's frames is cut into segments, the      *)
(* application is handed it in order, each byte once and with its          *)
(* position, and all of a data frame before anything that comes later; of  *)
(* a control frame, of which it should see nothing (AsyncWebSocket.h:55),  *)
(* it is handed the pieces that come before the last, and never the last.  *)
IsData(x) == x.op \in {"text", "continuation"}
HandedInOrder ==
  \A i \in DOMAIN handed :
    LET prev == handed[i - 1]
    IN  /\ IF i = 1 THEN handed[1].at = 1
           ELSE IF handed[i].frame = prev.frame THEN handed[i].at = prev.at + 1
           ELSE /\ handed[i].at = 1 /\ handed[i].frame > prev.frame
                /\ IsData(prev) => prev.at = prev.len
        /\ ~IsData(handed[i]) => handed[i].at < handed[i].len

(* What is queued leaves the queue in the end, or the connection does,     *)
(* unless acknowledgements have gone to the wrong event or message.        *)
Overtaken ==
  LET starts == {i \in DOMAIN wire : EventAt(i) /\ wire[i][3] = 1}
  IN  \E i \in starts : \E e \in 1..(wire[i][2] - 1) :
        accepted[e] > 0 /\ ~\E j \in starts : j < i /\ wire[j][2] = e
Pending ==
  \/ events # <<>> /\ ~Overtaken
  \/ (messages # <<>> \/ controls # <<>>) /\ stray = {}
Drains == Pending ~> ~Pending
=============================================================================
