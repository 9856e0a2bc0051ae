----------------------------- MODULE WebSocket -----------------------------
(***************************************************************************)
(* One client of an AsyncWebSocket: the handshake, the queues of messages  *)
(* and of control frames, the acknowledgements that are credited to them,  *)
(* the frames of the peer, and closing from either side.  The calls of the *)
(* application run on the task of AsyncTCP, in one of its callbacks; other *)
(* tasks, other clients and the buffers they share are in SocketServer.    *)
(***************************************************************************)
EXTENDS ClientStream, Integers

CONSTANTS
  SocketQueueLimit,  \* WS_MAX_QUEUED_MESSAGES
  MessageLengths,    \* the lengths of the messages the application sends
  ShortFrame,        \* 125: a frame that is longer has a longer header
  SocketHead,        \* the length of the response
  Scenarios,         \* what happens on a connection: what the peer sends, how many
                     \* messages, control frames or events the server starts, and how
                     \* many calls fail
  Messages, Controls \* bounds of these numbers

ASSUME SocketAssumption ==
  /\ SocketQueueLimit \in Nat \ {0} /\ MessageLengths \subseteq Nat
  /\ SocketHead \in 1..SndBuf /\ SndBuf > 10
  /\ ShortFrame \in Nat /\ Messages \in Nat /\ Controls \in Nat
  /\ \A s \in Scenarios :
       /\ s.messages \in 0..Messages /\ s.controls \in 0..Controls /\ s.faults \in 0..Faults

VARIABLES
  status,    \* of the client; before that, of the handshake
  messages,  \* _messageQueue
  controls,  \* _controlQueue
  input,     \* symbols of the peer that have not arrived
  segment,   \* what is left of the segment that _onData() is working on
  frame,     \* _pinfo, and _pstate
  made,      \* messages and control frames so far, which numbers them
  handed,    \* history: what WS_EVT_DATA has given the application
  stray      \* history: why acknowledgements may be credited wrongly

socketVars == <<status, messages, controls, input, segment, frame,
                made, handed, stray>>

(* A frame of the peer is a symbol for its header, at 0, and one for each   *)
(* byte of its payload.  A header is not split over segments: the code     *)
(* would read behind the first of them.  The fields that only describe a   *)
(* frame to the application (num, final, message_opcode) are left out.     *)
Symbol ==
  [frame : Nat, op : {"text", "continuation", "ping", "pong", "close"}, len : Nat, at : Nat]

(* One frame follows the other, whole but for the first and the last. *)
Framed(symbols) ==
  \A i, j \in DOMAIN symbols : i <= j =>
    LET x == symbols[i]
        y == symbols[j]
        at == x.at + j - i
    IN  /\ at <= x.len => y = [frame |-> x.frame, op |-> x.op, len |-> x.len, at |-> at]
        /\ at > x.len => y.frame > x.frame
        /\ at = x.len + 1 => y.at = 0

ASSUME PeerAssumption ==
  \A s \in Scenarios :
    s.peer \in Seq(Symbol) /\ Framed(s.peer) /\ (s.peer # <<>> => s.peer[1].at = 0)

NoFrame == [open |-> FALSE, op |-> "text", len |-> 0, index |-> 0]

SocketInit(s) ==
  /\ status = "asked" /\ messages = <<>> /\ controls = <<>>
  /\ input = s.peer /\ segment = <<>> /\ frame = NoFrame
  /\ made = [messages |-> Messages - s.messages, controls |-> Controls - s.controls]
  /\ handed = <<>> /\ stray = {}

-----------------------------------------------------------------------------
(* Frames *)

HeaderLength(n) == IF n > ShortFrame THEN 4 ELSE 2
Header(op, final, n) == [i \in 1..HeaderLength(n) |-> [op |-> op, final |-> final, len |-> n]]

(* webSocketSendFrameWindow() *)
FrameWindow == IF Space < 9 THEN 0 ELSE Space - 8

(* webSocketSendFrame() of a frame that fits: what reaches lwIP, and what  *)
(* it returns; without memory, nothing, the header or all, but 0.          *)
FrameOutcomes(header, data) ==
  LET full == header \o data
  IN  {[out |-> full, ret |-> Len(data), fault |-> 0]} \cup
      {[out |-> x, ret |-> 0, fault |-> 1] : x \in {<<>>, header, full}}

SendFrame(o, why) ==
  /\ faults' = faults + o.fault /\ faults' <= Faults
  /\ wire' = wire \o o.out /\ unacked' = unacked + Len(o.out)
  /\ stray' = stray \cup why \cup (IF o.fault = 1 THEN {"fault"} ELSE {})
  /\ UNCHANGED <<connected, lost>>

-----------------------------------------------------------------------------
(* AsyncWebSocketBasicMessage and AsyncWebSocketMultiMessage *)

NewMessage(len, multi) ==
  [id |-> made.messages + 1, len |-> len, multi |-> multi,
   sent |-> 0, ack |-> 0, acked |-> 0, state |-> "sending"]

BetweenFrames(m) == m.acked = m.ack
MessageFinished(m) == m.state # "sending"

(* Mutant: a message is sent as soon as all of it has been written. *)
MessageAckEarly(m, n) ==
  LET a == [m EXCEPT !.acked = @ + n]
  IN  IF a.sent = a.len THEN [a EXCEPT !.state = "sent"] ELSE a

(* ack(); `acked' below zero stands for a size_t that has wrapped around.  *)
BasicAcked(m) == m.sent = m.len /\ m.acked = m.ack
MultiAcked(m) == m.sent = m.len /\ (m.acked < 0 \/ m.acked >= m.ack)
MessageAck(m, n) ==
  LET a == [m EXCEPT !.acked = @ + n]
  IN  IF IF a.multi THEN MultiAcked(a) ELSE BasicAcked(a) THEN [a EXCEPT !.state = "sent"] ELSE a

Payload(m, n) == [i \in 1..n |-> [message |-> m.id, at |-> m.sent + i]]

(* send(), between frames: one frame, with what there is room for *)
MessageSend(rest, why) ==
  LET m == rest[1]
      n == Least(m.len - m.sent, FrameWindow)
      front(x) == messages' = <<x>> \o Tail(rest)
  IN  \/ /\ m.sent = m.len /\ front([m EXCEPT !.state = "sent"])
         /\ NoWrite /\ stray' = stray \cup why
      \/ /\ m.sent < m.len
         /\ \E o \in FrameOutcomes(Header(IF m.sent = 0 THEN "text" ELSE "continuation",
                                         m.sent + n = m.len, n), Payload(m, n)) :
              /\ SendFrame(o, why)
              /\ front([m EXCEPT !.sent = @ + o.ret, !.ack = @ + HeaderLength(n) + o.ret])

-----------------------------------------------------------------------------
(* AsyncWebSocketControl, and the queues *)

(* A control frame is never a long one. *)
NewControl(op, len) == [op |-> op, len |-> Least(len, ShortFrame), finished |-> FALSE]

(* AsyncWebSocketControl::len() *)
ControlLength(c) == c.len + 2

(* Whether the front of the control queue goes before the messages *)
ControlMayGo(rest, cs) ==
  /\ cs # <<>> /\ (rest # <<>> => BetweenFrames(rest[1]))
  /\ FrameWindow > ControlLength(cs[1]) - 1

(* _runQueue(); a control frame that has gone out but is not acknowledged  *)
(* is still the front of its queue, and goes out again; bound: once.       *)
RunQueue(ms, cs, why) ==
  \E rest \in {Remaining(ms, MessageFinished)} :
    LET again == ControlMayGo(rest, cs) /\ cs[1].finished
    IN  \/ /\ ControlMayGo(rest, cs) /\ messages' = rest
           /\ ~(again /\ "resent" \in stray)
           /\ controls' = <<[cs[1] EXCEPT !.finished = TRUE]>> \o Tail(cs)
           /\ \E o \in FrameOutcomes(Header(cs[1].op, TRUE, cs[1].len),
                                     [i \in 1..cs[1].len |-> [control |-> cs[1].op]]) :
                SendFrame(o, why \cup (IF again THEN {"resent"} ELSE {}))
        \/ /\ ~ControlMayGo(rest, cs) /\ controls' = cs
           /\ IF rest # <<>> /\ BetweenFrames(rest[1]) /\ FrameWindow > 0
                THEN MessageSend(rest, why)
                ELSE messages' = rest /\ NoWrite /\ stray' = stray \cup why

RunIfRoom(ms, cs) ==
  IF Space > 0 THEN RunQueue(ms, cs, {})
  ELSE messages' = ms /\ controls' = cs /\ NoWrite /\ UNCHANGED stray

(* _queueMessage() *)
QueueMessage(m) ==
  IF status # "connected" THEN UNCHANGED <<messages, controls, stray>> /\ NoWrite
  ELSE RunIfRoom(IF Len(messages) < SocketQueueLimit THEN Append(messages, m) ELSE messages, controls)

(* _queueControl() *)
QueueControl(op, len) == RunIfRoom(messages, Append(controls, NewControl(op, len)))

-----------------------------------------------------------------------------
(* The application *)

(* text() and binary(), of a copy or of a buffer of the server             *)
SendMessage ==
  /\ status = "connected" /\ made.messages < Messages
  /\ made' = [made EXCEPT !.messages = @ + 1]
  /\ \E len \in MessageLengths, multi \in BOOLEAN : QueueMessage(NewMessage(len, multi))
  /\ UNCHANGED <<confirmed, status, input, segment, frame, handed>>

(* Without memory for the copy the message is empty and in error; it is    *)
(* queued all the same.  Bound: not a fault among the others.              *)
SendFailsToCopy ==
  /\ status = "connected" /\ made.messages < Messages
  /\ made' = [made EXCEPT !.messages = @ + 1]
  /\ QueueMessage([NewMessage(0, FALSE) EXCEPT !.state = "error"])
  /\ UNCHANGED <<confirmed, status, input, segment, frame, handed>>

(* printf(), which needs memory for the text before it can be a message *)
PrintFails ==
  /\ status = "connected" /\ made.messages < Messages /\ OutOfMemory
  /\ made' = [made EXCEPT !.messages = @ + 1]
  /\ UNCHANGED <<confirmed, status, messages, controls, input, segment, frame, handed, stray>>

(* ping() and close(), after which the status is still WS_CONNECTED *)
SendControl ==
  /\ status = "connected" /\ made.controls < Controls
  /\ made' = [made EXCEPT !.controls = @ + 1]
  /\ QueueControl("ping", 1) \/ QueueControl("close", 0)
  /\ UNCHANGED <<confirmed, status, input, segment, frame, handed>>

-----------------------------------------------------------------------------
(* The handshake, and the end *)

(* handleRequest() and AsyncWebSocketResponse::_respond(): a version of 13 *)
(* and a key are needed, and credentials if the socket asks for them.      *)
SocketRequest(version, key, admitted) ==
  /\ status = "asked"
  /\ \/ /\ status' = IF version = 0 \/ ~key \/ (admitted /\ version # 13) THEN "400" ELSE "401"
        /\ version # 13 \/ ~key \/ ~admitted
        /\ NoWrite
     \/ /\ version = 13 /\ key /\ admitted /\ status' = "waiting"
        /\ LET head == [i \in 1..SocketHead |-> [head |-> i]]
           IN  \E o \in Outcomes(head) : Write(head, o)
  /\ UNCHANGED <<confirmed, messages, controls, input, segment, frame,
                 made, handed, stray>>

(* _onDisconnect(), or close(true): the client is deleted. *)
SocketGone ==
  /\ CloseStream /\ confirmed' = 0 /\ status' = "disconnected"
  /\ messages' = <<>> /\ controls' = <<>> /\ segment' = <<>> /\ input' = <<>>
  /\ UNCHANGED <<frame, made, handed, stray>>

Open == status \in {"connected", "disconnecting"}
SocketIdle == segment = <<>>

SocketEnds == (Open \/ status = "waiting") /\ SocketIdle /\ SocketGone

(* The first acknowledgement makes the client and is used up by it. *)
SocketOpens ==
  /\ status = "waiting" /\ status' = "connected"
  /\ \E n \in Sent : TakeAcks(n)
  /\ stray' = IF unacked + confirmed' > 0 THEN stray \cup {"head"} ELSE stray
  /\ NoWrite
  /\ UNCHANGED <<messages, controls, input, segment, frame, made, handed>>

(* Mutant: the control frame at the front takes all that is acknowledged.  *)
ForMessagesNone(n) == IF controls # <<>> /\ controls[1].finished THEN 0 ELSE n

(* What of n acknowledged bytes is for the message at the front *)
ForMessages(n) ==
  IF controls # <<>> /\ controls[1].finished THEN n - ControlLength(controls[1]) ELSE n

(* _onAck(); an acknowledgement of a part of a control frame wraps around, *)
(* and one that finds no message is lost.                                  *)
SocketAck ==
  /\ Open /\ SocketIdle
  /\ LET done == controls # <<>> /\ controls[1].finished
         closing == done /\ status = "disconnecting" /\ controls[1].op = "close"
     IN  \/ closing /\ confirmed > 0 /\ SocketGone
         \/ /\ ~closing
            /\ \E n \in Sent :
                 LET left == ForMessages(n)
                     ms == IF left # 0 /\ messages # <<>>
                             THEN <<MessageAck(messages[1], left)>> \o Tail(messages) ELSE messages
                 IN  /\ TakeAcks(n)
                     /\ RunQueue(ms, IF done THEN Tail(controls) ELSE controls,
                          IF left < 0 THEN {"partial"} ELSE {})
            /\ UNCHANGED <<status, input, segment, frame, made, handed>>

(* _onPoll() *)
SocketPoll ==
  /\ Open /\ SocketIdle /\ Space > 0 /\ (messages # <<>> \/ controls # <<>>)
  /\ RunQueue(messages, controls, {})
  /\ UNCHANGED <<confirmed, status, input, segment, frame, made, handed>>

-----------------------------------------------------------------------------
(* _onData() *)

SocketSegment ==
  /\ Open /\ SocketIdle
  /\ \E n \in 1..Len(input) :
       segment' = SubSeq(input, 1, n) /\ input' = SubSeq(input, n + 1, Len(input))
  /\ UNCHANGED <<stream, status, messages, controls, frame, made, handed, stray>>

(* Mutant: a frame that goes on in the next segment starts again. *)
ReadForgetting(f, n) == [f EXCEPT !.open = f.index + n < f.len]

(* The position in the frame after n more bytes of its payload *)
Read(f, n) == [f EXCEPT !.open = f.index + n < f.len, !.index = @ + n]

(* One turn of the loop: a header unless a frame is open, and as much of   *)
(* the payload as has arrived.  Until it is complete a frame is data to    *)
(* the application, whatever it is; a ping that is complete is answered    *)
(* with the piece of it that came last.                                    *)
SocketData ==
  /\ segment # <<>> /\ Open
  /\ LET f == IF frame.open THEN frame
             ELSE [open |-> TRUE, op |-> segment[1].op, len |-> segment[1].len, index |-> 0]
         after == IF frame.open THEN segment ELSE Tail(segment)
         n == Least(f.len - f.index, Len(after))
         data == SubSeq(after, 1, n)
         g == Read(f, n)
         isData == f.op \in {"text", "continuation"}
         step ==
           /\ frame' = g /\ segment' = SubSeq(after, n + 1, Len(after))
           /\ handed' = IF g.open \/ isData THEN handed \o data ELSE handed
           /\ UNCHANGED <<confirmed, input, made>>
     IN  \/ /\ g.open \/ f.op \notin {"close", "ping"}
            /\ step /\ NoWrite /\ UNCHANGED <<status, messages, controls, stray>>
         \/ /\ ~g.open /\ f.op = "ping" /\ step /\ UNCHANGED status
            /\ QueueControl("pong", n)
         \/ /\ ~g.open /\ f.op = "close" /\ status = "connected" /\ step
            /\ status' = "disconnecting" /\ QueueControl("close", n)
         \/ ~g.open /\ f.op = "close" /\ status = "disconnecting" /\ SocketGone

SocketNext ==
  \/ \E v \in {0, 8, 13}, key, admitted \in BOOLEAN : SocketRequest(v, key, admitted)
  \/ SocketOpens \/ SocketEnds \/ SocketAck \/ SocketPoll \/ SocketSegment \/ SocketData
  \/ SendMessage \/ SendFailsToCopy \/ PrintFails \/ SendControl
  \/ PeerAcks /\ UNCHANGED socketVars
=============================================================================
