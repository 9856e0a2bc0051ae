---------------------------- MODULE EventSource ----------------------------
(***************************************************************************)
(* One client of an AsyncEventSource: the head of the response, the queue  *)
(* of events, and the acknowledgements that are credited to them.  An      *)
(* event goes out whole or not at all.  The calls of the application run   *)
(* on the task of AsyncTCP, in one of its callbacks.                       *)
(***************************************************************************)
EXTENDS ClientStream

CONSTANTS
  EventQueueLimit,  \* SSE_MAX_QUEUED_MESSAGES
  EventLengths,     \* the lengths of the events that are published
  EventHead         \* the length of the response

ASSUME EventAssumption ==
  EventQueueLimit \in Nat \ {0} /\ EventLengths \subseteq 1..SndBuf /\ EventHead \in 1..SndBuf

VARIABLES
  source,    \* asked, waiting for the head to be acknowledged, open or gone
  events,    \* _messageQueue; `event' numbers the calls of send()
  publish,   \* bound: how often the application may yet call send()
  accepted,  \* history: the lengths of the events that were queued
  ahead      \* history: how much of the head was yet to be acknowledged when the client
             \* was made, and is credited to its events

eventVars == <<source, events, publish, accepted, ahead>>

EventInit(n) ==
  source = "asked" /\ events = <<>> /\ publish = n /\ accepted = <<>> /\ ahead = 0

EventBytes(m) == [i \in 1..m.len |-> <<"event", m.event, i>>]

(* handleRequest() and AsyncEventSourceResponse::_respond() *)
EventRequest(admitted) ==
  /\ source = "asked" /\ confirmed' = confirmed
  /\ \/ ~admitted /\ source' = "refused" /\ NoWrite
     \/ /\ admitted /\ source' = "waiting"
        /\ LET head == [i \in 1..EventHead |-> <<"head", i>>]
           IN  \E o \in Outcomes(head) : Write(head, o)
  /\ UNCHANGED <<events, publish, accepted, ahead>>

-----------------------------------------------------------------------------
(* AsyncEventSourceMessage *)

EventFinished(m) == m.acked = m.len

(* ack(): what is left over is for the next event. *)
Credit(m, n) == Least(n, m.len - m.acked)
Credited(queue, n) ==
  LET left[i \in 0..Len(queue)] ==
        IF i = 0 THEN n ELSE left[i - 1] - Credit(queue[i], left[i - 1])
  IN  [i \in DOMAIN queue |-> [queue[i] EXCEPT !.acked = @ + Credit(queue[i], left[i - 1])]]

(* Mutant: an event goes out if there is any room at all. *)
FitsCut(m, out) == Len(out) < Space

(* send() of one event, which goes out whole or not at all *)
Fits(m, out) == Len(out) + m.len <= Space

(* One turn of the loop of _runQueue(): an event that is not sent is, if   *)
(* there is room for it, whether or not one before it had to stay.         *)
SendOne(r, i, failing) ==
  IF ~r.queue[i].sent /\ i # failing /\ Fits(r.queue[i], r.out)
    THEN [queue |-> [r.queue EXCEPT ![i].sent = TRUE], out |-> r.out \o EventBytes(r.queue[i])]
    ELSE r

RunLoop(queue, failing) ==
  LET turn[i \in 0..Len(queue)] ==
        IF i = 0 THEN [queue |-> queue, out |-> <<>>] ELSE SendOne(turn[i - 1], i, failing)
  IN  turn[Len(queue)]

(* add() is called for such an event, and may fail for one of them. *)
MayFail(queue) == {i \in DOMAIN queue : ~queue[i].sent /\ RunLoop(queue, 0).queue[i].sent}

(* _runQueue(), after `failed' calls have failed: an event that add() did  *)
(* not take stays; what send() returns is not looked at.                   *)
RunEvents(queue, failed) ==
  \E rest \in {Remaining(queue, EventFinished)} :
    \E failing \in {0} \cup (IF faults + failed < Faults THEN MayFail(rest) ELSE {}) :
      \E ran \in {RunLoop(rest, failing)} :
        /\ events' = ran.queue
        /\ wire' = wire \o SubSeq(ran.out, 1, Least(Space, Len(ran.out)))
        /\ unacked' = unacked + Least(Space, Len(ran.out))
        /\ faults' = faults + failed + (IF failing = 0 THEN 0 ELSE 1)
        /\ lost' = lost \cup (IF failing = 0 THEN {} ELSE {"memory"})
        /\ UNCHANGED connected

-----------------------------------------------------------------------------
(* AsyncEventSourceClient *)

(* An event that there is no memory for is queued without its text. *)
NewEvent(len, failing) ==
  LET m == [event |-> Len(accepted) + 1, len |-> len, sent |-> FALSE, acked |-> 0]
  IN  IF failing THEN [m EXCEPT !.len = 0, !.sent = TRUE] ELSE m

(* _queueMessage() *)
QueueEvent(len, failing) ==
  LET room == Len(events) < EventQueueLimit
      m == NewEvent(len, failing)
      queue == IF room THEN Append(events, m) ELSE events
      failed == IF failing THEN 1 ELSE 0
  IN  /\ faults + failed <= Faults
      /\ accepted' = IF room THEN Append(accepted, m.len) ELSE accepted
      /\ \/ Space > 0 /\ RunEvents(queue, failed)
         \/ /\ Space = 0 /\ events' = queue
            /\ IF failing THEN OutOfMemory ELSE NoWrite

(* AsyncEventSource::send(), which writes to every client of its list that *)
(* is connected, and so to this one; or send() of the client alone         *)
SendEvent(len, failing) ==
  /\ source = "open" /\ connected /\ publish > 0 /\ publish' = publish - 1
  /\ QueueEvent(len, failing)
  /\ UNCHANGED <<source, confirmed, ahead>>

(* The first acknowledgement makes the client, which joins the list, and   *)
(* is used up by it.                                                       *)
AddClient == source = "waiting" /\ source' = "open"
EventOpens ==
  /\ AddClient
  /\ \E n \in Sent : TakeAcks(n)
  /\ ahead' = unacked + confirmed'
  /\ NoWrite /\ UNCHANGED <<events, publish, accepted>>

(* _onAck() *)
EventAck ==
  /\ source = "open"
  /\ UNCHANGED <<source, publish, accepted, ahead>>
  /\ \E n \in Sent : TakeAcks(n) /\ RunEvents(Credited(events, n), 0)

EventPoll ==
  /\ source = "open" /\ connected /\ events # <<>>
  /\ UNCHANGED <<source, confirmed, publish, accepted, ahead>>
  /\ RunEvents(events, 0)

(* _handleDisconnect(): the client leaves the list and is deleted, after   *)
(* close() by the client or by the source, which closes all that are       *)
(* connected, after a timeout for want of an acknowledgement or when the   *)
(* peer has ended the connection.                                          *)
EventsEnd ==
  /\ source \in {"waiting", "open"} /\ CloseStream /\ confirmed' = 0
  /\ source' = "gone" /\ events' = <<>> /\ UNCHANGED <<publish, accepted, ahead>>

EventNext ==
  \/ \E admitted \in BOOLEAN : EventRequest(admitted)
  \/ \E len \in EventLengths, failing \in BOOLEAN : SendEvent(len, failing)
  \/ EventOpens \/ EventAck \/ EventPoll \/ EventsEnd
  \/ PeerAcks /\ UNCHANGED eventVars
=============================================================================
