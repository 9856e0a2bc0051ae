---------------------------- MODULE SocketServer ----------------------------
(***************************************************************************)
(* An AsyncWebSocket with its clients, for two tasks: the application      *)
(* calls it from the loop, and the task of AsyncTCP runs the callbacks of  *)
(* the clients, in which the application may call it too.  AsyncWebLock    *)
(* protects the list of buffers and nothing else: a task reads the counter *)
(* of a buffer and writes it in two steps.  Two things are finer in the    *)
(* code: a list is changed and searched in several unlocked steps, and a   *)
(* client may come or go while textAll() is at its loop over the clients,  *)
(* which then goes on from a node that is freed.  How a client sends its   *)
(* frames is in WebSocket.                                                 *)
(***************************************************************************)
EXTENDS Integers, Sequences, SequencesExt

CONSTANTS
  ClientQueueLimit,  \* WS_MAX_QUEUED_MESSAGES
  MaxClients,        \* the argument of cleanupClients()
  Ids,               \* bound: the clients, numbered from 1
  Calls,             \* bound: how often the application may call in each task, other
                     \* than cleanupClients(), and how many clients join
  Waiting            \* bound: control frames that wait for a client

ASSUME ServerAssumption ==
  /\ ClientQueueLimit \in Nat \ {0} /\ MaxClients \in Nat
  /\ Ids \in Nat /\ Calls \subseteq [{"app", "tcp", "join"} -> Nat] /\ Waiting \in Nat

VARIABLES
  clients,     \* _clients
  client,      \* what there is of each client
  bufferList,  \* _buffers
  guard,       \* the task that holds the AsyncWebLock, or "none"
  task,        \* what the tasks "app" and "tcp" are doing
  calls,       \* what is left of Calls; the loop numbers its buffers by that
  early,       \* history: buffers found deletable before textAll() had locked them
  count,       \* _count of each buffer
  counting,    \* what is left for a task to do to the counters, and what it has read
  miscounted   \* history: buffers whose counter both tasks were changing at once

counters == <<count, counting, miscounted>>
serverVars == <<clients, client, bufferList, guard, task, calls, early, counters>>

Tasks == {"app", "tcp"}
NotRead == -1

Idle == [pc |-> "idle", of |-> 0, rest |-> <<>>, sure |-> FALSE]
NoClient == [status |-> "none", messages |-> <<>>, controls |-> <<>>]

ServerStart(left) ==
  /\ clients = <<>> /\ client = [id \in 1..Ids |-> NoClient]
  /\ bufferList = <<>> /\ guard = "none"
  /\ task = [t \in Tasks |-> Idle]
  /\ calls = left /\ early = {}
  /\ count = [b \in 1..left["app"] |-> 0]
  /\ counting = [t \in Tasks |-> [due |-> <<>>, read |-> NotRead]]
  /\ miscounted = {}

ServerInit == \E left \in Calls : ServerStart(left)

-----------------------------------------------------------------------------
(* The list, LinkedList<T>: its values in order, a predicate as a set *)

Add(list, x) == Append(list, x)
Taken(list, x) == RemoveFirst(list, x)
RemoveFirstIf(list, those) == RemoveFirstMatch(list, LAMBDA x : x \in those)
CountIf(list, those) == Cardinality({i \in DOMAIN list : list[i] \in those})

(* AsyncWebLock::lock() and unlock(), by AsyncWebLockGuard *)
Take(t) == guard = "none" /\ guard' = t
Give(t) == guard = t /\ guard' = "none"

-----------------------------------------------------------------------------
(* The counter of a buffer: ++ when a message of it is made, -- when the   *)
(* message is deleted, neither of them protected.                          *)

Up(b) == <<[buffer |-> b, up |-> TRUE]>>

(* The messages of a list are deleted; a copied text is in buffer 0. *)
Down(messages) == [i \in DOMAIN messages |-> [buffer |-> messages[i].buffer, up |-> FALSE]]

Counted(t) == counting[t].due = <<>>
Counts(t, due) ==
  counting' = [counting EXCEPT ![t] = [due |-> due, read |-> NotRead]] /\ UNCHANGED <<count, miscounted>>

(* Task t is between reading the counter of b and writing it. *)
At(t, b) == counting[t].read # NotRead /\ counting[t].due[1].buffer = b

CountReads(t) ==
  /\ ~Counted(t) /\ counting[t].read = NotRead
  /\ \E b \in {counting[t].due[1].buffer} :
       /\ b # 0
       /\ counting' = [counting EXCEPT ![t].read = count[b]]
       /\ miscounted' = IF \E u \in Tasks : At(u, b) THEN miscounted \cup {b} ELSE miscounted
  /\ UNCHANGED <<clients, client, bufferList, guard, task, calls, early, count>>

(* A counter that has been read as zero is not counted down. *)
CountWrites(t) ==
  /\ counting[t].read # NotRead
  /\ LET n == counting[t].read
     IN  count' = [count EXCEPT ![counting[t].due[1].buffer] =
                     IF counting[t].due[1].up THEN n + 1 ELSE IF n > 0 THEN n - 1 ELSE @]
  /\ counting' = [counting EXCEPT ![t] = [due |-> Tail(@.due), read |-> NotRead]]
  /\ UNCHANGED <<clients, client, bufferList, guard, task, calls, early, miscounted>>

(* A text that was copied has no counter. *)
CountSkips(t) ==
  /\ ~Counted(t) /\ counting[t].due[1].buffer = 0
  /\ counting' = [counting EXCEPT ![t].due = Tail(@)]
  /\ UNCHANGED <<clients, client, bufferList, guard, task, calls, early, count, miscounted>>

-----------------------------------------------------------------------------
(* AsyncWebSocketClient *)

Connected(id) == client[id].status = "connected"

(* Mutant: one message more than there is room for. *)
QueueIsFullLate(id) == Len(client[id].messages) > ClientQueueLimit \/ ~Connected(id)

(* queueIsFull() *)
QueueIsFull(id) == Len(client[id].messages) >= ClientQueueLimit \/ ~Connected(id)

(* _runQueue() takes the messages in front that have been acknowledged     *)
(* away, and deletes them.                                                 *)
FirstLeft(messages) == Min({i \in DOMAIN messages : ~messages[i].done} \cup {Len(messages) + 1})
Ran(messages) == SubSeq(messages, FirstLeft(messages), Len(messages))
Over(messages) == SubSeq(messages, 1, FirstLeft(messages) - 1)

(* _queueMessage(), which runs the queue if the connection has room; what  *)
(* finds no place is deleted.                                              *)
Fresh(buffer) == [buffer |-> buffer, done |-> FALSE]
WithMessage(c, buffer) ==
  IF Len(c.messages) < ClientQueueLimit THEN Add(c.messages, Fresh(buffer)) ELSE c.messages
Refused(c, buffer) ==
  IF c.status = "connected" /\ Len(c.messages) < ClientQueueLimit THEN <<>> ELSE <<Fresh(buffer)>>

Enqueue(t, id, buffer) ==
  LET c == client[id]
      add == WithMessage(c, buffer)
  IN  \/ /\ ~Connected(id) /\ UNCHANGED client
         /\ Counts(t, Down(Refused(c, buffer)))
      \/ /\ Connected(id)
         /\ client' = [client EXCEPT ![id].messages = add]
         /\ Counts(t, Down(Refused(c, buffer)))
      \/ /\ Connected(id)
         /\ client' = [client EXCEPT ![id].messages = Ran(add)]
         /\ Counts(t, Down(Refused(c, buffer) \o Over(add)))

(* _queueControl() *)
MayControl(id) == Len(client[id].controls) < Waiting
EnqueueControl(t, id, c, op) ==
  \/ /\ client' = [client EXCEPT ![id] = [c EXCEPT !.controls = Add(@, op)]]
     /\ UNCHANGED counters
  \/ /\ client' = [client EXCEPT ![id] = [c EXCEPT !.controls = Add(@, op), !.messages = Ran(@)]]
     /\ Counts(t, Down(Over(c.messages)))

-----------------------------------------------------------------------------
(* Buffers *)

(* However it is constructed, a buffer has no user and is not locked. *)
NewBuffer == calls["app"]

(* Where textAll() holds the lock of its buffer *)
Holding == {"locked", "texting", "made one"}

(* Mutant: a buffer that is locked can be deleted. *)
CanDeleteLocked(b) == count[b] = 0

(* AsyncWebSocketMessageBuffer::canDelete() *)
CanDelete(b) == count[b] = 0 /\ ~(task["app"].pc \in Holding /\ task["app"].of = b)

(* _cleanBuffers(): the lock, a turn of the loop for each buffer, and the  *)
(* end.  A buffer that is removed takes its node with it, from which the   *)
(* loop goes on: what it finds there is the next node, or no more.         *)
CleanStarts(t) ==
  /\ task[t].pc = "clean" /\ Take(t)
  /\ task' = [task EXCEPT ![t].pc = "cleaning", ![t].rest = bufferList]
  /\ UNCHANGED <<clients, client, bufferList, calls, early, counters>>

CleanLooks(t) ==
  /\ task[t].pc = "cleaning" /\ task[t].rest # <<>>
  /\ LET b == Head(task[t].rest)
     IN  \/ /\ ~CanDelete(b)
            /\ task' = [task EXCEPT ![t].rest = Tail(@)] /\ UNCHANGED early
         \/ /\ CanDelete(b)
            /\ task' = [task EXCEPT ![t].pc = "removing"]
            /\ early' = IF task["app"].pc = "made" /\ task["app"].of = b THEN early \cup {b} ELSE early
  /\ UNCHANGED <<clients, client, bufferList, guard, calls, counters>>

CleanRemoves(t) ==
  /\ task[t].pc = "removing"
  /\ bufferList' = Taken(bufferList, Head(task[t].rest))
  /\ \E rest \in {Tail(task[t].rest), <<>>} :
       task' = [task EXCEPT ![t].pc = "cleaning", ![t].rest = rest]
  /\ UNCHANGED <<clients, client, guard, calls, early, counters>>

CleanEnds(t) ==
  /\ task[t].pc = "cleaning" /\ task[t].rest = <<>> /\ Give(t)
  /\ task' = [task EXCEPT ![t] = IF t = "app" THEN Idle ELSE [@ EXCEPT !.pc = "run"]]
  /\ UNCHANGED <<clients, client, bufferList, calls, early, counters>>

-----------------------------------------------------------------------------
(* The calls of the application *)

(* count() *)
ConnectedCount == CountIf(clients, {id \in 1..Ids : Connected(id)})

(* What the loops over the clients reach, and client(id) *)
InList(id) == \E i \in DOMAIN clients : clients[i] = id
Found(id) == InList(id) /\ Connected(id)

IsIdle(t) == task[t].pc = "idle" /\ Counted(t)
Called(t) == IsIdle(t) /\ calls[t] > 0 /\ calls' = [calls EXCEPT ![t] = @ - 1]

(* text() and binary() of a string that the client copies; the loop of     *)
(* textAll() over the clients, for a string in the flash, is such a call   *)
(* for each of them, as is that of pingAll() and closeAll() below.         *)
Text(id) ==
  /\ Called("app") /\ Found(id) /\ Enqueue("app", id, 0)
  /\ UNCHANGED <<clients, bufferList, guard, task, early>>

(* ping() and close(): the client stays connected. *)
Control(id) ==
  /\ Called("app") /\ Found(id) /\ MayControl(id)
  /\ \E op \in {"ping", "close"} : EnqueueControl("app", id, client[id], op)
  /\ UNCHANGED <<clients, bufferList, guard, task, early>>

(* cleanupClients(): the client that came first is asked to go, once more  *)
(* if it has been asked before, and in vain if it is going by itself.      *)
(* Bound: it is called when the other calls have been made.                *)
CleanupClients ==
  /\ IsIdle("app") /\ calls["app"] = 0 /\ ConnectedCount > MaxClients
  /\ Connected(Head(clients)) /\ MayControl(Head(clients))
  /\ EnqueueControl("app", Head(clients), client[Head(clients)], "close")
  /\ UNCHANGED <<clients, bufferList, guard, task, calls, early>>

(* availableForWriteAll() *)
AvailableForWriteAll == \A i \in DOMAIN clients : ~QueueIsFull(clients[i])

(* textAll(), binaryAll(), printfAll(): makeBuffer(), after the application *)
(* may have asked whether there is room,                                   *)
MakeBuffer ==
  /\ Called("app") /\ guard = "none" /\ UNCHANGED guard
  /\ bufferList' = Add(bufferList, NewBuffer)
  /\ task' = [task EXCEPT !["app"] = [pc |-> "made", of |-> NewBuffer, rest |-> <<>>,
                                      sure |-> AvailableForWriteAll]]
  /\ UNCHANGED <<clients, client, early, counters>>

(* lock(),                                                                 *)
LockBuffer ==
  /\ task["app"].pc = "made" /\ task' = [task EXCEPT !["app"].pc = "locked"]
  /\ UNCHANGED <<clients, client, bufferList, guard, calls, early, counters>>

(* a turn for each client: a message, if it is connected, which is counted *)
(* and then queued;                                                        *)
TextAll ==
  /\ task["app"].pc = "locked"
  /\ task' = [task EXCEPT !["app"].pc = "texting", !["app"].rest = clients]
  /\ UNCHANGED <<clients, client, bufferList, guard, calls, early, counters>>

TextPasses ==
  /\ task["app"].pc = "texting" /\ Counted("app") /\ task["app"].rest # <<>>
  /\ ~Connected(Head(task["app"].rest)) /\ task' = [task EXCEPT !["app"].rest = Tail(@)]
  /\ UNCHANGED <<clients, client, bufferList, guard, calls, early, counters>>

MakeMessage ==
  /\ task["app"].pc = "texting" /\ Counted("app") /\ task["app"].rest # <<>>
  /\ Connected(Head(task["app"].rest)) /\ task' = [task EXCEPT !["app"].pc = "made one"]
  /\ Counts("app", Up(task["app"].of))
  /\ UNCHANGED <<clients, client, bufferList, guard, calls, early>>

TextQueues ==
  /\ task["app"].pc = "made one" /\ Counted("app")
  /\ task' = [task EXCEPT !["app"].pc = "texting", !["app"].rest = Tail(@)]
  /\ Enqueue("app", Head(task["app"].rest), task["app"].of)
  /\ UNCHANGED <<clients, bufferList, guard, calls, early>>

(* unlock() and _cleanBuffers()                                            *)
UnlockBuffer ==
  /\ task["app"].pc = "texting" /\ Counted("app") /\ task["app"].rest = <<>>
  /\ task' = [task EXCEPT !["app"].pc = "clean"]
  /\ UNCHANGED <<clients, client, bufferList, guard, calls, early, counters>>

-----------------------------------------------------------------------------
(* The callbacks of the clients, on the task of AsyncTCP *)

(* Nobody goes over the clients: see above. *)
NoLoop == task["app"].pc \notin {"texting", "made one"}

(* The constructor takes the next id and joins the list. *)
Join(id) ==
  /\ IsIdle("tcp") /\ NoLoop
  /\ client[id].status = "none" /\ \A k \in 1..(id - 1) : client[k].status # "none"
  /\ calls["join"] > 0 /\ calls' = [calls EXCEPT !["join"] = @ - 1]
  /\ clients' = Add(clients, id)
  /\ client' = [client EXCEPT ![id].status = "connected"]
  /\ UNCHANGED <<bufferList, guard, task, early, counters>>

(* _handleDisconnect(), and the destructor: what is queued is deleted, and *)
(* nothing cleans the buffers.                                             *)
Leave(id) ==
  /\ NoLoop /\ clients' = RemoveFirstIf(clients, {id})
  /\ client' = [client EXCEPT ![id] = [NoClient EXCEPT !.status = "gone"]]
  /\ Counts("tcp", Down(client[id].messages))
  /\ UNCHANGED <<bufferList, guard, task, calls, early>>

Disconnect(id) == IsIdle("tcp") /\ InList(id) /\ Leave(id)

(* The handler of the application answers a client. *)
Answer(id) ==
  /\ Called("tcp") /\ InList(id) /\ Enqueue("tcp", id, 0)
  /\ task' = [task EXCEPT !["app"].sure = FALSE]
  /\ UNCHANGED <<clients, bufferList, guard, early>>

(* _onData() of a close frame *)
PeerCloses(id) ==
  /\ IsIdle("tcp") /\ InList(id)
  /\ \/ /\ Connected(id)
        /\ EnqueueControl("tcp", id, [client[id] EXCEPT !.status = "disconnecting"], "close")
        /\ UNCHANGED <<clients, bufferList, guard, task, calls, early>>
     \/ ~Connected(id) /\ Leave(id)

(* _onAck() of the control frame in front, the message in front or both:   *)
(* then the buffers are cleaned and the queue is run.  Parts are left out. *)
Ack(id, control, message) ==
  LET c == client[id]
      closes == control /\ c.status = "disconnecting" /\ c.controls[1] = "close"
      acked == [c EXCEPT !.controls = IF control THEN Tail(@) ELSE @,
                         !.messages = IF message THEN [@ EXCEPT ![1].done = TRUE] ELSE @]
  IN  /\ IsIdle("tcp") /\ InList(id) /\ (control \/ message)
      /\ control => c.controls # <<>>
      /\ message => c.messages # <<>>
      /\ \/ closes /\ Leave(id)
         \/ /\ ~closes /\ client' = [client EXCEPT ![id] = acked]
            /\ task' = [task EXCEPT !["tcp"] = [Idle EXCEPT !.pc = "clean", !.of = id]]
            /\ UNCHANGED <<clients, bufferList, guard, calls, early, counters>>

AckRuns ==
  /\ task["tcp"].pc = "run" /\ task' = [task EXCEPT !["tcp"] = Idle]
  /\ LET c == client[task["tcp"].of]
     IN  /\ client' = [client EXCEPT ![task["tcp"].of].messages = Ran(@)]
         /\ Counts("tcp", Down(Over(c.messages)))
  /\ UNCHANGED <<clients, bufferList, guard, calls, early>>

-----------------------------------------------------------------------------
Counting(t) == CountReads(t) \/ CountWrites(t) \/ CountSkips(t)
Clean(t) == CleanStarts(t) \/ CleanLooks(t) \/ CleanRemoves(t) \/ CleanEnds(t)
TextGoes == LockBuffer \/ TextAll \/ TextPasses \/ MakeMessage \/ TextQueues \/ UnlockBuffer
Goes(t) == Counting(t) \/ Clean(t) \/ (t = "app" /\ TextGoes) \/ (t = "tcp" /\ AckRuns)

ServerNext ==
  \/ MakeBuffer \/ CleanupClients
  \/ \E t \in Tasks : Goes(t)
  \/ \E id \in 1..Ids :
       \/ Text(id) \/ Control(id)
       \/ Join(id) \/ Disconnect(id) \/ Answer(id) \/ PeerCloses(id)
       \/ \E control, message \in BOOLEAN : Ack(id, control, message)

(* Both tasks run and get the semaphore they wait for, the application     *)
(* calls cleanupClients() again and again, and a peer acknowledges what it *)
(* gets; nothing makes it answer a close frame.                            *)
ServerFairness ==
  /\ \A t \in Tasks : SF_serverVars(Goes(t))
  /\ SF_serverVars(CleanupClients)
  /\ \A id \in 1..Ids : SF_serverVars(Ack(id, TRUE, FALSE))

-----------------------------------------------------------------------------
(* No message refers to a buffer that has been deleted, nor does a task    *)
(* count in one, although the lock is not held when messages come and go:  *)
(* but for a buffer that was looked at after makeBuffer() and before       *)
(* textAll() had locked it, and for one whose counter both tasks changed   *)
(* at once, of which an update may be lost.                                *)
BuffersHeld ==
  LET alive == {0} \cup early \cup miscounted \cup {bufferList[k] : k \in DOMAIN bufferList}
  IN  /\ \A id \in 1..Ids : \A i \in DOMAIN client[id].messages : client[id].messages[i].buffer \in alive
      /\ \A t \in Tasks : \A i \in DOMAIN counting[t].due : counting[t].due[i].buffer \in alive

(* What textAll() sends after availableForWriteAll() has said yes reaches  *)
(* every client that is connected when its turn comes, whoever has come or *)
(* gone or been acknowledged in between, unless a handler has answered a   *)
(* client.                                                                 *)
BroadcastsReach ==
  [][task["app"].pc \in {"texting", "made one"} /\ task["app"].sure /\ task'["app"].rest # task["app"].rest =>
       \E id \in {Head(task["app"].rest)} : Connected(id) =>
         \E i \in DOMAIN client'[id].messages : client'[id].messages[i].buffer = task["app"].of]_serverVars

(* cleanupClients() limits the number of clients, as its documentation     *)
(* says: too many are not for ever, once the application has nothing to    *)
(* call but it.                                                            *)
Crowded == calls["app"] = 0 /\ ConnectedCount > MaxClients
LimitsClients == Crowded ~> ~Crowded
=============================================================================
