----------------------------- MODULE ClosedSlots -----------------------------
(***************************************************************************)
(* How AsyncTCP keeps a task from calling lwIP for a pcb that the lwIP     *)
(* thread has closed in the meantime.  Each accepted client has a slot,    *)
(* which is marked when FIN closes its pcb; a call carries the pcb and the *)
(* slot, and is not made if the slot is marked.  The memory of a pcb is    *)
(* used again, and so are the slots, the one with the least mark first.    *)
(* Slots are handed out under a lock and in the lwIP thread, in one step   *)
(* here; they are given back without it in either thread, store by store.  *)
(***************************************************************************)
EXTENDS Naturals, FiniteSets

CONSTANTS
  Conns,    \* connections that are accepted
  Pcbs,     \* where lwIP keeps its pcbs, MEMP_NUM_TCP_PCB of them
  SlotCount, \* _number_of_closed_slots
  Free      \* memory that holds no pcb, and a client's _pcb that is NULL

Slots == 1..SlotCount
NoSlot == 0   \* -1 in the code

ASSUME SlotsAssumption == SlotCount \in Nat /\ Free \notin Conns \cup Pcbs

VARIABLES
  slots,    \* _closed_slots: 0 for a slot that is held
  index,    \* _closed_index
  slot,     \* _closed_slot of each client
  held,     \* _pcb of each client
  state,    \* whether the client exists: "none", "live" or "deleted"
  memory,   \* the connection whose pcb is kept at each place
  fate,     \* what became of a pcb: "none", "open", "fin", "error", "closed" by its
            \* own client or "robbed", by another's
  hooked,   \* connections whose pcb has their client as its tcp_arg
  lwip,     \* where the lwIP thread is in _lwip_fin()
  task,     \* where the task is in a call
  freeing,  \* where each thread is in _free_closed_slot()
  turns,    \* history: of the slots that were free before the slot of the call in
            \* progress was, those that have not been given out since
  raced     \* history: the two threads have been in _free_closed_slot() at once

slotVars == <<slots, index, slot, freeing, raced>>
lwipVars == <<held, state, memory, fate, hooked>>
vars == <<slotVars, lwipVars, lwip, task, turns>>

Threads == {"lwip", "task"}

Waiting == [pc |-> "idle", conn |-> Free, pcb |-> Free, slot |-> NoSlot, closes |-> FALSE]

Outside == [at |-> "out", conn |-> Free, index |-> 0]

Init ==
  /\ slots = [i \in Slots |-> 1] /\ index = 1
  /\ slot = [c \in Conns |-> NoSlot] /\ held = [c \in Conns |-> Free]
  /\ state = [c \in Conns |-> "none"]
  /\ memory = [p \in Pcbs |-> Free] /\ fate = [c \in Conns |-> "none"] /\ hooked = {}
  /\ lwip = [pc |-> "idle", conn |-> Free] /\ task = Waiting
  /\ freeing = [t \in Threads |-> Outside] /\ turns = {} /\ raced = FALSE

Marked == {i \in Slots : slots[i] # 0}

-----------------------------------------------------------------------------
(* _allocate_closed_slot(): of the slots with the least mark the last *)
Lowest(s) == \A i \in Marked : s <= i
Oldest(s) == \A i \in Marked : slots[s] < slots[i] \/ (slots[s] = slots[i] /\ i <= s)

Allocate(c) ==
  IF Marked = {} THEN UNCHANGED <<slots, slot>>
  ELSE \E s \in Marked :
         /\ Oldest(s)
         /\ slots' = [slots EXCEPT ![s] = 0] /\ slot' = [slot EXCEPT ![c] = s]

(* _free_closed_slot(): does the client have a slot?  The index is read.   *)
Frees(t, c) ==
  IF slot[c] = NoSlot THEN UNCHANGED <<freeing, raced>>
  ELSE /\ freeing' = [freeing EXCEPT ![t] = [at |-> "mark", conn |-> c, index |-> index]]
       /\ raced' = (raced \/ \E u \in Threads : freeing[u].at # "out")

(* The slot is marked: from here on it can be handed out. *)
StoresMark(t) ==
  LET f == freeing[t] IN
  /\ f.at = "mark"
  /\ slots' = [slots EXCEPT ![slot[f.conn]] = f.index]
  /\ freeing' = [freeing EXCEPT ![t].at = "clear"]
  /\ turns' = IF task.pc = "api" /\ task.conn = f.conn /\ f.index # 1 THEN Marked ELSE turns
  /\ UNCHANGED <<index, slot, raced>>

(* Mutant: the slot is not forgotten. *)
ClearsNothing(t) ==
  /\ freeing[t].at = "clear" /\ freeing' = [freeing EXCEPT ![t].at = "count"]
  /\ UNCHANGED <<slots, index, slot, raced, turns>>

(* The client forgets it; the compiler may read the index again, or not. *)
Clears(t) ==
  LET f == freeing[t] IN
  /\ f.at = "clear"
  /\ slot' = [slot EXCEPT ![f.conn] = NoSlot]
  /\ \E i \in {f.index, index} :
       freeing' = [freeing EXCEPT ![t] = [at |-> "count", conn |-> f.conn, index |-> i]]
  /\ UNCHANGED <<slots, index, raced, turns>>

(* ++ _closed_index, from what was read *)
Counts(t) ==
  /\ freeing[t].at = "count"
  /\ index' = freeing[t].index + 1
  /\ freeing' = [freeing EXCEPT ![t] = Outside]
  /\ UNCHANGED <<slots, slot, raced, turns>>

FreesOn(t) == (StoresMark(t) \/ Clears(t) \/ Counts(t)) /\ UNCHANGED <<lwipVars, lwip, task>>

-----------------------------------------------------------------------------
(* The lwIP thread *)

LwipIdle == lwip.pc = "idle"

(* AsyncServer::_accept() and the constructor of the client *)
Accept(c, p) ==
  /\ LwipIdle /\ state[c] = "none" /\ memory[p] = Free
  /\ state' = [state EXCEPT ![c] = "live"] /\ fate' = [fate EXCEPT ![c] = "open"]
  /\ memory' = [memory EXCEPT ![p] = c] /\ held' = [held EXCEPT ![c] = p]
  /\ hooked' = hooked \cup {c}
  /\ Allocate(c) /\ turns' = turns \ {slot'[c]}
  /\ UNCHANGED <<index, freeing, raced, lwip, task>>

(* _lwip_fin(): the pcb is closed, the slot is freed, _pcb is cleared. *)
FinCloses(c) ==
  /\ LwipIdle /\ fate[c] = "open" /\ c \in hooked /\ held[c] # Free
  /\ fate' = [fate EXCEPT ![c] = "fin"] /\ hooked' = hooked \ {c}
  /\ lwip' = [pc |-> "free", conn |-> c]
  /\ UNCHANGED <<slotVars, held, state, memory, task, turns>>

FinFrees ==
  /\ lwip.pc = "free"
  /\ Frees("lwip", lwip.conn)
  /\ lwip' = [lwip EXCEPT !.pc = "forget"]
  /\ UNCHANGED <<slots, index, slot, lwipVars, task, turns>>

FinForgets ==
  /\ lwip.pc = "forget" /\ freeing["lwip"].at = "out"
  /\ held' = [held EXCEPT ![lwip.conn] = Free]
  /\ lwip' = [pc |-> "idle", conn |-> Free]
  /\ UNCHANGED <<slotVars, state, memory, fate, hooked, task, turns>>

(* A pcb that is closed is freed when the peer has answered. *)
Forgotten(p) ==
  /\ LwipIdle /\ memory[p] \in Conns /\ fate[memory[p]] \in {"fin", "closed", "robbed"}
  /\ memory' = [memory EXCEPT ![p] = Free]
  /\ UNCHANGED <<slotVars, held, state, fate, hooked, lwip, task, turns>>

(* The peer resets: lwIP frees the pcb before it raises ERROR. *)
Reset(p) ==
  /\ LwipIdle /\ memory[p] \in Conns /\ fate[memory[p]] = "open"
  /\ fate' = [fate EXCEPT ![memory[p]] = "error"]
  /\ memory' = [memory EXCEPT ![p] = Free]
  /\ UNCHANGED <<slotVars, held, state, hooked, lwip, task, turns>>

-----------------------------------------------------------------------------
(* The task *)

Idle == task.pc = "idle" /\ freeing["task"].at = "out"

(* tcp_arg(_pcb, NULL) and the like, made in the task itself *)
Unhook(c) == hooked' = hooked \ {memory[held[c]]}

(* A method of the client that calls lwIP, with _pcb as its first argument *)
Call(c) ==
  /\ Idle /\ state[c] = "live" /\ held[c] # Free
  /\ task' = [pc |-> "slot", conn |-> c, pcb |-> held[c], slot |-> NoSlot, closes |-> FALSE]
  /\ UNCHANGED <<slotVars, lwipVars, lwip, turns>>

(* _close() takes the callbacks off the pcb, *)
CallClose(c) ==
  /\ Idle /\ state[c] = "live" /\ held[c] # Free
  /\ Unhook(c)
  /\ task' = [pc |-> "pcb", conn |-> c, pcb |-> Free, slot |-> NoSlot, closes |-> TRUE]
  /\ UNCHANGED <<slotVars, held, state, memory, fate, lwip, turns>>

(* and reads _pcb again for the call, which is not made for NULL. *)
ReadPcb ==
  /\ task.pc = "pcb"
  /\ task' = [task EXCEPT !.pc = IF held[task.conn] = Free THEN "discard" ELSE "slot",
                          !.pcb = held[task.conn]]
  /\ UNCHANGED <<slotVars, lwipVars, lwip, turns>>

(* _closed_slot is the second argument. *)
ReadSlot ==
  /\ task.pc = "slot"
  /\ task' = [task EXCEPT !.pc = "api", !.slot = slot[task.conn]]
  /\ UNCHANGED <<slotVars, lwipVars, lwip, turns>>

(* The lwIP thread makes the call: _tcp_write_api() and its like. *)
MayCall == task.slot = NoSlot \/ slots[task.slot] = 0
Api ==
  /\ task.pc = "api" /\ LwipIdle
  /\ IF MayCall
       THEN LET c == memory[task.pcb]
            IN  fate' = IF task.closes /\ c \in Conns /\ fate[c] = "open"
                          THEN [fate EXCEPT ![c] = IF c = task.conn THEN "closed" ELSE "robbed"]
                          ELSE fate
       ELSE UNCHANGED fate
  /\ turns' = {}
  /\ task' = IF task.closes THEN [task EXCEPT !.pc = "discard"] ELSE Waiting
  /\ UNCHANGED <<slotVars, held, state, memory, hooked, lwip>>

(* The web server deletes the client; ~AsyncClient() frees the slot. *)
Delete(c) ==
  /\ state' = [state EXCEPT ![c] = "deleted"] /\ held' = [held EXCEPT ![c] = Free]
  /\ Frees("task", c)
  /\ UNCHANGED <<slots, index, slot, memory, fate, lwip, turns>>

Discard ==
  /\ task.pc = "discard" /\ Delete(task.conn) /\ task' = Waiting /\ UNCHANGED hooked

(* _fin() *)
HandleFin(c) ==
  /\ Idle /\ state[c] = "live" /\ fate[c] = "fin" /\ lwip.conn # c
  /\ Delete(c) /\ UNCHANGED <<hooked, task>>

(* _error(): the event names the client, and _pcb is what it was. *)
HandleError(c) ==
  /\ Idle /\ state[c] = "live" /\ fate[c] = "error" /\ c \in hooked
  /\ hooked' = hooked \ {c, IF held[c] = Free THEN Free ELSE memory[held[c]]}
  /\ Delete(c) /\ UNCHANGED task

-----------------------------------------------------------------------------
Lwip ==
  \/ \E c \in Conns, p \in Pcbs : Accept(c, p)
  \/ \E c \in Conns : FinCloses(c)
  \/ FinFrees \/ FinForgets
  \/ \E p \in Pcbs : Forgotten(p) \/ Reset(p)
Task ==
  \/ \E c \in Conns : Call(c) \/ CallClose(c) \/ HandleFin(c) \/ HandleError(c)
  \/ ReadPcb \/ ReadSlot \/ Api \/ Discard
Next == Lwip \/ Task \/ \E t \in Threads : FreesOn(t)
Spec == Init /\ [][Next]_vars

-----------------------------------------------------------------------------
(* A client whose slot is marked, and which has not forgotten it *)
Returning(c) == \E t \in Threads : freeing[t].conn = c /\ freeing[t].at = "clear"

(* A slot that is not marked is held by exactly one client, and a marked    *)
(* one by none, however the stores of the two threads that free slots fall; *)
(* a client in the middle of giving its slot back does not count, for the   *)
(* slot may be another's before it has forgotten it.                       *)
SlotsHeldOnce ==
  \A i \in Slots :
    /\ slots[i] = 0 <=> \E c \in Conns : slot[c] = i /\ ~Returning(c)
    /\ \A c, d \in Conns :
         slot[c] = i /\ slot[d] = i /\ ~Returning(c) /\ ~Returning(d) => c = d

(* A call that lwIP makes for a client reaches its own open pcb, but for    *)
(* four cases: lwIP has freed the pcb for an error that the task has not    *)
(* handled; a call of another client, gone astray, has closed it; the       *)
(* client has no slot, or it was taken away between the reading of its pcb  *)
(* and of its slot; another client holds the slot by now.  The last takes   *)
(* until all slots free before it have been given out (the very first one   *)
(* to be freed is marked like the unused, and may come first), unless the   *)
(* two threads have ever been in _free_closed_slot() at once: a lost        *)
(* increment of the index, which may even go back, leaves marks that are    *)
(* equal or out of order.                                                  *)
CallsReachTheirPcb ==
  task.pc = "api" /\ LwipIdle /\ MayCall =>
    \/ memory[task.pcb] = task.conn /\ fate[task.conn] = "open"
    \/ fate[task.conn] \in {"error", "robbed"}
    \/ task.slot = NoSlot
    \/ slot[task.conn] # task.slot /\ (turns = {} \/ raced)
=============================================================================
