-------------------------- MODULE TcpClientsProofs --------------------------
(***************************************************************************)
(* What AsyncTCP keeps beside its queue, for any number of connections,    *)
(* pcbs and slots, and any sequence of calls.  The slots and the calls     *)
(* that they protect: a slot is held by at most one client, and a call     *)
(* that lwIP makes reaches the pcb of its client or is a named exception.  *)
(* The server: how far begin() or end() has got follows from what lwIP     *)
(* knows of it, and a pcb of which the server or nobody keeps track comes  *)
(* from a call that has failed.  The outgoing client: how it stands with   *)
(* its latest connection, and that what is still queued of an earlier one  *)
(* will be thrown away before it can be taken for news of the latest.      *)
(***************************************************************************)
EXTENDS TcpClients, TLAPS

LEMMA Apart ==
  Free \notin Conns \cup Pcbs /\ Listener \notin Pcbs \cup {Free} /\ Lost \notin Conns \cup {Free}
BY SlotsAssumption, ServerAssumption

(* What the variables can be *)
Types ==
  /\ slots \in [Slots -> Nat] /\ index \in Nat \ {0} /\ raced \in BOOLEAN
  /\ slot \in [Conns -> Slots \cup {NoSlot}]
  /\ state \in [Conns -> {"none", "live", "deleted"}]
  /\ lwip \in [pc : {"idle", "free", "forget"}, conn : Conns \cup {Free}]
  /\ task \in [pc : {"idle", "pcb", "slot", "api", "discard"}, conn : Conns \cup {Free},
               pcb : Pcbs \cup {Free}, slot : Slots \cup {NoSlot}, closes : BOOLEAN]
  /\ freeing \in [Threads -> [at : {"out", "mark", "clear", "count"}, conn : Conns \cup {Free},
                              index : Nat]]
  /\ held \in [Conns -> Pcbs \cup {Free}]
  /\ memory \in [Pcbs -> Conns \cup {Free, Lost}]
  /\ fate \in [Conns -> {"none", "open", "fin", "error", "closed", "robbed"}]
  /\ turns \subseteq Slots

(* The two threads work for a connection; a client that has not been made   *)
(* yet holds nothing, and one whose slot is being given back still has it.  *)
Working ==
  /\ lwip.pc # "idle" => lwip.conn \in Conns
  /\ task.pc # "idle" => task.conn \in Conns
  /\ \A c \in Conns : state[c] = "none" => slot[c] = NoSlot
  /\ \A t \in Threads :
       /\ freeing[t].at # "out" => freeing[t].conn \in Conns /\ freeing[t].index # 0
       /\ freeing[t].at \in {"mark", "clear"} => slot[freeing[t].conn] # NoSlot

(* While the threads have not freed slots at once, the index read is the    *)
(* index, and the next mark is greater than those in use, but for the first *)
(* and for the one that the index has not yet been counted on from.        *)
Marks ==
  ~raced =>
    /\ \A t \in Threads : freeing[t].at # "out" => freeing[t].index = index
    /\ \A t, u \in Threads : freeing[t].at # "out" /\ freeing[u].at # "out" => t = u
    /\ \A i \in Slots : slots[i] <= index
    /\ index # 1 /\ (\A t \in Threads : freeing[t].at \in {"out", "mark"}) =>
         \A i \in Slots : slots[i] < index

(* An open pcb is where its client and the call in progress take it to be. *)
Found ==
  /\ \A c \in Conns : fate[c] = "open" /\ held[c] # Free => memory[held[c]] = c
  /\ task.pc \in {"slot", "api"} =>
       task.pcb \in Pcbs /\ (fate[task.conn] = "open" => memory[task.pcb] = task.conn)

(* How far _lwip_fin() has come, and how far the task: a client that one of *)
(* the threads frees the slot of is not one that the other does.           *)
Progress ==
  /\ lwip.pc # "idle" =>
       fate[lwip.conn] = "fin" /\ state[lwip.conn] = "live" /\ held[lwip.conn] # Free
  /\ freeing["lwip"].at # "out" => lwip.pc = "forget" /\ lwip.conn = freeing["lwip"].conn
  /\ freeing["task"].at # "out" => task.pc = "idle" /\ state[freeing["task"].conn] = "deleted"
  /\ \A c \in Conns : fate[c] = "fin" /\ slot[c] # NoSlot =>
       /\ lwip.conn = c
       /\ lwip.pc = "free" \/ freeing["lwip"].at \in {"mark", "clear"}
  /\ \A c \in Conns : state[c] = "none" <=> fate[c] = "none"
  /\ \A c \in Conns : state[c] = "deleted" => held[c] = Free
  /\ \A c \in Conns : state[c] = "live" /\ held[c] = Free => fate[c] = "fin"
  /\ \A c \in Conns : fate[c] = "closed" =>
       state[c] = "deleted" \/ (task.pc = "discard" /\ task.conn = c)
  /\ task.pc # "idle" => state[task.conn] = "live"
  /\ task.pc = "discard" =>
       fate[task.conn] # "open" /\ (lwip.pc # "idle" => lwip.conn # task.conn)

(* The slot in the call is the client's until FIN takes it away; then, if   *)
(* the threads have not raced, it is marked later than all that were free.  *)
Carried ==
  /\ task.pc = "api" /\ slot[task.conn] # task.slot =>
       /\ fate[task.conn] = "fin"
       /\ lwip.conn = task.conn =>
            lwip.pc # "free" /\ freeing["lwip"].at \notin {"mark", "clear"}
  /\ task.pc # "api" => turns = {}
  /\ task.pc = "api" /\ task.slot # NoSlot /\ ~raced =>
       \A t \in turns : 0 < slots[t] /\ slots[t] < slots[task.slot]

JInv == Types /\ Working /\ SlotsHeldOnce /\ Marks /\ Found /\ Progress /\ Carried

-----------------------------------------------------------------------------
(* A step that leaves the slots and who is giving one back alone *)
LEMMA Untouched ==
  ASSUME SlotsHeldOnce, UNCHANGED <<slots, slot>>,
         \A c \in Conns : Returning(c)' <=> Returning(c)
  PROVE  SlotsHeldOnce'
BY DEF SlotsHeldOnce

LEMMA Stays == ASSUME SlotsHeldOnce, UNCHANGED <<slots, slot, freeing>> PROVE SlotsHeldOnce'
BY Untouched DEF Returning

LEMMA Initially == Init => JInv
<1> SUFFICES ASSUME Init PROVE JInv
  OBVIOUS
<1> USE SlotsAssumption DEF Init, Waiting, Outside, NoSlot, Slots, Threads
<1>1. Types
  <2>1. raced \in BOOLEAN /\ turns \subseteq Slots /\ slot \in [Conns -> Slots \cup {NoSlot}]
    OBVIOUS
  <2>7. index \in Nat \ {0}
    OBVIOUS
  <2>6. slots \in [Slots -> Nat]
    OBVIOUS
  <2>2. /\ state \in [Conns -> {"none", "live", "deleted"}]
        /\ held \in [Conns -> Pcbs \cup {Free}]
        /\ memory \in [Pcbs -> Conns \cup {Free, Lost}]
        /\ fate \in [Conns -> {"none", "open", "fin", "error", "closed", "robbed"}]
    OBVIOUS
  <2>3. lwip \in [pc : {"idle", "free", "forget"}, conn : Conns \cup {Free}]
    OBVIOUS
  <2>4. task \in [pc : {"idle", "pcb", "slot", "api", "discard"}, conn : Conns \cup {Free},
                  pcb : Pcbs \cup {Free}, slot : Slots \cup {NoSlot}, closes : BOOLEAN]
    OBVIOUS
  <2>5. freeing \in [Threads -> [at : {"out", "mark", "clear", "count"}, conn : Conns \cup {Free},
                                 index : Nat]]
    OBVIOUS
  <2> QED BY <2>1, <2>2, <2>3, <2>4, <2>5, <2>6, <2>7 DEF Types
<1>2. Working /\ SlotsHeldOnce
  BY DEF Working, SlotsHeldOnce
<1>3. Marks /\ Found /\ Progress /\ Carried
  BY DEF Marks, Found, Progress, Carried
<1> QED BY <1>1, <1>2, <1>3 DEF JInv

(* What Allocate() does to the marks *)
LEMMA Allocated ==
  ASSUME Types, NEW c \in Conns, Allocate(c)
  PROVE  \/ Marked = {} /\ slots' = slots /\ slot' = slot
         \/ \E s \in Slots :
              /\ slots[s] # 0 /\ (\A i \in Marked : slots[s] <= slots[i])
              /\ slots' = [slots EXCEPT ![s] = 0] /\ slot' = [slot EXCEPT ![c] = s]
<1>1. CASE Marked = {}
  BY <1>1 DEF Allocate
<1>2. CASE Marked # {}
  <2>1. PICK s \in Marked :
          /\ Oldest(s)
          /\ slots' = [slots EXCEPT ![s] = 0] /\ slot' = [slot EXCEPT ![c] = s]
    BY <1>2 DEF Allocate
  <2>2. s \in Slots /\ slots[s] # 0
    BY DEF Marked
  <2>3. \A i \in Marked : slots[s] <= slots[i]
    BY <2>1, <2>2 DEF Oldest, Marked, Types
  <2> QED BY <2>1, <2>2, <2>3
<1> QED BY <1>1, <1>2

(* A slot that is handed out was marked: nobody else holds it, though one   *)
(* that is giving it back may still have its number.                       *)
LEMMA Allocation ==
  ASSUME Types, SlotsHeldOnce, NEW c \in Conns, slot[c] = NoSlot, Allocate(c),
         UNCHANGED freeing, ~Returning(c)
  PROVE  SlotsHeldOnce'
<1>1. \A d \in Conns : Returning(d)' <=> Returning(d)
  BY DEF Returning
<1>2. CASE UNCHANGED <<slots, slot>>
  BY <1>1, <1>2, Untouched
<1>3. CASE ~UNCHANGED <<slots, slot>>
  <2>1. PICK s \in Slots :
          /\ slots[s] # 0
          /\ slots' = [slots EXCEPT ![s] = 0] /\ slot' = [slot EXCEPT ![c] = s]
    BY <1>3, Allocated
  <2>2. \A d \in Conns : slot[d] = s => Returning(d)
    BY <2>1 DEF SlotsHeldOnce
  <2>3. \A i \in Slots : slots'[i] = (IF i = s THEN 0 ELSE slots[i])
    BY <2>1 DEF Types
  <2>4. \A d \in Conns : slot'[d] = (IF d = c THEN s ELSE slot[d])
    BY <2>1 DEF Types
  <2>5. \A i \in Slots : i # NoSlot
    BY SlotsAssumption DEF Slots, NoSlot
  <2>6. ASSUME NEW i \in Slots
        PROVE  /\ slots'[i] = 0 <=> \E d \in Conns : slot'[d] = i /\ ~Returning(d)'
               /\ \A d, e \in Conns :
                    slot'[d] = i /\ slot'[e] = i /\ ~Returning(d)' /\ ~Returning(e)' => d = e
    <3>1. CASE i = s
      BY <1>1, <2>2, <2>3, <2>4, <3>1
    <3>2. CASE i # s
      BY <1>1, <2>3, <2>4, <2>5, <3>2 DEF SlotsHeldOnce
    <3> QED BY <3>1, <3>2
  <2> QED BY <2>6 DEF SlotsHeldOnce
<1> QED BY <1>2, <1>3

LEMMA AcceptKeeps ==
  ASSUME JInv, NEW c \in Conns, NEW p \in Pcbs, Accept(c, p)
  PROVE  JInv'
<1> USE DEF JInv
<1>1. /\ lwip.pc = "idle" /\ state[c] = "none" /\ memory[p] = Free
      /\ state' = [state EXCEPT ![c] = "live"] /\ fate' = [fate EXCEPT ![c] = "open"]
      /\ memory' = [memory EXCEPT ![p] = c] /\ held' = [held EXCEPT ![c] = p]
      /\ Allocate(c) /\ turns' = turns \ {slot'[c]}
      /\ UNCHANGED <<index, freeing, raced, lwip, task>>
  BY DEF Accept, LwipIdle
<1>2. /\ task.pc # "idle" => task.conn \in Conns /\ task.conn # c
      /\ freeing["lwip"].at = "out"
      /\ freeing["task"].at # "out" => freeing["task"].conn # c
  BY <1>1 DEF Progress, Working
<1>3. slot[c] = NoSlot /\ ~Returning(c)
  BY <1>1, <1>2 DEF Working, Returning, Threads
<1>4. \/ slots' = slots /\ slot' = slot /\ Marked = {}
      \/ \E s \in Slots :
           /\ slots[s] # 0 /\ (\A i \in Marked : slots[s] <= slots[i])
           /\ slots' = [slots EXCEPT ![s] = 0] /\ slot' = [slot EXCEPT ![c] = s]
  BY <1>1, Allocated
<1>5. Types'
  BY <1>1, <1>4 DEF Types
<1>6. Working'
  BY <1>1, <1>2, <1>4 DEF Working, Types, Threads
<1>7. SlotsHeldOnce'
  BY <1>1, <1>3, Allocation
<1>8. Marks'
  BY <1>1, <1>4 DEF Marks, Types
<1>9. Found'
  BY <1>1, <1>2, Apart DEF Found, Types
<1>10. Progress'
  BY <1>1, <1>2, <1>4, Apart DEF Progress, Types
<1>11. Carried'
  <2>1. /\ task.pc = "api" /\ slot'[task.conn] # task.slot =>
             /\ fate'[task.conn] = "fin"
             /\ lwip.conn = task.conn =>
                  lwip.pc # "free" /\ freeing["lwip"].at \notin {"mark", "clear"}
        /\ task.pc # "api" => turns' = {}
    BY <1>1, <1>2, <1>4 DEF Carried, Types
  <2>2. ASSUME task.pc = "api", task.slot # NoSlot, ~raced, NEW t \in turns'
        PROVE  0 < slots'[t] /\ slots'[t] < slots'[task.slot]
    <3>1. t \in turns /\ t \in Slots /\ t # slot'[c] /\ task.slot \in Slots
      BY <1>1, <2>2 DEF Types
    <3>2. 0 < slots[t] /\ slots[t] < slots[task.slot]
      BY <2>2, <3>1 DEF Carried
    <3>3. t \in Marked
      BY <3>1, <3>2 DEF Marked
    <3>4. PICK s \in Slots :
            /\ \A i \in Marked : slots[s] <= slots[i]
            /\ slots' = [slots EXCEPT ![s] = 0] /\ slot' = [slot EXCEPT ![c] = s]
      BY <1>4, <3>3
    <3>5. s # task.slot /\ s # t
      <4>1. slots[s] <= slots[t] /\ slots[t] \in Nat /\ slots[s] \in Nat
              /\ slots[task.slot] \in Nat
        BY <3>1, <3>3, <3>4 DEF Types
      <4>2. slot'[c] = s
        BY <3>4 DEF Types
      <4> QED BY <3>1, <3>2, <4>1, <4>2
    <3> QED BY <3>1, <3>2, <3>4, <3>5 DEF Types
  <2> QED BY <1>1, <2>1, <2>2 DEF Carried
<1> QED BY <1>5, <1>6, <1>7, <1>8, <1>9, <1>10, <1>11

LEMMA FinClosesKeeps ==
  ASSUME JInv, NEW c \in Conns, FinCloses(c)
  PROVE  JInv'
<1> USE DEF JInv
<1>1. /\ lwip.pc = "idle" /\ fate[c] = "open" /\ held[c] # Free
      /\ fate' = [fate EXCEPT ![c] = "fin"] /\ lwip' = [pc |-> "free", conn |-> c]
      /\ UNCHANGED <<slots, index, slot, freeing, raced, held, state, memory, task, turns>>
  BY DEF FinCloses, LwipIdle, slotVars
<1>2. Types' /\ SlotsHeldOnce'
  BY <1>1, Stays DEF Types
<1>3. Working' /\ Marks'
  BY <1>1 DEF Working, Marks
<1>4. Found'
  BY <1>1 DEF Found, Types, Working
<1>5. Progress'
  BY <1>1 DEF Progress, Types, Working
<1>6. Carried'
  BY <1>1 DEF Carried, Types, Working, Progress
<1> QED BY <1>2, <1>3, <1>4, <1>5, <1>6

(* What a thread does that begins to free a slot *)
LEMMA Freed ==
  ASSUME Types, NEW t \in Threads, NEW c \in Conns, Frees(t, c), freeing[t].at = "out"
  PROVE  /\ freeing' \in [Threads -> [at : {"out", "mark", "clear", "count"},
                                      conn : Conns \cup {Free}, index : Nat]]
         /\ raced' \in BOOLEAN
         /\ \A u \in Threads : u # t => freeing'[u] = freeing[u]
         /\ \/ slot[c] = NoSlot /\ freeing' = freeing /\ raced' = raced
            \/ /\ slot[c] # NoSlot
               /\ freeing'[t] = [at |-> "mark", conn |-> c, index |-> index]
               /\ ~raced' => ~raced /\ \A u \in Threads : freeing[u].at = "out"
         /\ \A d \in Conns : Returning(d)' <=> Returning(d)
<1>1. CASE slot[c] = NoSlot
  BY <1>1 DEF Frees, Types, Returning
<1>2. CASE slot[c] # NoSlot
  <2>1. /\ freeing' = [freeing EXCEPT ![t] = [at |-> "mark", conn |-> c, index |-> index]]
        /\ raced' = (raced \/ \E u \in Threads : freeing[u].at # "out")
    BY <1>2 DEF Frees
  <2>2. \A u \in Threads :
          freeing'[u] = IF u = t THEN [at |-> "mark", conn |-> c, index |-> index] ELSE freeing[u]
    BY <2>1 DEF Types
  <2>3. freeing' \in [Threads -> [at : {"out", "mark", "clear", "count"},
                                  conn : Conns \cup {Free}, index : Nat]]
    BY <2>1 DEF Types
  <2>4. \A d \in Conns : Returning(d)' <=> Returning(d)
    BY <2>2 DEF Returning
  <2>5. raced' \in BOOLEAN /\ (~raced' => ~raced /\ \A u \in Threads : freeing[u].at = "out")
    BY <2>1 DEF Types
  <2> QED BY <1>2, <2>2, <2>3, <2>4, <2>5
<1> QED BY <1>1, <1>2

LEMMA FinFreesKeeps == ASSUME JInv, FinFrees PROVE JInv'
<1> USE DEF JInv
<1> DEFINE c == lwip.conn
<1>1. /\ lwip.pc = "free" /\ c \in Conns /\ Frees("lwip", c) /\ fate[c] = "fin"
      /\ lwip'.pc = "forget" /\ lwip'.conn = c /\ lwip' \in [pc : {"idle", "free", "forget"}, conn : Conns \cup {Free}]
      /\ UNCHANGED <<slots, index, slot, held, state, memory, fate, task, turns>>
  BY DEF FinFrees, Working, Types, Progress, lwipVars
<1>2. freeing["lwip"].at = "out" /\ "lwip" \in Threads
  BY <1>1 DEF Progress, Threads
<1>3. /\ freeing' \in [Threads -> [at : {"out", "mark", "clear", "count"},
                                   conn : Conns \cup {Free}, index : Nat]]
      /\ raced' \in BOOLEAN
      /\ \A u \in Threads : u # "lwip" => freeing'[u] = freeing[u]
      /\ \/ slot[c] = NoSlot /\ freeing' = freeing /\ raced' = raced
         \/ /\ slot[c] # NoSlot
            /\ freeing'["lwip"] = [at |-> "mark", conn |-> c, index |-> index]
            /\ ~raced' => ~raced /\ \A u \in Threads : freeing[u].at = "out"
      /\ \A d \in Conns : Returning(d)' <=> Returning(d)
  <2> HIDE DEF c
  <2> QED BY <1>1, <1>2, Freed
<1>4. Types'
  BY <1>1, <1>3 DEF Types
<1>5. Working'
  BY <1>1, <1>3 DEF Working, Types, Threads
<1>6. SlotsHeldOnce'
  BY <1>1, <1>3, Untouched
<1>7. Marks'
  BY <1>1, <1>2, <1>3 DEF Marks, Types, Threads
<1>8. Found'
  BY <1>1 DEF Found
<1>9. Progress'
  BY <1>1, <1>2, <1>3 DEF Progress, Types, Working, Threads
<1>10. Carried'
  BY <1>1, <1>2, <1>3 DEF Carried, Types, Working, Threads
<1> QED BY <1>4, <1>5, <1>6, <1>7, <1>8, <1>9, <1>10

LEMMA OtherLwipStepsKeep ==
  ASSUME JInv, FinForgets \/ \E p \in Pcbs : Forgotten(p) \/ Reset(p)
  PROVE  JInv'
<1> USE DEF JInv
<1>1. CASE FinForgets
  <2>1. /\ lwip.pc = "forget" /\ held' = [held EXCEPT ![lwip.conn] = Free]
        /\ lwip' = [pc |-> "idle", conn |-> Free] /\ freeing["lwip"].at = "out"
        /\ UNCHANGED <<slots, index, slot, freeing, raced, state, memory, fate, task, turns>>
    BY <1>1 DEF FinForgets, slotVars
  <2>2. Types' /\ SlotsHeldOnce'
    BY <2>1, Stays DEF Types
  <2>3. Working' /\ Marks'
    BY <2>1 DEF Working, Marks
  <2>4. Found'
    BY <2>1 DEF Found, Types
  <2>5. Progress'
    BY <2>1 DEF Progress, Types, Working
  <2>6. Carried'
    BY <2>1 DEF Carried, Types
  <2> QED BY <2>2, <2>3, <2>4, <2>5, <2>6
<1>2. ASSUME NEW p \in Pcbs, Forgotten(p) PROVE JInv'
  <2>1. /\ lwip.pc = "idle" /\ memory[p] \in Conns /\ fate[memory[p]] # "open"
        /\ memory' = [memory EXCEPT ![p] = Free]
        /\ UNCHANGED <<slots, index, slot, freeing, raced, held, state, fate, lwip, task, turns>>
    BY <1>2 DEF Forgotten, LwipIdle, slotVars
  <2>2. Types' /\ SlotsHeldOnce'
    BY <2>1, Stays DEF Types
  <2>3. Working' /\ Marks'
    BY <2>1 DEF Working, Marks
  <2>4. Found'
    BY <2>1 DEF Found, Types
  <2>5. Progress' /\ Carried'
    BY <2>1 DEF Progress, Carried
  <2> QED BY <2>2, <2>3, <2>4, <2>5
<1>3. ASSUME NEW p \in Pcbs, Reset(p) PROVE JInv'
  <2>1. /\ lwip.pc = "idle" /\ memory[p] \in Conns /\ fate[memory[p]] = "open"
        /\ fate' = [fate EXCEPT ![memory[p]] = "error"] /\ memory' = [memory EXCEPT ![p] = Free]
        /\ UNCHANGED <<slots, index, slot, freeing, raced, held, state, lwip, task, turns>>
    BY <1>3 DEF Reset, LwipIdle, slotVars
  <2>2. Types' /\ SlotsHeldOnce'
    BY <2>1, Stays DEF Types
  <2>3. Working' /\ Marks'
    BY <2>1 DEF Working, Marks
  <2>4. Found'
    BY <2>1 DEF Found, Types, Working
  <2>5. Progress'
    BY <2>1 DEF Progress, Types, Working
  <2>6. Carried'
    BY <2>1 DEF Carried, Types, Working
  <2> QED BY <2>2, <2>3, <2>4, <2>5, <2>6
<1> QED BY <1>1, <1>2, <1>3

-----------------------------------------------------------------------------
(* The three stores of _free_closed_slot() *)

(* Neither thread gives back the slot that the other does. *)
LEMMA FreeingApart ==
  ASSUME JInv, NEW t \in Threads, NEW u \in Threads,
         freeing[t].at # "out", freeing[u].at # "out", freeing[t].conn = freeing[u].conn
  PROVE  t = u
BY DEF JInv, Progress, Threads

LEMMA StoresMarkKeeps ==
  ASSUME JInv, NEW t \in Threads, StoresMark(t), UNCHANGED <<lwipVars, lwip, task>>
  PROVE  JInv'
<1> USE DEF JInv
<1> DEFINE f == freeing[t]
           s == slot[f.conn]
<1>1. /\ f.at = "mark" /\ slots' = [slots EXCEPT ![s] = f.index]
      /\ freeing' = [freeing EXCEPT ![t].at = "clear"]
      /\ turns' = IF task.pc = "api" /\ task.conn = f.conn /\ f.index # 1 THEN Marked ELSE turns
      /\ UNCHANGED <<index, slot, raced, held, state, memory, fate, lwip, task>>
  BY DEF StoresMark, lwipVars
<1>2. f.conn \in Conns /\ f.index \in Nat /\ f.index # 0 /\ s \in Slots
  BY <1>1 DEF Working, Types
<1>3. \A u \in Threads :
        freeing'[u] = IF u = t THEN [at |-> "clear", conn |-> f.conn, index |-> f.index]
                      ELSE freeing[u]
  BY <1>1 DEF Types
<1>4. \A i \in Slots : slots'[i] = IF i = s THEN f.index ELSE slots[i]
  BY <1>1, <1>2 DEF Types
<1>5. \A d \in Conns : Returning(d)' <=> Returning(d) \/ d = f.conn
  BY <1>1, <1>3 DEF Returning
<1>6. ~Returning(f.conn)
  <2>1. SUFFICES ASSUME NEW u \in Threads, freeing[u].conn = f.conn, freeing[u].at = "clear"
                 PROVE FALSE
    BY DEF Returning
  <2>2. u = t
    BY <1>1, <2>1, FreeingApart
  <2> QED BY <1>1, <2>1, <2>2
<1>7. slots[s] = 0 /\ \A d \in Conns : slot[d] = s /\ ~Returning(d) => d = f.conn
  BY <1>2, <1>6 DEF SlotsHeldOnce
<1>8. SlotsHeldOnce'
  <2> HIDE DEF f
  <2>1. ASSUME NEW i \in Slots
        PROVE  /\ slots'[i] = 0 <=> \E d \in Conns : slot'[d] = i /\ ~Returning(d)'
               /\ \A d, e \in Conns :
                    slot'[d] = i /\ slot'[e] = i /\ ~Returning(d)' /\ ~Returning(e)' => d = e
    <3>1. CASE i = s
      BY <1>1, <1>2, <1>4, <1>5, <1>7, <3>1
    <3>2. CASE i # s
      <4>1. slots'[i] = slots[i] /\ slot' = slot
        BY <1>1, <1>4, <3>2
      <4>2. \A d \in Conns : slot[d] = i => (Returning(d)' <=> Returning(d))
        BY <1>5, <3>2
      <4>3. slots[i] = 0 <=> \E d \in Conns : slot[d] = i /\ ~Returning(d)
        BY DEF SlotsHeldOnce
      <4>4. \A d, e \in Conns :
              slot[d] = i /\ slot[e] = i /\ ~Returning(d) /\ ~Returning(e) => d = e
        BY DEF SlotsHeldOnce
      <4> QED BY <4>1, <4>2, <4>3, <4>4
    <3> QED BY <3>1, <3>2
  <2> QED BY <2>1 DEF SlotsHeldOnce
<1>9. Types'
  BY <1>1, <1>2 DEF Types, Marked
<1>10. Working'
  BY <1>1, <1>2, <1>3 DEF Working
<1>11. Marks'
  BY <1>1, <1>3, <1>4 DEF Marks, Types
<1>12. Found'
  BY <1>1 DEF Found
<1>13. Progress'
  BY <1>1, <1>3 DEF Progress, Threads
<1>14. Carried'
  <2>1. /\ task.pc = "api" /\ slot'[task.conn] # task.slot =>
             /\ fate[task.conn] = "fin"
             /\ lwip.conn = task.conn =>
                  lwip.pc # "free" /\ freeing'["lwip"].at \notin {"mark", "clear"}
    BY <1>1, <1>3 DEF Carried, Threads
  <2>2. task.pc # "api" => turns' = {}
    BY <1>1 DEF Carried
  <2>3. ASSUME task.pc = "api", task.slot # NoSlot, ~raced, NEW i \in turns'
        PROVE  0 < slots'[i] /\ slots'[i] < slots'[task.slot]
    <3>1. task.slot \in Slots /\ task.conn \in Conns /\ slots \in [Slots -> Nat]
      BY <2>3 DEF Types, Working
    <3>2. t = "lwip" /\ lwip.conn = f.conn
      BY <1>1, <2>3 DEF Progress, Threads
    <3>3. CASE task.conn = f.conn
      <4>1. s = task.slot
        BY <1>1, <2>3, <3>2, <3>3 DEF Carried
      <4>2. turns = {}
        BY <1>7, <2>3, <3>1, <4>1 DEF Carried, Types
      <4>3. f.index # 1 /\ i \in Marked
        BY <1>1, <4>2
      <4>4. f.index = index /\ \A u \in Threads : freeing[u].at \in {"out", "mark"}
        BY <1>1, <2>3 DEF Marks
      <4>5. i \in Slots /\ slots[i] # 0 /\ slots[i] < index
        BY <2>3, <4>3, <4>4 DEF Marked, Marks
      <4>6. slots'[i] = slots[i] /\ slots'[task.slot] = index
        BY <1>4, <1>7, <3>1, <4>1, <4>4, <4>5
      <4> QED BY <3>1, <4>5, <4>6
    <3>4. CASE task.conn # f.conn
      <4>1. i \in turns /\ i \in Slots
        BY <1>1, <3>4 DEF Types
      <4>2. 0 < slots[i] /\ slots[i] < slots[task.slot]
        BY <2>3, <4>1 DEF Carried
      <4>3. s # i /\ s # task.slot
        BY <1>7, <3>1, <4>1, <4>2
      <4> QED BY <1>4, <3>1, <4>1, <4>2, <4>3
    <3> QED BY <3>3, <3>4
  <2> QED BY <1>1, <2>1, <2>2, <2>3 DEF Carried
<1> QED BY <1>8, <1>9, <1>10, <1>11, <1>12, <1>13, <1>14

LEMMA ClearsKeeps ==
  ASSUME JInv, NEW t \in Threads, Clears(t), UNCHANGED <<lwipVars, lwip, task>>
  PROVE  JInv'
<1> USE DEF JInv
<1> DEFINE f == freeing[t]
<1>1. PICK j \in {f.index, index} :
        freeing' = [freeing EXCEPT ![t] = [at |-> "count", conn |-> f.conn, index |-> j]]
  BY DEF Clears
<1>2. /\ f.at = "clear" /\ slot' = [slot EXCEPT ![f.conn] = NoSlot]
      /\ UNCHANGED <<slots, index, raced, turns, held, state, memory, fate, lwip, task>>
  BY DEF Clears, lwipVars
<1>3. f.conn \in Conns /\ f.index \in Nat /\ f.index # 0 /\ j \in Nat /\ j # 0
  BY <1>2 DEF Working, Types
<1>4. \A u \in Threads :
        freeing'[u] = IF u = t THEN [at |-> "count", conn |-> f.conn, index |-> j]
                      ELSE freeing[u]
  BY <1>1 DEF Types
<1>5. \A d \in Conns : slot'[d] = IF d = f.conn THEN NoSlot ELSE slot[d]
  BY <1>2 DEF Types
<1>6. \A d \in Conns : d # f.conn => (Returning(d)' <=> Returning(d))
  BY <1>4 DEF Returning
<1>7. Returning(f.conn)
  BY <1>2 DEF Returning
<1>8. SlotsHeldOnce'
  <2> HIDE DEF f
  <2>1. ASSUME NEW i \in Slots
        PROVE  /\ slots'[i] = 0 <=> \E d \in Conns : slot'[d] = i /\ ~Returning(d)'
               /\ \A d, e \in Conns :
                    slot'[d] = i /\ slot'[e] = i /\ ~Returning(d)' /\ ~Returning(e)' => d = e
    <3>1. i # NoSlot
      BY SlotsAssumption DEF Slots, NoSlot
    <3>2. \A d \in Conns : slot'[d] = i /\ ~Returning(d)' <=> slot[d] = i /\ ~Returning(d)
      BY <1>5, <1>6, <1>7, <3>1
    <3>3. slots[i] = 0 <=> \E d \in Conns : slot[d] = i /\ ~Returning(d)
      BY DEF SlotsHeldOnce
    <3>4. \A d, e \in Conns :
            slot[d] = i /\ slot[e] = i /\ ~Returning(d) /\ ~Returning(e) => d = e
      BY DEF SlotsHeldOnce
    <3> QED BY <1>2, <3>2, <3>3, <3>4
  <2> QED BY <2>1 DEF SlotsHeldOnce
<1>9. Types'
  <2>1. freeing' \in [Threads -> [at : {"out", "mark", "clear", "count"},
                                  conn : Conns \cup {Free}, index : Nat]]
    BY <1>1, <1>3 DEF Types
  <2> QED BY <1>2, <2>1 DEF Types
<1>10. Working'
  <2>1. \A u \in Threads : freeing[u].at # "out" /\ freeing[u].conn = f.conn => u = t
    BY <1>2, FreeingApart
  <2> QED BY <1>2, <1>3, <1>4, <1>5, <2>1 DEF Working
<1>11. Marks'
  BY <1>2, <1>3, <1>4 DEF Marks, Types
<1>12. Found'
  BY <1>2 DEF Found
<1>13. Progress'
  <2>1. t = "lwip" \/ t = "task"
    BY DEF Threads
  <2>2. CASE t = "lwip"
    BY <1>2, <1>3, <1>4, <1>5, <2>2 DEF Progress, Threads
  <2>3. CASE t = "task"
    BY <1>2, <1>3, <1>4, <1>5, <2>3 DEF Progress, Threads
  <2> QED BY <2>1, <2>2, <2>3
<1>14. Carried'
  <2>1. task.pc = "api" => t = "lwip" /\ f.conn = lwip.conn /\ fate[f.conn] = "fin"
    BY <1>2 DEF Progress, Threads
  <2>2. ASSUME task.pc = "api", slot'[task.conn] # task.slot
        PROVE  /\ fate[task.conn] = "fin"
               /\ lwip.conn = task.conn =>
                    lwip.pc # "free" /\ freeing'["lwip"].at \notin {"mark", "clear"}
    <3>1. task.conn \in Conns /\ lwip.pc # "free"
      BY <1>2, <2>1, <2>2 DEF Working, Progress
    <3>2. freeing'["lwip"].at = "count"
      BY <1>4, <2>1, <2>2
    <3>3. CASE task.conn = f.conn
      BY <2>1, <2>2, <3>1, <3>2, <3>3
    <3>4. CASE task.conn # f.conn
      BY <1>5, <2>2, <3>1, <3>2, <3>4 DEF Carried
    <3> QED BY <3>3, <3>4
  <2> QED BY <1>2, <2>2 DEF Carried
<1> QED BY <1>8, <1>9, <1>10, <1>11, <1>12, <1>13, <1>14

LEMMA CountsKeeps ==
  ASSUME JInv, NEW t \in Threads, Counts(t), UNCHANGED <<lwipVars, lwip, task>>
  PROVE  JInv'
<1> USE DEF JInv
<1>1. /\ freeing[t].at = "count" /\ index' = freeing[t].index + 1
      /\ freeing' = [freeing EXCEPT ![t] = Outside]
      /\ UNCHANGED <<slots, slot, raced, turns, held, state, memory, fate, lwip, task>>
  BY DEF Counts, lwipVars
<1>2. freeing[t].index \in Nat /\ freeing[t].index # 0
  BY <1>1 DEF Working, Types
<1>3. \A u \in Threads : freeing'[u] = IF u = t THEN Outside ELSE freeing[u]
  BY <1>1 DEF Types
<1>4. SlotsHeldOnce'
  <2>1. \A d \in Conns : Returning(d)' <=> Returning(d)
    BY <1>1, <1>3 DEF Returning, Outside
  <2> QED BY <1>1, <2>1, Untouched
<1>5. Types'
  BY <1>1, <1>2 DEF Types, Outside
<1>6. Working'
  BY <1>1, <1>3 DEF Working, Outside
<1>7. Marks'
  BY <1>1, <1>2, <1>3 DEF Marks, Types, Outside
<1>8. Found'
  BY <1>1 DEF Found
<1>9. Progress'
  BY <1>1, <1>3 DEF Progress, Outside, Threads
<1>10. Carried'
  BY <1>1, <1>3 DEF Carried, Outside, Threads
<1> QED BY <1>4, <1>5, <1>6, <1>7, <1>8, <1>9, <1>10

-----------------------------------------------------------------------------
LEMMA DeletingKeeps ==
  ASSUME JInv, NEW c \in Conns, Delete(c), state[c] = "live", freeing["task"].at = "out",
         \/ task.pc = "idle" /\ task' = task
         \/ task.pc = "discard" /\ task.conn = c /\ task' = Waiting,
         fate[c] # "open", lwip.pc # "idle" => lwip.conn # c
  PROVE  JInv'
<1> USE DEF JInv
<1>1. /\ state' = [state EXCEPT ![c] = "deleted"] /\ held' = [held EXCEPT ![c] = Free]
      /\ Frees("task", c) /\ task'.pc = "idle"
      /\ UNCHANGED <<slots, index, slot, memory, fate, lwip, turns>>
  BY DEF Delete, Waiting
<1>2. /\ freeing' \in [Threads -> [at : {"out", "mark", "clear", "count"},
                                   conn : Conns \cup {Free}, index : Nat]]
      /\ raced' \in BOOLEAN
      /\ \A u \in Threads : u # "task" => freeing'[u] = freeing[u]
      /\ \/ slot[c] = NoSlot /\ freeing' = freeing /\ raced' = raced
         \/ /\ slot[c] # NoSlot
            /\ freeing'["task"] = [at |-> "mark", conn |-> c, index |-> index]
            /\ ~raced' => ~raced /\ \A u \in Threads : freeing[u].at = "out"
      /\ \A d \in Conns : Returning(d)' <=> Returning(d)
  <2>1. "task" \in Threads
    BY DEF Threads
  <2> QED BY <1>1, <2>1, Freed
<1>3. Types'
  <2>1. task' \in [pc : {"idle", "pcb", "slot", "api", "discard"}, conn : Conns \cup {Free},
                   pcb : Pcbs \cup {Free}, slot : Slots \cup {NoSlot}, closes : BOOLEAN]
    <3>1. Waiting \in [pc : {"idle", "pcb", "slot", "api", "discard"}, conn : Conns \cup {Free},
                       pcb : Pcbs \cup {Free}, slot : Slots \cup {NoSlot}, closes : BOOLEAN]
      BY DEF Waiting
    <3>2. task' \in {task, Waiting}
      OBVIOUS
    <3> QED BY <3>1, <3>2 DEF Types
  <2>2. state' \in [Conns -> {"none", "live", "deleted"}] /\ held' \in [Conns -> Pcbs \cup {Free}]
    BY <1>1 DEF Types
  <2>3. /\ slots' \in [Slots -> Nat] /\ index' \in Nat \ {0}
        /\ slot' \in [Conns -> Slots \cup {NoSlot}]
        /\ lwip' \in [pc : {"idle", "free", "forget"}, conn : Conns \cup {Free}]
        /\ memory' \in [Pcbs -> Conns \cup {Free, Lost}]
        /\ fate' \in [Conns -> {"none", "open", "fin", "error", "closed", "robbed"}]
        /\ turns' \subseteq Slots
    BY <1>1 DEF Types
  <2> QED BY <1>2, <2>1, <2>2, <2>3 DEF Types
<1>4. Working'
  BY <1>1, <1>2 DEF Working, Types, Threads
<1>5. SlotsHeldOnce'
  BY <1>1, <1>2, Untouched
<1>6. Marks'
  BY <1>1, <1>2 DEF Marks, Types, Threads
<1>7. Found'
  BY <1>1 DEF Found, Types
<1>8. Progress'
  <2>1. freeing'["lwip"] = freeing["lwip"]
    BY <1>2 DEF Threads
  <2>2. freeing'["task"].at # "out" => freeing'["task"].conn = c
    BY <1>2
  <2>3. \A d \in Conns : /\ state'[d] = IF d = c THEN "deleted" ELSE state[d]
                         /\ held'[d] = IF d = c THEN Free ELSE held[d]
    BY <1>1 DEF Types
  <2>4. fate[c] # "none"
    BY DEF Progress
  <2> QED BY <1>1, <2>1, <2>2, <2>3, <2>4 DEF Progress, Working
<1>9. Carried'
  BY <1>1 DEF Carried
<1> QED BY <1>3, <1>4, <1>5, <1>6, <1>7, <1>8, <1>9

(* A call that closes leaves the pcb of its client not open. *)
LEMMA ApiCloses ==
  ASSUME JInv, Api, task.closes
  PROVE  fate'[task.conn] # "open"
<1> USE DEF JInv
<1>1. task.pc = "api" /\ lwip.pc = "idle" /\ task.conn \in Conns
  BY DEF Api, LwipIdle, Working
<1>2. SUFFICES ASSUME fate[task.conn] = "open" PROVE fate'[task.conn] # "open"
  <2>1. CASE fate' = fate
    BY <2>1, <1>2
  <2>2. CASE fate' # fate
    BY <2>2, <1>1, <1>2 DEF Api, Types
  <2> QED BY <2>1, <2>2
<1>3. memory[task.pcb] = task.conn
  BY <1>1, <1>2 DEF Found
<1>4. MayCall
  <2>1. SUFFICES ASSUME task.slot # NoSlot, slots[task.slot] # 0 PROVE FALSE
    BY DEF MayCall
  <2>2. slot[task.conn] = task.slot /\ task.slot \in Slots
    BY <1>1, <1>2, <2>1 DEF Carried, Types
  <2>3. PICK t \in Threads : freeing[t].conn = task.conn /\ freeing[t].at = "clear"
    BY <1>1, <2>1, <2>2 DEF SlotsHeldOnce, Returning
  <2> QED BY <1>1, <2>3 DEF Progress, Threads
<1>5. fate' = [fate EXCEPT ![task.conn] = "closed"]
  BY <1>1, <1>2, <1>3, <1>4 DEF Api
<1> QED BY <1>1, <1>5 DEF Types

LEMMA TaskStepsKeep == ASSUME JInv, Task PROVE JInv'
<1> USE DEF JInv
<1>1. ASSUME NEW c \in Conns, Call(c) \/ CallClose(c) PROVE JInv'
  <2>1. /\ task.pc = "idle" /\ freeing["task"].at = "out" /\ state[c] = "live" /\ held[c] # Free
        /\ \/ task' = [pc |-> "slot", conn |-> c, pcb |-> held[c], slot |-> NoSlot, closes |-> FALSE]
           \/ task' = [pc |-> "pcb", conn |-> c, pcb |-> Free, slot |-> NoSlot, closes |-> TRUE]
        /\ UNCHANGED <<slots, index, slot, freeing, raced, held, state, memory, fate, lwip, turns>>
    BY <1>1 DEF Call, CallClose, Idle, slotVars, lwipVars
  <2>2. Types' /\ SlotsHeldOnce'
    <3>1. task' \in [pc : {"idle", "pcb", "slot", "api", "discard"}, conn : Conns \cup {Free},
                     pcb : Pcbs \cup {Free}, slot : Slots \cup {NoSlot}, closes : BOOLEAN]
      <4>1. held[c] \in Pcbs
        BY <2>1 DEF Types
      <4>2. CASE task' = [pc |-> "slot", conn |-> c, pcb |-> held[c], slot |-> NoSlot, closes |-> FALSE]
        BY <4>1, <4>2
      <4>3. CASE task' = [pc |-> "pcb", conn |-> c, pcb |-> Free, slot |-> NoSlot, closes |-> TRUE]
        BY <4>3
      <4> QED BY <2>1, <4>2, <4>3
    <3> QED BY <2>1, <3>1, Stays DEF Types
  <2>3. Working' /\ Marks'
    BY <2>1 DEF Working, Marks
  <2>4. Found'
    BY <2>1 DEF Found, Types
  <2>5. Progress' /\ Carried'
    BY <2>1 DEF Progress, Carried
  <2> QED BY <2>2, <2>3, <2>4, <2>5
<1>2. ASSUME NEW c \in Conns, HandleFin(c) \/ HandleError(c) PROVE JInv'
  <2>1. /\ task.pc = "idle" /\ Delete(c) /\ state[c] = "live" /\ freeing["task"].at = "out"
        /\ task' = task
    BY <1>2 DEF HandleFin, HandleError, Idle
  <2>2. fate[c] # "open" /\ (lwip.pc # "idle" => lwip.conn # c)
    BY <1>2 DEF HandleFin, HandleError, Progress
  <2> QED BY <2>1, <2>2, DeletingKeeps
<1>3. CASE ReadPcb
  <2>1. /\ task.pc = "pcb" /\ task.conn \in Conns
        /\ task' = [task EXCEPT !.pc = IF held[task.conn] = Free THEN "discard" ELSE "slot",
                               !.pcb = held[task.conn]]
        /\ UNCHANGED <<slots, index, slot, freeing, raced, held, state, memory, fate, lwip, turns>>
    BY <1>3 DEF ReadPcb, Working, slotVars, lwipVars
  <2>2. task'.conn = task.conn /\ task'.pcb = held[task.conn]
        /\ task'.pc = IF held[task.conn] = Free THEN "discard" ELSE "slot"
    BY <2>1 DEF Types
  <2>3. Types' /\ SlotsHeldOnce'
    BY <2>1, Stays DEF Types
  <2>4. Working' /\ Marks'
    BY <2>1, <2>2 DEF Working, Marks
  <2>5. Found'
    BY <2>1, <2>2 DEF Found, Types
  <2>6. Progress' /\ Carried'
    BY <2>1, <2>2 DEF Progress, Carried
  <2> QED BY <2>3, <2>4, <2>5, <2>6
<1>4. CASE ReadSlot
  <2>1. /\ task.pc = "slot" /\ task.conn \in Conns
        /\ task' = [task EXCEPT !.pc = "api", !.slot = slot[task.conn]]
        /\ UNCHANGED <<slots, index, slot, freeing, raced, held, state, memory, fate, lwip, turns>>
    BY <1>4 DEF ReadSlot, Working, slotVars, lwipVars
  <2>2. /\ task'.pc = "api" /\ task'.slot = slot[task.conn]
        /\ task'.conn = task.conn /\ task'.pcb = task.pcb
    BY <2>1 DEF Types
  <2>3. Types' /\ SlotsHeldOnce'
    BY <2>1, Stays DEF Types
  <2>4. Working' /\ Marks'
    BY <2>1, <2>2 DEF Working, Marks
  <2>5. Found'
    BY <2>1, <2>2 DEF Found
  <2>6. Progress' /\ Carried'
    BY <2>1, <2>2 DEF Progress, Carried
  <2> QED BY <2>3, <2>4, <2>5, <2>6
<1>5. CASE Api
  <2>1. /\ task.pc = "api" /\ lwip.pc = "idle" /\ turns' = {} /\ task.conn \in Conns
        /\ UNCHANGED <<slots, index, slot, freeing, raced, held, state, memory, lwip>>
        /\ task' = IF task.closes THEN [task EXCEPT !.pc = "discard"] ELSE Waiting
    BY <1>5 DEF Api, LwipIdle, Working, slotVars
  <2>2. \/ fate' = fate
        \/ \E c \in Conns :
             /\ fate[c] = "open"
             /\ \/ c = task.conn /\ task.closes /\ fate' = [fate EXCEPT ![c] = "closed"]
                \/ fate' = [fate EXCEPT ![c] = "robbed"]
    <3>1. CASE fate' = fate
      BY <3>1
    <3>2. CASE fate' # fate
      <4> DEFINE c == memory[task.pcb]
      <4>1. /\ task.closes /\ c \in Conns /\ fate[c] = "open"
            /\ fate' = [fate EXCEPT ![c] = IF c = task.conn THEN "closed" ELSE "robbed"]
        BY <1>5, <3>2 DEF Api
      <4> QED BY <4>1
    <3> QED BY <3>1, <3>2
  <2>3. \/ task.closes /\ task'.pc = "discard" /\ task'.conn = task.conn
        \/ ~task.closes /\ task'.pc = "idle"
    BY <2>1 DEF Waiting, Types
  <2>4. Types'
    BY <2>1, <2>2 DEF Types, Waiting
  <2>5. Working' /\ Marks' /\ SlotsHeldOnce'
    BY <2>1, <2>3, Stays DEF Working, Marks
  <2>6. Found'
    BY <2>1, <2>2, <2>3 DEF Found, Types
  <2>7. Progress'
    <3>1. task'.pc = "discard" => fate'[task'.conn] # "open"
      BY <1>5, <2>3, ApiCloses
    <3> QED BY <2>1, <2>2, <2>3, <3>1 DEF Progress, Types
  <2>8. Carried'
    BY <2>1, <2>3 DEF Carried
  <2> QED BY <2>4, <2>5, <2>6, <2>7, <2>8
<1>6. CASE Discard
  <2>1. /\ task.pc = "discard" /\ task.conn \in Conns /\ Delete(task.conn) /\ task' = Waiting
        /\ state[task.conn] = "live" /\ freeing["task"].at = "out"
        /\ fate[task.conn] # "open" /\ (lwip.pc # "idle" => lwip.conn # task.conn)
    BY <1>6 DEF Discard, Working, Progress
  <2> QED BY <2>1, DeletingKeeps
<1> QED BY <1>1, <1>2, <1>3, <1>4, <1>5, <1>6 DEF Task

LEMMA ReachImplies == JInv => CallsReachTheirPcb
<1> SUFFICES ASSUME JInv, task.pc = "api", LwipIdle, MayCall,
                    fate[task.conn] \notin {"error", "robbed"}, task.slot # NoSlot
             PROVE  \/ memory[task.pcb] = task.conn /\ fate[task.conn] = "open"
                    \/ slot[task.conn] # task.slot /\ (turns = {} \/ raced)
  BY DEF CallsReachTheirPcb
<1> USE DEF JInv
<1>1. task.conn \in Conns /\ task.slot \in Slots /\ slots[task.slot] = 0
  BY DEF Working, Types, MayCall
<1>2. turns = {} \/ raced
  BY <1>1 DEF Carried, Types
<1>3. CASE slot[task.conn] = task.slot
  <2>1. fate[task.conn] \in {"open", "fin"}
    BY <1>1 DEF Progress, Types
  <2>2. fate[task.conn] # "fin"
    BY <1>1, <1>3 DEF Progress, LwipIdle
  <2> QED BY <2>1, <2>2 DEF Found
<1> QED BY <1>2, <1>3

-----------------------------------------------------------------------------
(* A step of the server or of a client that connects by itself leaves the   *)
(* slots alone; begin() may take a place for good.                         *)
Elsewhere ==
  /\ UNCHANGED <<slotVars, held, state, fate, hooked, lwip, task, turns>>
  /\ memory' = memory \/ \E p \in Pcbs : memory[p] = Free /\ memory' = [memory EXCEPT ![p] = Lost]

LEMMA SlotSteps == ASSUME [TcpNext]_<<vars, serverVars, outVars>> PROVE Next \/ Elsewhere
<1>1. CASE UNCHANGED <<vars, serverVars, outVars>> \/ UNCHANGED <<vars, serverVars>>
  BY <1>1 DEF vars, lwipVars, Elsewhere
<1>2. CASE Setup
  <2>1. memory' = memory \/ \E p \in Pcbs : memory[p] = Free /\ memory' = [memory EXCEPT ![p] = Lost]
    <3>1. CASE SetArg \/ SetCallback \/ End \/ UnsetCallback \/ Close
      BY <3>1 DEF SetArg, SetCallback, End, UnsetCallback, Close
    <3>2. CASE Begin
      BY <3>2 DEF Begin, BeginCall, BeginAnew, NothingNew, BindFails, ListenFails, Listens
    <3> QED BY <1>2, <3>1, <3>2 DEF Setup
  <2> QED BY <1>2, <2>1 DEF Setup, Elsewhere
<1>3. ASSUME NEW c \in Conns, NEW p \in Pcbs, Accepts(c, p) PROVE Next \/ Elsewhere
  BY <1>3 DEF Accepts, vars, lwipVars, Next, Lwip, Elsewhere
<1>4. CASE Clients
  BY <1>4 DEF Clients, Next, Lwip
<1> QED BY <1>1, <1>2, <1>3, <1>4 DEF TcpNext, ServerNext

LEMMA ElsewhereKeeps == ASSUME JInv, Elsewhere PROVE JInv'
<1> USE DEF JInv
<1>1. /\ UNCHANGED <<slots, index, slot, freeing, raced, held, state, fate, lwip, task, turns>>
      /\ memory' = memory \/ \E p \in Pcbs : memory[p] = Free /\ memory' = [memory EXCEPT ![p] = Lost]
  BY DEF Elsewhere, slotVars
<1>2. Types' /\ Working' /\ SlotsHeldOnce'
  BY <1>1, Stays DEF Types, Working
<1>3. Marks' /\ Progress' /\ Carried'
  BY <1>1 DEF Marks, Progress, Carried
<1>4. Found'
  BY <1>1, SlotsAssumption DEF Found, Types, Working
<1> QED BY <1>2, <1>3, <1>4

LEMMA NextKeeps == ASSUME JInv, Next PROVE JInv'
<1>1. CASE Lwip
  BY <1>1, AcceptKeeps, FinClosesKeeps, FinFreesKeeps, OtherLwipStepsKeep DEF Lwip
<1>2. ASSUME NEW t \in Threads, FreesOn(t) PROVE JInv'
  BY <1>2, StoresMarkKeeps, ClearsKeeps, CountsKeeps DEF FreesOn
<1> QED BY <1>1, <1>2, TaskStepsKeep DEF Next

(* The invariant of the slots, the calls and the memory holds whatever the *)
(* server and the client that connects by itself do in between.            *)
THEOREM SlotsInvariant == TcpSpec => []JInv
<1>1. TcpInit => JInv
  BY Initially DEF TcpInit, ServerInit
<1>2. JInv /\ [TcpNext]_<<vars, serverVars, outVars>> => JInv'
  BY SlotSteps, NextKeeps, ElsewhereKeeps
<1> QED BY <1>1, <1>2, PTL DEF TcpSpec

(* The marks of the slots and the clients' own slot numbers agree at all    *)
(* times, though two threads free slots without a lock, store by store, and *)
(* lose counts of the index: no slot is freed twice, and none is handed out *)
(* while another client holds it that is not just giving it back.          *)
THEOREM SlotsNeverShared == TcpSpec => []SlotsHeldOnce
<1>1. JInv => SlotsHeldOnce
  BY DEF JInv
<1> QED BY SlotsInvariant, <1>1, PTL

(* A call is made for another's pcb only in the four cases that the         *)
(* property names, the race of two threads in _free_closed_slot() among     *)
(* them, whatever the number of connections, pcbs and slots.               *)
THEOREM CallsProtected == TcpSpec => []CallsReachTheirPcb
BY SlotsInvariant, ReachImplies, PTL

-----------------------------------------------------------------------------
USE Apart

Listening(l, a, c) == [listens |-> l, arg |-> a, callback |-> c]

ServerTypes ==
  /\ memory \in [Pcbs -> Conns \cup {Free, Lost}]
  /\ pcb \in Pcbs \cup {Free, Listener}
  /\ setup \in {"idle", "arg", "callback", "unset", "close", "lost"}
  /\ told \in {"begin", "end"} /\ failed \in BOOLEAN

(* Where a call has got to *)
Phase ==
  /\ setup = "idle" =>
       \/ pcb = Listener /\ told = "begin" /\ port = Listening(TRUE, TRUE, TRUE)
       \/ pcb # Listener /\ port = Listening(FALSE, FALSE, FALSE) /\ (told = "end" \/ failed)
  /\ setup = "arg" => pcb = Listener /\ told = "begin" /\ port = Listening(TRUE, FALSE, FALSE)
  /\ setup = "callback" => pcb = Listener /\ told = "begin" /\ port = Listening(TRUE, TRUE, FALSE)
  /\ setup = "unset" => pcb = Listener /\ told = "end" /\ port = Listening(TRUE, FALSE, TRUE)
  /\ setup = "close" => pcb = Listener /\ told = "end" /\ port = Listening(TRUE, FALSE, FALSE)
  /\ setup = "lost" => failed \/ (port.listens /\ ~port.arg)

(* What a failure leaves behind *)
Left == (pcb \in Pcbs \/ \E p \in Pcbs : memory[p] = Lost) => failed

SInv == ServerTypes /\ Phase /\ Left

LEMMA ServerStarts == ServerInit => SInv
BY DEF ServerInit, Init, SInv, ServerTypes, Phase, Left, Listening, Closed

LEMMA BeginKeeps == ASSUME SInv, Begin PROVE SInv'
<1>1. setup = "idle" /\ told' = "begin"
  BY DEF Begin, Calls
<1>2. CASE pcb # Free /\ UNCHANGED <<pcb, setup, port, failed, memory>>
  BY <1>1, <1>2 DEF SInv, ServerTypes, Phase, Left, Listening
<1>3. CASE pcb = Free /\ BeginAnew
  <2>1. port = Listening(FALSE, FALSE, FALSE)
    BY <1>1, <1>3 DEF SInv, Phase
  <2>2. CASE NothingNew
    BY <1>1, <1>3, <2>1, <2>2 DEF NothingNew, Fails, SInv, ServerTypes, Phase, Left, Listening
  <2>3. ASSUME NEW p \in Pcbs, BindFails(p) PROVE SInv'
    <3>1. failed'
      BY <2>1, <2>3 DEF BindFails, Refused, Fails, SInv, Left, Listening
    <3> QED BY <1>1, <2>1, <2>3, <3>1 DEF BindFails, Refused, Fails, SInv, ServerTypes, Phase, Left, Listening
  <2>4. ASSUME NEW p \in Pcbs, ListenFails(p) PROVE SInv'
    BY <1>1, <2>1, <2>4 DEF ListenFails, Fails, SInv, ServerTypes, Phase, Left, Listening
  <2>5. CASE Listens
    BY <1>1, <2>5 DEF Listens, SInv, ServerTypes, Phase, Left, Listening, Closed
  <2> QED BY <1>3, <2>2, <2>3, <2>4, <2>5 DEF BeginAnew
<1> QED BY <1>2, <1>3 DEF Begin, BeginCall

LEMMA EndKeeps == ASSUME SInv, End PROVE SInv'
<1>1. setup = "idle" /\ told' = "end" /\ UNCHANGED <<pcb, failed, memory>>
  BY DEF End, Calls
<1>2. CASE pcb = Free /\ UNCHANGED <<setup, port>>
  BY <1>1, <1>2 DEF SInv, ServerTypes, Phase, Left, Listening
<1>3. CASE pcb = Listener /\ setup' = "unset" /\ port' = [port EXCEPT !.arg = FALSE]
  <2>1. port = Listening(TRUE, TRUE, TRUE)
    BY <1>1, <1>3 DEF SInv, Phase
  <2>2. port' = Listening(TRUE, FALSE, TRUE)
    BY <1>3, <2>1 DEF Listening
  <2> QED BY <1>1, <1>3, <2>2 DEF SInv, ServerTypes, Phase, Left
<1>4. CASE pcb \in Pcbs /\ setup' = "lost" /\ UNCHANGED port
  BY <1>1, <1>4 DEF SInv, ServerTypes, Phase, Left
<1> QED BY <1>2, <1>3, <1>4 DEF End

LEMMA SetupKeeps == ASSUME SInv, Setup PROVE SInv'
<1>1. CASE SetArg
  <2>1. port = Listening(TRUE, FALSE, FALSE)
    BY <1>1 DEF SetArg, SInv, Phase
  <2>2. port' = Listening(TRUE, TRUE, FALSE)
    BY <1>1, <2>1 DEF SetArg, Listening
  <2> QED BY <1>1, <2>1, <2>2 DEF SetArg, SInv, ServerTypes, Phase, Left
<1>2. CASE SetCallback
  <2>1. port = Listening(TRUE, TRUE, FALSE)
    BY <1>2 DEF SetCallback, SInv, Phase
  <2>2. port' = Listening(TRUE, TRUE, TRUE)
    BY <1>2, <2>1 DEF SetCallback, Listening
  <2> QED BY <1>2, <2>1, <2>2 DEF SetCallback, SInv, ServerTypes, Phase, Left
<1>3. CASE UnsetCallback
  <2>1. port = Listening(TRUE, FALSE, TRUE)
    BY <1>3 DEF UnsetCallback, SInv, Phase
  <2>2. port' = Listening(TRUE, FALSE, FALSE)
    BY <1>3, <2>1 DEF UnsetCallback, Listening
  <2> QED BY <1>3, <2>1, <2>2 DEF UnsetCallback, SInv, ServerTypes, Phase, Left
<1>4. CASE Close
  BY <1>4 DEF Close, Closed, SInv, ServerTypes, Phase, Left, Listening
<1> QED BY <1>1, <1>2, <1>3, <1>4, BeginKeeps, EndKeeps DEF Setup

(* The clients take no place that is lost, and lose none. *)
LEMMA ClientsKeep == ASSUME SInv, Clients, UNCHANGED serverVars PROVE SInv'
<1>1. memory' = memory \/ \E p \in Pcbs : memory' = [memory EXCEPT ![p] = Free]
  <2>1. CASE Task
    BY <2>1 DEF Task, Call, CallClose, HandleFin, HandleError, ReadPcb, ReadSlot, Api, Discard,
                Delete, lwipVars
  <2>2. CASE FinFrees \/ FinForgets \/ \E c \in Conns : FinCloses(c)
    BY <2>2 DEF FinFrees, FinForgets, FinCloses, lwipVars
  <2>4. CASE \E t \in Threads : FreesOn(t)
    BY <2>4 DEF FreesOn, lwipVars
  <2>3. ASSUME NEW p \in Pcbs, Forgotten(p) \/ Reset(p) PROVE memory' = [memory EXCEPT ![p] = Free]
    BY <2>3 DEF Forgotten, Reset
  <2> QED BY <2>1, <2>2, <2>3, <2>4 DEF Clients
<1> QED BY <1>1 DEF serverVars, SInv, ServerTypes, Phase, Left

LEMMA AcceptsKeep ==
  ASSUME NEW c \in Conns, NEW p \in Pcbs, SInv, setup # "lost", Accepts(c, p)
  PROVE  SInv'
<1>1. CASE Accept(c, p) /\ UNCHANGED serverVars
  <2>1. memory' = [memory EXCEPT ![p] = c]
    BY <1>1 DEF Accept
  <2> QED BY <1>1, <2>1 DEF serverVars, SInv, ServerTypes, Phase, Left
<1>2. CASE /\ port.callback /\ ~port.arg /\ setup' = "lost"
           /\ UNCHANGED <<vars, pcb, port, script, told, failed>>
  <2>1. port.listens
    BY <1>2 DEF SInv, ServerTypes, Phase, Listening
  <2> QED BY <1>2, <2>1 DEF vars, lwipVars, SInv, ServerTypes, Phase, Left
<1> QED BY <1>1, <1>2 DEF Accepts

LEMMA ServerKeeps == ASSUME SInv, [ServerNext]_<<vars, serverVars>> PROVE SInv'
<1>1. CASE UNCHANGED <<vars, serverVars>>
  BY <1>1 DEF vars, lwipVars, serverVars, SInv, ServerTypes, Phase, Left
<1> QED BY <1>1, SetupKeeps, ClientsKeep, AcceptsKeep DEF ServerNext

(* Whatever calls are made and fail, the server listens after begin() and   *)
(* not after end(), but for what ListensAsTold leaves out.                 *)
THEOREM ServerListens == TcpSpec => []ListensAsTold
<1>1. TcpInit => SInv
  BY ServerStarts DEF TcpInit
<1>2. SInv /\ [TcpNext]_<<vars, serverVars, outVars>> => SInv'
  BY ServerKeeps DEF TcpNext
<1>3. SInv => ListensAsTold
  BY DEF SInv, Phase, Listening, ListensAsTold
<1> QED BY <1>1, <1>2, <1>3, PTL DEF TcpSpec

-----------------------------------------------------------------------------
(* Where the client stands: "off", "asking" the DNS, "calling" the peer,    *)
(* "on", or "closing" between the two steps of close()                     *)
Stands == {"off", "asking", "calling", "on", "closing"}
UnderWay(ph) == ph \in {"calling", "on"}
Latest == dials[Len(dials)]

Dialled == [state : {"syn", "open", "closed", "gone"}, at : Places, port : Nat, hooked : BOOLEAN]
Event == [kind : {"connected", "error", "fin", "found", "unknown", "clear"}, of : Nat]
Errand == [call : {"ip", "host", "close"}, port : Nat]

OutTypes ==
  /\ dials \in Seq(Dialled) /\ queue \in Seq(Event)
  /\ asked \in {0, 1} /\ clears \in 0..Len(dials)
  /\ self \in [pcb : Places \cup {NoPlace}, port : Nat]
  /\ app \in [calls : Seq(Errand), refusals : Nat,
              pc : {"idle", "port", "close"}, told : {"off", "on", "waiting"}, port : Nat]

(* Only the latest connection may be under way, and no two share a place. *)
Connections(ph) ==
  /\ \A n \in 1..Len(dials) : n < Len(dials) \/ ph \in {"off", "asking"} => dials[n].state \in {"closed", "gone"}
  /\ \A m, n \in 1..Len(dials) : Held(m) /\ Held(n) /\ dials[m].at = dials[n].at => m = n

(* What the application has been told, and what the client holds *)
Standing(ph) ==
  /\ app.told = CASE ph = "off" -> "off" [] ph \in {"asking", "calling"} -> "waiting" [] OTHER -> "on"
  /\ app.pc \in CASE ph \in {"off", "asking"} -> {"idle", "port"} [] UnderWay(ph) -> {"idle"} [] OTHER -> {"close"}
  /\ ph = "asking" => (app.pc = "idle" => self.port = app.port)
  /\ ph # "asking" => asked = 0
  /\ ph \in {"off", "asking", "calling"} => self.pcb = NoPlace
  /\ ph \in {"calling", "on", "closing"} => Len(dials) > 0
  /\ UnderWay(ph) /\ Latest.state \in {"syn", "open"} => Latest.hooked /\ Latest.port = app.port
  /\ ph = "calling" =>
       /\ Latest.state # "closed"
       /\ Latest.state = "open" => queue # <<>> /\ queue[1].kind = "connected"
  /\ ph = "on" =>
       /\ Latest.state # "syn" /\ self.pcb \in {Latest.at, NoPlace}
       /\ Latest.state = "open" => self.pcb = Latest.at
  /\ ph = "closing" =>
       /\ Latest.state # "syn" /\ self.pcb = Latest.at
       /\ Latest.state = "open" => ~Latest.hooked

(* An event that will be thrown away *)
Doomed(i) == clears # 0 \/ \E k \in 1..(i - 1) : queue[k].kind = "clear"

(* An event that ends what is under way, and whether there must be one *)
Final(ph, i) ==
  \/ queue[i].kind \in {"found", "unknown", "fin"}
  \/ queue[i].kind = "error" /\ queue[i].of = Len(dials) /\ UnderWay(ph)
Awaited(ph) ==
  \/ ph = "asking" /\ asked = 0
  \/ UnderWay(ph) /\ Latest.state \in {"closed", "gone"}

News(ph) ==
  /\ \A i \in 1..Len(queue) :
       LET e == queue[i]
       IN  /\ e.of \in 0..Len(dials) 
           /\ e.kind \in {"found", "unknown"} => ph = "asking" /\ e.of = 0
           /\ e.kind = "connected" => ph = "calling" /\ e.of = Len(dials) /\ i = 1 /\ Latest.state # "syn"
           /\ e.kind = "fin" => ph = "on" /\ e.of = Len(dials) /\ self.pcb = NoPlace
           /\ e.kind = "error" => (e.of = Len(dials) /\ UnderWay(ph)) \/ Doomed(i)
           /\ e.kind = "clear" => e.of > 0
           /\ e.kind = "clear" => (e.of = Len(dials) => ~UnderWay(ph))
  /\ clears = Len(dials) => ~UnderWay(ph)
  /\ \A i, j \in 1..Len(queue) : Final(ph, i) /\ Final(ph, j) => i = j
  /\ (\E i \in 1..Len(queue) : Final(ph, i)) <=> Awaited(ph)

Sound(ph) == OutTypes /\ Connections(ph) /\ Standing(ph) /\ News(ph)
OutInv == astray = {} => \E ph \in Stands : Sound(ph)

LEMMA Tailed ==
  ASSUME NEW q \in Seq(Event), q # <<>>
  PROVE  /\ Tail(q) \in Seq(Event) /\ Len(Tail(q)) = Len(q) - 1 /\ Len(q) \in Nat /\ Len(q) > 0
         /\ \A i \in 1..(Len(q) - 1) : Tail(q)[i] = q[i + 1]
         /\ Head(q) = q[1] /\ q[1] \in Event
OBVIOUS

LEMMA Appended ==
  ASSUME NEW q \in Seq(Event), NEW e \in Event
  PROVE  /\ Append(q, e) \in Seq(Event) /\ Len(Append(q, e)) = Len(q) + 1 /\ Len(q) \in Nat
         /\ \A i \in 1..Len(q) : Append(q, e)[i] = q[i]
         /\ Append(q, e)[Len(q) + 1] = e
OBVIOUS

LEMMA Fronted ==
  ASSUME NEW q \in Seq(Event), NEW e \in Event
  PROVE  /\ <<e>> \o q \in Seq(Event) /\ Len(<<e>> \o q) = Len(q) + 1 /\ Len(q) \in Nat
         /\ \A i \in 2..(Len(q) + 1) : (<<e>> \o q)[i] = q[i - 1]
         /\ (<<e>> \o q)[1] = e
<1>1. <<e>> \in Seq(Event) /\ Len(<<e>>) = 1
  OBVIOUS
<1> QED BY <1>1

(* What the types give *)
LEMMA Typed ==
  ASSUME OutTypes
  PROVE  /\ Len(dials) \in Nat /\ DOMAIN dials = 1..Len(dials)
         /\ \A n \in 1..Len(dials) : dials[n] \in Dialled
         /\ Len(queue) \in Nat /\ \A i \in 1..Len(queue) : queue[i] \in Event
         /\ (queue = <<>> <=> Len(queue) = 0)
BY DEF OutTypes

(* One connection changes. *)
LEMMA Becomes ==
  ASSUME OutTypes, NEW n \in 1..Len(dials), NEW r \in Dialled, dials' = [dials EXCEPT ![n] = r]
  PROVE  /\ dials' \in Seq(Dialled) /\ Len(dials') = Len(dials)
         /\ \A m \in 1..Len(dials) : dials'[m] = IF m = n THEN r ELSE dials[m]
BY DEF OutTypes

LEMMA Turns ==
  ASSUME OutTypes, NEW n \in 1..Len(dials), NEW s \in {"open", "closed", "gone"}, dials' = To(n, s)
  PROVE  /\ dials' \in Seq(Dialled) /\ Len(dials') = Len(dials)
         /\ \A m \in 1..Len(dials) :
              /\ dials'[m].at = dials[m].at /\ dials'[m].port = dials[m].port
              /\ dials'[m].state = IF m = n THEN s ELSE dials[m].state
              /\ dials'[m].hooked = dials[m].hooked
<1> DEFINE r == [dials[n] EXCEPT !.state = s]
<1>1. dials[n] \in Dialled
  BY Typed
<1>2. r \in Dialled /\ r.at = dials[n].at /\ r.port = dials[n].port /\ r.state = s /\ r.hooked = dials[n].hooked
  BY <1>1 DEF Dialled
<1>3. dials' = [dials EXCEPT ![n] = r]
  BY DEF To
<1> HIDE DEF r
<1>4. /\ dials' \in Seq(Dialled) /\ Len(dials') = Len(dials)
      /\ \A m \in 1..Len(dials) : dials'[m] = IF m = n THEN r ELSE dials[m]
  BY <1>2, <1>3, Becomes
<1> QED BY <1>2, <1>4

(* The callbacks are taken off whoever has the place. *)
LEMMA Unhooks ==
  ASSUME OutTypes, NEW p, dials' = Unhooked(p)
  PROVE  /\ dials' \in Seq(Dialled) /\ Len(dials') = Len(dials)
         /\ \A m \in 1..Len(dials) :
              /\ dials'[m].at = dials[m].at /\ dials'[m].port = dials[m].port
              /\ dials'[m].state = dials[m].state
              /\ dials'[m].hooked = (dials[m].hooked /\ ~(Held(m) /\ dials[m].at = p))
<1>1. Len(dials) \in Nat /\ DOMAIN dials = 1..Len(dials) /\ \A m \in 1..Len(dials) : dials[m] \in Dialled
  BY Typed
<1> DEFINE h(m) == dials[m].hooked /\ m \notin At(p)
           r(m) == [dials[m] EXCEPT !.hooked = h(m)]
<1>2. dials' = [m \in 1..Len(dials) |-> r(m)]
  BY <1>1 DEF Unhooked
<1>3. \A m \in 1..Len(dials) : h(m) \in BOOLEAN
  OBVIOUS
<1>4. ASSUME NEW m \in 1..Len(dials)
      PROVE  /\ r(m) \in Dialled /\ r(m).at = dials[m].at /\ r(m).port = dials[m].port
             /\ r(m).state = dials[m].state /\ r(m).hooked = h(m)
  <2> HIDE DEF h
  <2> QED BY <1>1, <1>3 DEF Dialled
<1>5. dials' \in Seq(Dialled) /\ Len(dials') = Len(dials)
  <2> HIDE DEF r
  <2> QED BY <1>1, <1>2, <1>4
<1>6. \A m \in 1..Len(dials) : dials'[m] = r(m)
  BY <1>2
<1>7. \A m \in 1..Len(dials) : m \in At(p) <=> Held(m) /\ dials[m].at = p
  BY <1>1 DEF At
<1>8. \A m \in 1..Len(dials) : h(m) = (dials[m].hooked /\ ~(Held(m) /\ dials[m].at = p))
  BY <1>7
<1> HIDE DEF r, h
<1> QED BY <1>4, <1>5, <1>6, <1>8

(* What is thrown away stays behind what throws it away. *)
LEMMA DoomedFronted ==
  ASSUME NEW i \in Nat, Doomed(i), i \in 1..Len(queue), Len(queue) \in Nat, clears' = clears,
         Len(queue') = Len(queue) + 1, \A j \in 2..Len(queue') : queue'[j] = queue[j - 1]
  PROVE  Doomed(i + 1)'
<1>1. CASE clears # 0
  BY <1>1 DEF Doomed
<1>2. ASSUME NEW k \in 1..(i - 1), queue[k].kind = "clear" PROVE Doomed(i + 1)'
  <2>1. k + 1 \in 2..Len(queue') /\ k + 1 \in 1..((i + 1) - 1) /\ (k + 1) - 1 = k
    OBVIOUS
  <2>2. queue'[k + 1].kind = "clear"
    BY <1>2, <2>1
  <2> QED BY <2>1, <2>2 DEF Doomed
<1> QED BY <1>1, <1>2 DEF Doomed

LEMMA DoomedTailed ==
  ASSUME NEW i \in Nat, Doomed(i + 1), i + 1 \in 1..Len(queue), Len(queue) \in Nat,
         clears' # 0 \/ (clears' = clears /\ queue[1].kind # "clear"),
         \A j \in 1..(Len(queue) - 1) : queue'[j] = queue[j + 1]
  PROVE  Doomed(i)'
<1>1. CASE clears' # 0
  BY <1>1 DEF Doomed
<1>2. CASE clears' = 0
  <2>1. PICK k \in 1..i : queue[k].kind = "clear"
    BY <1>2 DEF Doomed
  <2>2. k # 1
    BY <1>2, <2>1
  <2>3. k - 1 \in 1..(Len(queue) - 1) /\ k - 1 \in 1..(i - 1) /\ (k - 1) + 1 = k
    BY <2>2
  <2>4. queue'[k - 1].kind = "clear"
    BY <2>1, <2>3
  <2> QED BY <2>3, <2>4 DEF Doomed
<1> QED BY <1>1, <1>2

LEMMA DoomedAppended ==
  ASSUME NEW i \in 1..Len(queue), Doomed(i), Len(queue) \in Nat, clears' = clears,
         \A j \in 1..Len(queue) : queue'[j] = queue[j]
  PROVE  Doomed(i)'
<1>1. \A k \in 1..(i - 1) : queue'[k] = queue[k]
  OBVIOUS
<1> QED BY <1>1 DEF Doomed

(* lwIP *)
LEMMA EstablishedKeeps ==
  ASSUME NEW ph \in Stands, Sound(ph), Established
  PROVE  Sound(ph)'
<1> USE DEF Sound
<1>1. PICK n \in 1..Len(dials) :
        /\ dials[n].state = "syn" /\ dials' = To(n, "open")
        /\ queue' = <<[kind |-> "connected", of |-> n]>> \o queue
        /\ UNCHANGED <<asked, self, clears, app>>
  BY Typed DEF Established
<1>2. Len(dials) \in Nat /\ n = Len(dials) /\ ph = "calling"
  <2>1. Len(dials) \in Nat
    BY Typed
  <2>2. n = Len(dials) /\ ph \notin {"off", "asking"}
    BY <1>1, <2>1 DEF Connections
  <2>3. ph \notin {"on", "closing"}
    BY <1>1, <2>2 DEF Standing, Latest
  <2> QED BY <2>1, <2>2, <2>3 DEF Stands
<1>3. /\ dials' \in Seq(Dialled) /\ Len(dials') = Len(dials)
      /\ \A m \in 1..Len(dials) :
           /\ dials'[m].at = dials[m].at /\ dials'[m].port = dials[m].port
           /\ dials'[m].state = IF m = n THEN "open" ELSE dials[m].state
           /\ dials'[m].hooked = dials[m].hooked
  BY <1>1, Turns
<1> DEFINE e == [kind |-> "connected", of |-> n]
<1>4. e \in Event
  BY <1>2 DEF Event
<1>5. /\ queue' \in Seq(Event) /\ Len(queue') = Len(queue) + 1 /\ Len(queue) \in Nat
      /\ \A i \in 2..Len(queue') : queue'[i] = queue[i - 1]
      /\ queue'[1] = e
  BY <1>1, <1>4, Fronted DEF OutTypes
<1>6. OutTypes'
  BY <1>1, <1>3, <1>5 DEF OutTypes
<1>7. Connections(ph)'
  <2>1. Connections(ph) /\ \A m \in 1..Len(dials) : Held(m)' <=> Held(m)
    BY <1>1, <1>3 DEF Held
  <2> HIDE DEF Sound
  <2> QED BY <2>1, <1>2, <1>3 DEF Connections
<1>8. Standing(ph)'
  BY <1>1, <1>2, <1>3, <1>5 DEF Standing, UnderWay, Latest, OutTypes
<1>9. News(ph)'
  <2>1. \A i \in 1..Len(queue) : queue[i].kind # "connected" /\ ~Final(ph, i)
    BY <1>1, <1>2 DEF News, Awaited, UnderWay, Latest
  <2>3. \A i \in 2..Len(queue') : i - 1 \in 1..Len(queue)
    BY <1>5
  <2>4. \A i \in 1..Len(queue') : ~Final(ph, i)'
    BY <1>1, <1>2, <1>3, <1>5, <2>1, <2>3 DEF Final, UnderWay
  <2>5. ~Awaited(ph)'
    BY <1>1, <1>2, <1>3 DEF Awaited, Latest
  <2>6. ASSUME NEW i \in 1..Len(queue'), i # 1
        PROVE  /\ queue'[i] = queue[i - 1] /\ i - 1 \in 1..Len(queue)
               /\ Doomed(i - 1) => Doomed(i)'
    <3>1. i \in 2..Len(queue') /\ i - 1 \in 1..Len(queue) /\ i - 1 \in Nat /\ (i - 1) + 1 = i
      BY <2>6, <1>5
    <3>2. Doomed(i - 1) => Doomed((i - 1) + 1)'
      BY <3>1, <1>1, <1>5, DoomedFronted
    <3> QED BY <3>1, <3>2, <1>5
  <2> QED BY <1>1, <1>2, <1>3, <1>5, <2>1, <2>4, <2>5, <2>6 DEF News, UnderWay, Latest
<1> QED BY <1>6, <1>7, <1>8, <1>9

(* The connection that breaks is the latest; it tells so if it can. *)
LEMMA BreaksKeeps ==
  ASSUME NEW ph \in Stands, Sound(ph), Breaks
  PROVE  Sound(ph)'
<1> USE DEF Sound
<1>1. PICK n \in 1..Len(dials) :
        /\ dials[n].state \in {"syn", "open"} /\ dials' = To(n, "gone") /\ Raised(n, "error")
        /\ UNCHANGED <<asked, self, clears, app>>
  <2>1. PICK n \in 1..Len(dials) :
          /\ dials[n].state \in {"syn", "open", "half"} /\ dials' = To(n, "gone") /\ Raised(n, "error")
          /\ UNCHANGED <<asked, self, clears, app>>
    BY Typed DEF Breaks
  <2>2. dials[n].state # "half"
    BY Typed DEF Dialled
  <2> QED BY <2>1, <2>2
<1>2. Len(dials) \in Nat /\ n = Len(dials) /\ Latest = dials[n] /\ ph \in {"calling", "on", "closing"}
  BY <1>1, Typed DEF Connections, Standing, Latest, Stands
<1>3. /\ dials' \in Seq(Dialled) /\ Len(dials') = Len(dials)
      /\ \A m \in 1..Len(dials) :
           /\ dials'[m].at = dials[m].at /\ dials'[m].port = dials[m].port
           /\ dials'[m].state = IF m = n THEN "gone" ELSE dials[m].state
           /\ dials'[m].hooked = dials[m].hooked
  BY <1>1, Turns
<1>4. Connections(ph)'
  BY <1>1, <1>2, <1>3 DEF Connections, Held
<1>5. CASE ph = "closing"
  <2>1. queue' = queue
    BY <1>1, <1>2, <1>5 DEF Raised, Standing
  <2>2. OutTypes'
    BY <1>1, <1>3, <2>1 DEF OutTypes
  <2>3. Standing(ph)'
    BY <1>1, <1>2, <1>3, <1>5 DEF Standing, UnderWay, Latest
  <2>4. News(ph)'
    BY <1>1, <1>3, <1>5, <2>1 DEF News, UnderWay, Final, Awaited, Doomed
  <2> QED BY <1>4, <2>2, <2>3, <2>4
<1>6. CASE ph # "closing"
  <2> DEFINE e == [kind |-> "error", of |-> n]
  <2>1. queue' = Append(queue, e) /\ UnderWay(ph)
    BY <1>1, <1>2, <1>6 DEF Raised, Standing, UnderWay
  <2>2. e \in Event /\ queue \in Seq(Event)
    BY <1>2 DEF Event, OutTypes
  <2>3. /\ queue' \in Seq(Event) /\ Len(queue') = Len(queue) + 1 /\ Len(queue) \in Nat
        /\ \A i \in 1..Len(queue) : queue'[i] = queue[i]
        /\ queue'[Len(queue) + 1] = e
    BY <2>1, <2>2, Appended
  <2>4. OutTypes'
    BY <1>1, <1>3, <2>3 DEF OutTypes
  <2>5. Standing(ph)'
    BY <1>1, <1>2, <1>3, <1>6, <2>3 DEF Standing, UnderWay, Latest
  <2>6. News(ph)'
    <3>1. \A i \in 1..Len(queue) : ~Final(ph, i)
      BY <1>1, <1>2 DEF News, Awaited, Latest
    <3>2. \A i \in 1..Len(queue') : Final(ph, i)' <=> i = Len(queue) + 1
      BY <1>3, <2>1, <2>3, <3>1, <1>2 DEF Final, UnderWay
    <3>3. Awaited(ph)'
      BY <1>2, <1>3, <2>1 DEF Awaited, UnderWay, Latest
    <3>4. \A i \in 1..Len(queue) : Doomed(i) => Doomed(i)'
      BY <1>1, <2>3, DoomedAppended
    <3>5. ASSUME NEW i \in 1..Len(queue'), i # Len(queue) + 1
          PROVE  i \in 1..Len(queue) /\ queue'[i] = queue[i] /\ (Doomed(i) => Doomed(i)')
      BY <2>3, <3>4, <3>5
    <3> QED BY <1>1, <1>2, <1>3, <2>1, <2>3, <3>2, <3>3, <3>5 DEF News, UnderWay, Latest
  <2> QED BY <1>4, <2>4, <2>5, <2>6
<1> QED BY <1>5, <1>6

(* FIN before CONNECTED has been handled goes astray. *)
LEMMA PeerClosesKeeps ==
  ASSUME NEW ph \in Stands, Sound(ph), PeerCloses, astray' = {}
  PROVE  Sound(ph)'
<1> USE DEF Sound
<1>1. PICK n \in 1..Len(dials) :
        /\ dials[n].state = "open" /\ dials[n].hooked /\ self.pcb = dials[n].at
        /\ dials' = [dials EXCEPT ![n].state = "closed", ![n].hooked = FALSE]
        /\ self' = [self EXCEPT !.pcb = NoPlace]
        /\ Raised(n, "fin") /\ UNCHANGED <<asked, clears, app>>
  BY Typed DEF PeerCloses
<1>2. Len(dials) \in Nat /\ n = Len(dials) /\ Latest = dials[n]
  BY <1>1, Typed DEF Connections, Latest
<1>3. dials[n] \in Dialled /\ self \in [pcb : Places \cup {NoPlace}, port : Nat]
  BY Typed DEF OutTypes
<1>4. ph = "on"
  BY <1>1, <1>2, <1>3, ErrandAssumption DEF Connections, Standing, Stands, Dialled
<1> DEFINE r == [state |-> "closed", at |-> dials[n].at, port |-> dials[n].port, hooked |-> FALSE]
<1>5. r \in Dialled /\ dials' = [dials EXCEPT ![n] = r]
  BY <1>1, <1>3 DEF Dialled
<1>6. /\ dials' \in Seq(Dialled) /\ Len(dials') = Len(dials)
      /\ \A m \in 1..Len(dials) : dials'[m] = IF m = n THEN r ELSE dials[m]
  BY <1>5, Becomes
<1> DEFINE e == [kind |-> "fin", of |-> n]
<1>7. queue' = Append(queue, e) /\ e \in Event /\ queue \in Seq(Event)
  BY <1>1, <1>2 DEF Raised, Event, OutTypes
<1>8. /\ queue' \in Seq(Event) /\ Len(queue') = Len(queue) + 1 /\ Len(queue) \in Nat
      /\ \A i \in 1..Len(queue) : queue'[i] = queue[i]
      /\ queue'[Len(queue) + 1] = e
  BY <1>7, Appended
<1>9. OutTypes' /\ self'.pcb = NoPlace
  BY <1>1, <1>3, <1>6, <1>8 DEF OutTypes
<1>10. Connections(ph)'
  BY <1>1, <1>2, <1>4, <1>6 DEF Connections, Held
<1>11. Standing(ph)'
  BY <1>1, <1>2, <1>4, <1>6, <1>9 DEF Standing, UnderWay, Latest
<1>12. News(ph)'
  <2>1. \A i \in 1..Len(queue) : ~Final(ph, i)
    BY <1>1, <1>2, <1>4 DEF News, Awaited, Latest
  <2>2. \A i \in 1..Len(queue') : Final(ph, i)' <=> i = Len(queue) + 1
    <3>1. ASSUME NEW i, i = Len(queue) + 1 PROVE Final(ph, i)'
      <4>1. queue'[i].kind = "fin"
        BY <1>8, <3>1
      <4> HIDE DEF Sound, e
      <4> QED BY <4>1 DEF Final
    <3>2. ASSUME NEW i \in 1..Len(queue) PROVE ~Final(ph, i)'
      <4>1. queue'[i] = queue[i] /\ ~Final(ph, i) /\ Len(dials') = Len(dials)
        BY <1>6, <1>8, <2>1
      <4> QED BY <4>1 DEF Final, UnderWay
    <3>3. \A i \in 1..Len(queue') : i = Len(queue) + 1 \/ i \in 1..Len(queue)
      BY <1>8
    <3> HIDE DEF Sound, e
    <3> QED BY <3>1, <3>2, <3>3
  <2>3. Awaited(ph)'
    BY <1>2, <1>4, <1>6 DEF Awaited, UnderWay, Latest
  <2>4. \A i \in 1..Len(queue) : Doomed(i) => Doomed(i)'
    BY <1>1, <1>8, DoomedAppended
  <2>5. ASSUME NEW i \in 1..Len(queue'), i # Len(queue) + 1
        PROVE  i \in 1..Len(queue) /\ queue'[i] = queue[i] /\ (Doomed(i) => Doomed(i)')
    BY <1>8, <2>4, <2>5
  <2>6. \A i \in 1..Len(queue) : queue[i].kind # "fin"
    BY <2>1 DEF Final
  <2> QED BY <1>1, <1>2, <1>4, <1>6, <1>8, <1>9, <2>2, <2>3, <2>5, <2>6 DEF News, UnderWay, Latest
<1> QED BY <1>9, <1>10, <1>11, <1>12

LEMMA FreesPcbKeeps ==
  ASSUME NEW ph \in Stands, Sound(ph), FreesPcb
  PROVE  Sound(ph)'
<1> USE DEF Sound
<1>1. PICK n \in 1..Len(dials) :
        /\ dials[n].state = "closed" /\ dials' = To(n, "gone")
        /\ UNCHANGED <<queue, asked, self, clears, app>>
  BY Typed DEF FreesPcb
<1>2. /\ dials' \in Seq(Dialled) /\ Len(dials') = Len(dials)
      /\ \A m \in 1..Len(dials) :
           /\ dials'[m].at = dials[m].at /\ dials'[m].port = dials[m].port
           /\ dials'[m].state = IF m = n THEN "gone" ELSE dials[m].state
           /\ dials'[m].hooked = dials[m].hooked
  BY <1>1, Turns
<1>3. Len(dials) \in Nat
  BY Typed
<1>4. OutTypes'
  BY <1>1, <1>2 DEF OutTypes
<1>5. Connections(ph)'
  BY <1>1, <1>2, <1>3 DEF Connections, Held
<1>6. Standing(ph)'
  BY <1>1, <1>2, <1>3 DEF Standing, UnderWay, Latest
<1>7. News(ph)'
  <2>1. Len(dials) > 0
    BY <1>3
  <2>2. Awaited(ph)' <=> Awaited(ph)
    BY <1>1, <1>2, <2>1, <1>3 DEF Awaited, UnderWay, Latest
  <2>3. \A i \in 1..Len(queue) : (Final(ph, i)' <=> Final(ph, i)) /\ (Doomed(i)' <=> Doomed(i))
    BY <1>1, <1>2 DEF Final, UnderWay, Doomed
  <2>4. Latest.state # "syn" => Latest'.state # "syn"
    BY <1>2, <2>1, <1>3 DEF Latest
  <2> QED BY <1>1, <1>2, <2>2, <2>3, <2>4 DEF News, UnderWay
<1> QED BY <1>4, <1>5, <1>6, <1>7

LEMMA DnsAnswersKeeps ==
  ASSUME NEW ph \in Stands, Sound(ph), DnsAnswers
  PROVE  Sound(ph)'
<1> USE DEF Sound
<1>1. PICK kind \in {"found", "unknown"} :
        /\ asked > 0 /\ asked' = asked - 1 /\ queue' = Append(queue, [kind |-> kind, of |-> 0])
        /\ UNCHANGED <<dials, self, clears, app>>
  BY DEF DnsAnswers
<1>2. ph = "asking" /\ asked = 1 /\ asked' = 0
  BY <1>1 DEF Standing, OutTypes
<1> DEFINE e == [kind |-> kind, of |-> 0]
<1>3. e \in Event /\ queue \in Seq(Event) /\ Len(dials) \in Nat
  BY Typed DEF Event, OutTypes
<1>4. /\ queue' \in Seq(Event) /\ Len(queue') = Len(queue) + 1 /\ Len(queue) \in Nat
      /\ \A i \in 1..Len(queue) : queue'[i] = queue[i]
      /\ queue'[Len(queue) + 1] = e
  BY <1>1, <1>3, Appended
<1>5. OutTypes' /\ Connections(ph)'
  BY <1>1, <1>2, <1>4 DEF OutTypes, Connections, Held
<1>6. Standing(ph)'
  BY <1>1, <1>2 DEF Standing, UnderWay, Latest
<1>7. News(ph)'
  <2>1. \A i \in 1..Len(queue) : ~Final(ph, i)
    BY <1>2 DEF News, Awaited, UnderWay
  <2>2. \A i \in 1..Len(queue') : Final(ph, i)' <=> i = Len(queue) + 1
    BY <1>1, <1>4, <2>1 DEF Final, UnderWay
  <2>3. Awaited(ph)'
    BY <1>2 DEF Awaited
  <2>4. \A i \in 1..Len(queue) : Doomed(i) => Doomed(i)'
    BY <1>1, <1>4, DoomedAppended
  <2>5. ASSUME NEW i \in 1..Len(queue'), i # Len(queue) + 1
        PROVE  i \in 1..Len(queue) /\ queue'[i] = queue[i] /\ (Doomed(i) => Doomed(i)')
    BY <1>4, <2>4, <2>5
  <2> QED BY <1>1, <1>2, <1>3, <1>4, <2>2, <2>3, <2>5 DEF News, UnderWay, Latest
<1> QED BY <1>5, <1>6, <1>7

-----------------------------------------------------------------------------
(* A connection is made at a free place when none is under way. *)
LEMMA DialsKeeps ==
  ASSUME NEW ph \in {"off", "asking"}, Sound(ph), NEW p \in Nat, Dials(p, "syn"),
         asked = 0, asked' = asked, self' = self, clears' = clears,
         \/ ph = "off" /\ queue' = queue
         \/ ph = "asking" /\ queue # <<>> /\ clears = 0 /\ Final(ph, 1) /\ queue' = Tail(queue),
         app' \in [calls : Seq(Errand), refusals : Nat, pc : {"idle"}, told : {"waiting"}, port : {p}]
  PROVE  Sound("calling")'
<1> USE DEF Sound
<1>1. PICK at \in FreePlaces :
        dials' = Append(dials, [state |-> "syn", at |-> at, port |-> p, hooked |-> TRUE])
  BY DEF Dials
<1> DEFINE d == [state |-> "syn", at |-> at, port |-> p, hooked |-> TRUE]
<1>2. d \in Dialled /\ dials \in Seq(Dialled) /\ Len(dials) \in Nat
  BY Typed DEF Dialled, FreePlaces, OutTypes
<1>3. /\ dials' \in Seq(Dialled) /\ Len(dials') = Len(dials) + 1
      /\ \A m \in 1..Len(dials) : dials'[m] = dials[m]
      /\ dials'[Len(dials) + 1] = d
  <2> HIDE DEF d
  <2> QED BY <1>1, <1>2 DEF d
<1>4. \A m \in 1..Len(dials) : dials[m].state \in {"closed", "gone"} /\ (Held(m) => dials[m].at # at)
  BY Typed DEF Connections, FreePlaces
<1>5. queue \in Seq(Event) /\ Len(queue) \in Nat
  BY Typed DEF OutTypes
<1>8. Connections("calling")'
  <2>1. \A m \in 1..Len(dials') : m \in 1..Len(dials) \/ m = Len(dials')
    BY <1>2, <1>3
  <2>2. \A m \in 1..Len(dials) : Held(m)' = Held(m) /\ dials'[m].at = dials[m].at
                                 /\ dials'[m].state = dials[m].state
    BY <1>3 DEF Held
  <2>3. dials'[Len(dials')].at = at
    BY <1>3
  <2>4. \A n \in 1..Len(dials') : n < Len(dials') => dials'[n].state \in {"closed", "gone"}
    BY <1>2, <1>3, <1>4, <2>1, <2>2
  <2>5. ASSUME NEW m \in 1..Len(dials'), NEW n \in 1..Len(dials'), Held(m)', Held(n)',
               dials'[m].at = dials'[n].at
        PROVE  m = n
    <3>1. CASE m \in 1..Len(dials) /\ n \in 1..Len(dials)
      BY <2>2, <2>5, <3>1 DEF Connections
    <3>2. CASE m = Len(dials') /\ n \in 1..Len(dials)
      BY <1>4, <2>2, <2>3, <2>5, <3>2
    <3>3. CASE n = Len(dials') /\ m \in 1..Len(dials)
      BY <1>4, <2>2, <2>3, <2>5, <3>3
    <3> QED BY <2>1, <3>1, <3>2, <3>3
  <2> QED BY <2>4, <2>5 DEF Connections
<1>6. CASE ph = "off" /\ queue' = queue
  <2>1. OutTypes'
    BY <1>2, <1>3, <1>6 DEF OutTypes
  <2>3. Standing("calling")'
    BY <1>2, <1>3, <1>6 DEF Standing, UnderWay, Latest
  <2>4. \A i \in 1..Len(queue) : Doomed(i)' <=> Doomed(i)
    BY <1>6 DEF Doomed
  <2>5. \A i \in 1..Len(queue) : ~Final(ph, i) /\ queue[i].of # Len(dials) + 1
    BY <1>2, <1>6 DEF News, Awaited, UnderWay
  <2>6. \A i \in 1..Len(queue) : ~Final("calling", i)'
    BY <1>2, <1>3, <1>6, <2>5 DEF News, UnderWay, Final
  <2>7. ~Awaited("calling")'
    BY <1>2, <1>3 DEF Awaited, Latest
  <2>8. \A i \in 1..Len(queue) :
          /\ queue[i].of \in 0..Len(dials) /\ queue[i].kind \in {"connected", "error", "clear"}
          /\ queue[i].kind # "connected"
          /\ queue[i].kind = "error" => Doomed(i)
          /\ queue[i].kind = "clear" => queue[i].of > 0
    <3>1. \A i \in 1..Len(queue) : queue[i] \in Event
      BY <1>5
    <3>2. News("off")
      BY <1>6
    <3> HIDE DEF Sound
    <3>3. ASSUME NEW i \in 1..Len(queue)
          PROVE  /\ queue[i].of \in 0..Len(dials) /\ queue[i].kind \in {"connected", "error", "clear"}
                 /\ queue[i].kind # "connected"
                 /\ queue[i].kind = "error" => Doomed(i)
                 /\ queue[i].kind = "clear" => queue[i].of > 0
      BY <3>1, <3>2 DEF News, UnderWay, Event
    <3> QED BY <3>3
  <2>9. clears' = clears /\ clears # Len(dials')
    BY <1>2, <1>3 DEF OutTypes
  <2>10. News("calling")'
    <3>1. \A i \in 1..Len(queue) : queue[i].of # Len(dials')
      BY <1>2, <1>3, <2>8
    <3> HIDE DEF Sound
    <3> QED BY <1>2, <1>3, <1>6, <2>4, <2>6, <2>7, <2>8, <2>9, <3>1 DEF News
  <2> QED BY <1>8, <2>1, <2>3, <2>10
<1>7. CASE ph = "asking" /\ queue # <<>> /\ clears = 0 /\ Final(ph, 1) /\ queue' = Tail(queue)
  <2>1. /\ queue' \in Seq(Event) /\ Len(queue') = Len(queue) - 1 /\ Len(queue) > 0
        /\ \A i \in 1..(Len(queue) - 1) : queue'[i] = queue[i + 1]
    BY <1>5, <1>7, Tailed
  <2>2. OutTypes'
    BY <1>2, <1>3, <2>1 DEF OutTypes
  <2>4. Standing("calling")'
    BY <1>2, <1>3, <1>7 DEF Standing, UnderWay, Latest
  <2>5. \A i \in 1..Len(queue) : queue[i].of # Len(dials) + 1 /\ (i # 1 => ~Final(ph, i))
    BY <1>2, <1>7, <2>1 DEF News
  <2>6. queue[1].kind # "clear"
    BY <1>7 DEF Final, UnderWay
  <2>7. ASSUME NEW i \in 1..Len(queue')
        PROVE  /\ queue'[i] = queue[i + 1] /\ i + 1 \in 1..Len(queue) /\ i + 1 # 1
               /\ Doomed(i + 1) => Doomed(i)'
    BY <1>5, <2>1, <2>6, DoomedTailed
  <2>8. ASSUME NEW i \in 1..Len(queue') PROVE ~Final("calling", i)'
    <3>1. queue'[i] = queue[i + 1] /\ queue[i + 1].of # Len(dials) + 1 /\ ~Final(ph, i + 1)
      BY <2>5, <2>7
    <3> QED BY <1>3, <3>1 DEF Final, UnderWay
  <2>9. ~Awaited("calling")'
    BY <1>2, <1>3 DEF Awaited, Latest
  <2>10. clears' # Len(dials')
    BY <1>2, <1>3 DEF OutTypes
  <2>11. ASSUME NEW i \in 1..Len(queue')
         PROVE  LET e == queue'[i]
                IN  /\ e.of \in 0..Len(dials) /\ e.kind \notin {"found", "unknown", "fin", "connected"}
                    /\ e.kind = "error" => Doomed(i)'
                    /\ e.kind = "clear" => e.of > 0 /\ e.of # Len(dials')
    <3>1. queue[i + 1].kind \notin {"found", "unknown", "fin"}
      BY <2>5, <2>7 DEF Final
    <3> DEFINE e == queue[i + 1]
    <3>2. /\ e.of \in 0..Len(dials) /\ e.kind # "connected"
          /\ e.kind = "error" => Doomed(i + 1)
          /\ e.kind = "clear" => e.of > 0
      BY <1>7, <2>7 DEF News, UnderWay
    <3>3. queue'[i] = e /\ (Doomed(i + 1) => Doomed(i)')
      BY <2>7
    <3>4. e.of # Len(dials')
      BY <1>2, <1>3, <3>2
    <3> HIDE DEF e
    <3> QED BY <3>1, <3>2, <3>3, <3>4 DEF e
  <2>12. News("calling")'
    BY <1>2, <1>3, <2>8, <2>9, <2>10, <2>11 DEF News, UnderWay
  <2> QED BY <1>8, <2>2, <2>4, <2>12
<1> QED BY <1>6, <1>7

(* The application begins a call of its errand. *)
LEMMA Begun ==
  ASSUME OutTypes, NEW call, Asks(call)
  PROVE  /\ app.pc = "idle" /\ Port \in Nat /\ Tail(app.calls) \in Seq(Errand)
         /\ \A s : Said(s) = [calls |-> Tail(app.calls), refusals |-> app.refusals, pc |-> app.pc,
                              told |-> s, port |-> Port]
<1>1. app \in [calls : Seq(Errand), refusals : Nat, pc : {"idle", "port", "close"},
               told : {"off", "on", "waiting"}, port : Nat]
  BY DEF OutTypes
<1>2. app.pc = "idle" /\ app.calls # <<>> /\ app.calls \in Seq(Errand)
  BY <1>1 DEF Asks
<1>3. Head(app.calls) \in Errand /\ Tail(app.calls) \in Seq(Errand)
  BY <1>2
<1>4. Port \in Nat
  BY <1>3 DEF Port, Errand
<1>5. ASSUME NEW s
      PROVE  Said(s) = [calls |-> Tail(app.calls), refusals |-> app.refusals, pc |-> app.pc,
                        told |-> s, port |-> Port]
  <2> DEFINE rest == Tail(app.calls)
             to == Port
  <2>1. Said(s) = [app EXCEPT !.calls = rest, !.told = s, !.port = to]
    BY DEF Said
  <2> HIDE DEF rest, to
  <2>2. Said(s) = [calls |-> rest, refusals |-> app.refusals, pc |-> app.pc, told |-> s, port |-> to]
    BY <1>1, <2>1
  <2> QED BY <2>2 DEF rest, to
<1> QED BY <1>2, <1>3, <1>4, <1>5

LEMMA ConnectKeeps ==
  ASSUME NEW ph \in Stands, Sound(ph), ByAddress \/ ByName, astray' = {}
  PROVE  \E s \in Stands : Sound(s)'
<1> USE DEF Sound
<1>1. PICK call : Asks(call) /\ app.told = "off" /\ (ConnectIp \/ ConnectHost)
  BY DEF ByAddress, ByName
<1>2. /\ app.pc = "idle" /\ Port \in Nat /\ Tail(app.calls) \in Seq(Errand)
      /\ \A s : Said(s) = [calls |-> Tail(app.calls), refusals |-> app.refusals, pc |-> app.pc,
                              told |-> s, port |-> Port]
  BY <1>1, Begun
<1>3. ph = "off" /\ asked = 0 /\ app.refusals \in Nat
  BY <1>1 DEF Standing, Stands, OutTypes
<1>4. CASE Dials(Port, "syn") /\ app' = Said("waiting") /\ UNCHANGED <<queue, asked, self, clears>>
  <2>1. app' \in [calls : Seq(Errand), refusals : Nat, pc : {"idle"}, told : {"waiting"}, port : {Port}]
    BY <1>2, <1>3, <1>4
  <2>2. Sound("calling")'
    BY <1>2, <1>3, <1>4, <2>1, DialsKeeps
  <2> QED BY <2>2 DEF Stands
<1>5. CASE app' = Said("off") /\ UNCHANGED <<dials, queue, asked, self, clears>>
  <2>1. app' = [calls |-> Tail(app.calls), refusals |-> app.refusals, pc |-> "idle",
                told |-> "off", port |-> Port]
    BY <1>2, <1>5
  <2>5. app' \in [calls : Seq(Errand), refusals : Nat, pc : {"idle", "port", "close"},
                   told : {"off", "on", "waiting"}, port : Nat]
    BY <1>2, <1>3, <2>1
  <2>4. OutTypes'
    BY <1>3, <1>5, <2>5 DEF OutTypes
  <2>2. Connections("off")' /\ Standing("off")'
    BY <1>2, <1>3, <1>5, <2>1 DEF OutTypes, Connections, Held, Standing, UnderWay, Latest
  <2>3. News("off")'
    BY <1>3, <1>5 DEF News, UnderWay, Latest, Final, Awaited, Doomed
  <2> QED BY <2>2, <2>3, <2>4 DEF Stands
<1>6. CASE /\ asked' = asked + 1 /\ app' = [Said("waiting") EXCEPT !.pc = "port"]
           /\ UNCHANGED <<dials, queue, self, clears>>
  <2>1. app' = [calls |-> Tail(app.calls), refusals |-> app.refusals, pc |-> "port",
                told |-> "waiting", port |-> Port]
    BY <1>2, <1>6
  <2>5. app' \in [calls : Seq(Errand), refusals : Nat, pc : {"idle", "port", "close"},
                   told : {"off", "on", "waiting"}, port : Nat]
    BY <1>2, <1>3, <2>1
  <2>4. OutTypes'
    BY <1>3, <1>6, <2>5 DEF OutTypes
  <2>2. Connections("asking")' /\ Standing("asking")'
    BY <1>2, <1>3, <1>6, <2>1 DEF OutTypes, Connections, Held, Standing, UnderWay, Latest
  <2>3. News("asking")'
    BY <1>3, <1>6 DEF News, UnderWay, Latest, Final, Awaited, Doomed
  <2> QED BY <2>2, <2>3, <2>4 DEF Stands
<1>7. ~ConnectRefused(Port)
  BY DEF ConnectRefused
<1> QED BY <1>1, <1>4, <1>5, <1>6, <1>7 DEF ConnectIp, ConnectHost, Refuses

LEMMA StorePortKeeps ==
  ASSUME NEW ph \in Stands, Sound(ph), StorePort
  PROVE  Sound(ph)'
<1> USE DEF Sound
<1>1. /\ app.pc = "port" /\ app' = [app EXCEPT !.pc = "idle"]
      /\ self' = [self EXCEPT !.port = app.port] /\ UNCHANGED <<dials, queue, asked, clears>>
  BY DEF StorePort
<1>2. ph \in {"off", "asking"}
  BY <1>1 DEF Standing, UnderWay, Stands
<1>3. /\ app' \in [calls : Seq(Errand), refusals : Nat, pc : {"idle"}, told : {app.told}, port : {app.port}]
      /\ self' \in [pcb : {self.pcb}, port : {app.port}] /\ self.pcb \in Places \cup {NoPlace}
      /\ app.port \in Nat /\ app.told \in {"off", "on", "waiting"}
  BY <1>1 DEF OutTypes
<1>4. OutTypes' /\ Connections(ph)'
  BY <1>1, <1>3 DEF OutTypes, Connections, Held
<1>5. Standing(ph)'
  BY <1>1, <1>2, <1>3 DEF Standing, UnderWay, Latest
<1>6. News(ph)'
  BY <1>1, <1>2, <1>3 DEF News, UnderWay, Latest, Final, Awaited, Doomed
<1> QED BY <1>4, <1>5, <1>6

(* close() is clear of the connection's events: they are behind the clear. *)
LEMMA DisconnectsKeeps ==
  ASSUME NEW ph \in Stands, Sound(ph), Disconnects
  PROVE  \E s \in Stands : Sound(s)'
<1> USE DEF Sound
<1>1. /\ Asks("close") /\ app.told = "on" /\ UNCHANGED <<asked, self, clears>>
      /\ \/ self.pcb = NoPlace /\ app' = Said(app.told) /\ UNCHANGED <<dials, queue>>
         \/ /\ self.pcb # NoPlace /\ app' = [Said(app.told) EXCEPT !.pc = "close"]
            /\ dials' = Unhooked(self.pcb) /\ CloseClears
  BY DEF Disconnects
<1>2. /\ app.pc = "idle" /\ Port \in Nat /\ Tail(app.calls) \in Seq(Errand)
      /\ \A s : Said(s) = [calls |-> Tail(app.calls), refusals |-> app.refusals, pc |-> app.pc,
                              told |-> s, port |-> Port]
  BY <1>1, Begun
<1>3. ph = "on" /\ app.refusals \in Nat /\ app.told \in {"off", "on", "waiting"}
  BY <1>1, <1>2 DEF Standing, UnderWay, Stands, OutTypes
<1>4. CASE self.pcb = NoPlace /\ app' = Said(app.told) /\ UNCHANGED <<dials, queue>>
  <2>1. app' = [calls |-> Tail(app.calls), refusals |-> app.refusals, pc |-> "idle",
                told |-> "on", port |-> Port]
    BY <1>1, <1>2, <1>4
  <2>2. app' \in [calls : Seq(Errand), refusals : Nat, pc : {"idle", "port", "close"},
                  told : {"off", "on", "waiting"}, port : Nat]
    BY <1>2, <1>3, <2>1
  <2>3. OutTypes' /\ Connections("on")'
    BY <1>1, <1>3, <1>4, <2>2 DEF OutTypes, Connections, Held
  <2>4. dials[Len(dials)].at \in Places /\ dials[Len(dials)].state \in {"syn", "open", "closed", "gone"}
    BY <1>3, Typed DEF Standing, Dialled
  <2>5. Standing("on")'
    BY <1>1, <1>3, <1>4, <2>1, <2>4, ErrandAssumption DEF Standing, UnderWay, Latest
  <2>6. News("on")'
    BY <1>1, <1>3, <1>4 DEF News, UnderWay, Latest, Final, Awaited, Doomed
  <2> QED BY <2>3, <2>5, <2>6 DEF Stands
<1>5. CASE /\ self.pcb # NoPlace /\ app' = [Said(app.told) EXCEPT !.pc = "close"]
           /\ dials' = Unhooked(self.pcb) /\ CloseClears
  <2> DEFINE e == [kind |-> "clear", of |-> Len(dials)]
  <2>1. app' = [calls |-> Tail(app.calls), refusals |-> app.refusals, pc |-> "close",
                told |-> "on", port |-> Port]
    BY <1>1, <1>2, <1>5
  <2>2. app' \in [calls : Seq(Errand), refusals : Nat, pc : {"idle", "port", "close"},
                  told : {"off", "on", "waiting"}, port : Nat]
    BY <1>2, <1>3, <2>1
  <2>3. Len(dials) \in Nat /\ Len(dials) > 0 /\ self.pcb = Latest.at /\ Latest.state # "syn"
    BY <1>3, <1>5, Typed DEF Standing
  <2>4. /\ dials' \in Seq(Dialled) /\ Len(dials') = Len(dials)
        /\ \A m \in 1..Len(dials) :
             /\ dials'[m].at = dials[m].at /\ dials'[m].port = dials[m].port
             /\ dials'[m].state = dials[m].state
             /\ dials'[m].hooked = (dials[m].hooked /\ ~(Held(m) /\ dials[m].at = self.pcb))
    BY <1>5, Unhooks
  <2>5. e \in Event /\ queue \in Seq(Event) /\ queue' = <<e>> \o queue
    BY <1>5, <2>3 DEF Event, OutTypes, CloseClears, ClearEvents
  <2>6. /\ queue' \in Seq(Event) /\ Len(queue') = Len(queue) + 1 /\ Len(queue) \in Nat
        /\ \A i \in 2..Len(queue') : queue'[i] = queue[i - 1]
        /\ queue'[1] = e
    <3> HIDE DEF e
    <3> QED BY <2>5, Fronted
  <2>7. OutTypes'
    BY <1>1, <2>2, <2>4, <2>6 DEF OutTypes
  <2>8. Connections("closing")'
    BY <1>3, <2>3, <2>4 DEF Connections, Held
  <2>9. Standing("closing")'
    <3>1. Len(dials) \in 1..Len(dials) /\ dials[Len(dials)].at = self.pcb
      BY <2>3 DEF Latest
    <3>2. dials'[Len(dials)].state = "open" => ~dials'[Len(dials)].hooked
      BY <2>4, <3>1 DEF Held
    <3>3. dials'[Len(dials)].state # "syn" /\ dials'[Len(dials)].at = self.pcb
      BY <2>3, <2>4, <3>1 DEF Latest
    <3>4. asked = 0
      BY <1>3 DEF Standing
    <3> QED BY <1>1, <2>1, <2>3, <2>4, <3>2, <3>3, <3>4 DEF Standing, UnderWay, Latest
  <2>10. \A i \in 1..Len(queue) : queue[i].kind \in {"error", "fin", "clear"}
    BY <1>3, Typed DEF News, Event
  <2>11. \A i \in 1..Len(queue) : queue[i].kind # "fin"
    BY <1>5 DEF News
  <2>12. ASSUME NEW i \in 2..Len(queue')
         PROVE  queue'[i] = queue[i - 1] /\ i - 1 \in 1..Len(queue) /\ Doomed(i)'
    <3>1. 1 \in 1..(i - 1) /\ queue'[1].kind = "clear"
      BY <2>6
    <3> QED BY <2>6, <3>1 DEF Doomed
  <2>14. ASSUME NEW i \in 1..Len(queue')
         PROVE  LET f == queue'[i]
                IN  /\ f.of \in 0..Len(dials) /\ f.kind \in {"error", "clear"}
                    /\ f.kind = "error" => Doomed(i)'
                    /\ f.kind = "clear" => f.of > 0
    <3>1. CASE i = 1
      BY <2>3, <2>6, <3>1
    <3>2. CASE i # 1
      <4>1. i \in 2..Len(queue')
        BY <3>2
      <4>2. queue'[i] = queue[i - 1] /\ i - 1 \in 1..Len(queue) /\ Doomed(i)'
        BY <4>1, <2>12
      <4>3. /\ queue[i - 1].kind \in {"error", "clear"} /\ queue[i - 1].of \in 0..Len(dials)
            /\ queue[i - 1].kind = "clear" => queue[i - 1].of > 0
        BY <4>2, <2>10, <2>11 DEF News
      <4> QED BY <4>2, <4>3
    <3> QED BY <3>1, <3>2
  <2>13. \A i \in 1..Len(queue') : ~Final("closing", i)'
    BY <2>14 DEF Final, UnderWay
  <2>15. News("closing")'
    BY <2>4, <2>13, <2>14 DEF News, UnderWay, Awaited
  <2> QED BY <2>7, <2>8, <2>9, <2>15 DEF Stands
<1> QED BY <1>1, <1>4, <1>5

LEMMA ClosesKeeps ==
  ASSUME NEW ph \in Stands, Sound(ph), Closes
  PROVE  Sound("off")'
<1> USE DEF Sound
<1>1. /\ app.pc = "close" /\ app' = [app EXCEPT !.pc = "idle", !.told = "off"]
      /\ dials' = [n \in DOMAIN dials |->
                     IF n \in At(self.pcb) /\ dials[n].state \in {"open", "half"}
                       THEN [dials[n] EXCEPT !.state = "closed"] ELSE dials[n]]
      /\ self' = [self EXCEPT !.pcb = NoPlace]
      /\ UNCHANGED <<queue, asked, clears>>
  BY DEF Closes
<1>2. ph = "closing"
  BY <1>1 DEF Standing, UnderWay, Stands
<1>3. /\ Len(dials) \in Nat /\ Len(dials) > 0 /\ self.pcb = Latest.at /\ Latest.state # "syn"
      /\ DOMAIN dials = 1..Len(dials) /\ \A n \in 1..Len(dials) : dials[n] \in Dialled
  BY <1>2, Typed DEF Standing
<1>4. /\ app' \in [calls : Seq(Errand), refusals : Nat, pc : {"idle"}, told : {"off"}, port : Nat]
      /\ self' \in [pcb : {NoPlace}, port : Nat]
  BY <1>1 DEF OutTypes
<1> DEFINE r(n) == IF n \in At(self.pcb) /\ dials[n].state \in {"open", "half"}
                     THEN [dials[n] EXCEPT !.state = "closed"] ELSE dials[n]
<1>5. ASSUME NEW n \in 1..Len(dials)
      PROVE  /\ r(n) \in Dialled /\ r(n).at = dials[n].at
             /\ dials[n].state \in {"closed", "gone"} => r(n).state = dials[n].state
             /\ dials[n].state = "open" /\ dials[n].at = self.pcb => r(n).state = "closed"
             /\ Held(n) <=> r(n).state # "gone"
  <2>1. dials[n] \in Dialled
    BY <1>3
  <2>2. [dials[n] EXCEPT !.state = "closed"] \in Dialled
    BY <2>1 DEF Dialled
  <2>3. dials[n].state = "open" /\ dials[n].at = self.pcb => n \in At(self.pcb)
    BY <1>3 DEF At, Held
  <2> QED BY <2>1, <2>2, <2>3 DEF Dialled, Held
<1>6. /\ dials' \in Seq(Dialled) /\ Len(dials') = Len(dials)
      /\ \A n \in 1..Len(dials) : dials'[n] = r(n)
  <2>1. dials' = [n \in 1..Len(dials) |-> r(n)]
    BY <1>1, <1>3
  <2> HIDE DEF r
  <2> QED BY <1>3, <1>5, <2>1
<1> HIDE DEF r
<1>7. OutTypes'
  BY <1>1, <1>4, <1>6 DEF OutTypes
<1>8. \A n \in 1..Len(dials) : dials'[n].state \in {"closed", "gone"}
  <2>1. ASSUME NEW n \in 1..Len(dials) PROVE dials'[n].state \in {"closed", "gone"}
    <3>1. CASE n < Len(dials)
      BY <1>5, <1>6, <3>1 DEF Connections
    <3>2. CASE n = Len(dials)
      <4>1. dials[n] \in Dialled /\ dials[n].state # "syn" /\ dials[n].at = self.pcb
        BY <1>3, <3>2 DEF Latest
      <4>2. dials[n].state \in {"open", "closed", "gone"}
        BY <4>1 DEF Dialled
      <4>3. r(n).state \in {"closed", "gone"}
        BY <1>5, <4>1, <4>2
      <4> QED BY <1>6, <4>3
    <3>3. n < Len(dials) \/ n = Len(dials)
      <4> HIDE DEF Sound
      <4>1. Len(dials) \in Nat
        BY <1>3
      <4> QED BY <2>1, <4>1
    <3> QED BY <3>1, <3>2, <3>3
  <2> QED BY <2>1
<1>9. Connections("off")'
  BY <1>5, <1>6, <1>8 DEF Connections, Held
<1>10. Standing("off")'
  BY <1>1, <1>2, <1>4 DEF Standing, UnderWay
<1>11. News("off")'
  BY <1>1, <1>2, <1>6 DEF News, UnderWay, Final, Awaited, Doomed
<1> QED BY <1>7, <1>9, <1>10, <1>11

-----------------------------------------------------------------------------
(* The task of the queue takes the event in front. *)
LEMMA Taken ==
  ASSUME OutTypes, queue # <<>>, queue' = Tail(queue)
  PROVE  /\ queue' \in Seq(Event) /\ Len(queue') = Len(queue) - 1 /\ Len(queue) \in Nat /\ Len(queue) > 0
         /\ \A i \in 1..Len(queue') :
              queue'[i] = queue[i + 1] /\ i + 1 \in 1..Len(queue) /\ i + 1 # 1
         /\ Head(queue) = queue[1] /\ queue[1] \in Event /\ 1 \in 1..Len(queue)
<1>1. queue \in Seq(Event)
  BY DEF OutTypes
<1> QED BY <1>1, Tailed

LEMMA DoomedTaken ==
  ASSUME OutTypes, queue # <<>>, queue' = Tail(queue), NEW i \in 1..Len(queue'), Doomed(i + 1),
         clears' # 0 \/ (clears' = clears /\ queue[1].kind # "clear")
  PROVE  Doomed(i)'
<1>1. /\ Len(queue') = Len(queue) - 1 /\ Len(queue) \in Nat /\ Len(queue) > 0 /\ i + 1 \in 1..Len(queue)
      /\ \A j \in 1..Len(queue') : queue'[j] = queue[j + 1]
  BY Taken
<1>2. \A j \in 1..(Len(queue) - 1) : queue'[j] = queue[j + 1]
  BY <1>1
<1>3. i \in Nat
  OBVIOUS
<1> QED BY <1>1, <1>2, <1>3, DoomedTailed

(* CONNECTED is the first that is heard of the latest connection. *)
LEMMA ConnectedKeeps ==
  ASSUME NEW ph \in Stands, Sound(ph), HandleConnected
  PROVE  Sound("on")'
<1> USE DEF Sound
<1>1. /\ clears = 0 /\ queue # <<>> /\ Head(queue).kind = "connected" /\ queue' = Tail(queue)
      /\ app' = [app EXCEPT !.told = "on"]
      /\ self' = [self EXCEPT !.pcb = dials[Head(queue).of].at] /\ UNCHANGED <<dials, asked, clears>>
  BY DEF HandleConnected, Handles, Tell
<1>2. /\ queue' \in Seq(Event) /\ Len(queue') = Len(queue) - 1 /\ Len(queue) \in Nat /\ Len(queue) > 0
      /\ \A i \in 1..Len(queue') :
           queue'[i] = queue[i + 1] /\ i + 1 \in 1..Len(queue) /\ i + 1 # 1
      /\ Head(queue) = queue[1] /\ queue[1] \in Event /\ 1 \in 1..Len(queue)
  BY <1>1, Taken
<1>3. ph = "calling" /\ queue[1].of = Len(dials) /\ Latest.state # "syn"
  BY <1>1, <1>2 DEF News
<1>4. /\ Len(dials) > 0 /\ Len(dials) \in Nat /\ asked = 0 /\ self.pcb = NoPlace
      /\ Latest \in Dialled /\ Latest.state \in {"open", "gone"}
      /\ Latest.state = "open" => Latest.hooked /\ Latest.port = app.port
      /\ app.pc = "idle"
  <2>1. Latest \in Dialled
    BY <1>3, Typed DEF Standing, Latest
  <2> QED BY <1>3, <2>1, Typed DEF Standing, UnderWay, Dialled
<1>5. /\ app' \in [calls : Seq(Errand), refusals : Nat, pc : {"idle"}, told : {"on"}, port : {app.port}]
      /\ app.port \in Nat
      /\ self' \in [pcb : {Latest.at}, port : Nat] /\ Latest.at \in Places
  BY <1>1, <1>2, <1>3, <1>4 DEF OutTypes, Latest, Dialled
<1>6. OutTypes' /\ Connections("on")'
  BY <1>1, <1>2, <1>3, <1>5 DEF OutTypes, Connections, Held
<1>7. Standing("on")'
  BY <1>1, <1>4, <1>5 DEF Standing, UnderWay, Latest
<1>8. News("on")'
  <2>1. ASSUME NEW i \in 1..Len(queue')
        PROVE  LET e == queue'[i]
               IN  /\ e.of \in 0..Len(dials) /\ e.kind \in {"error", "clear"}
                   /\ e.kind = "error" => e.of = Len(dials) \/ Doomed(i)'
                   /\ e.kind = "clear" => e.of > 0 /\ e.of # Len(dials)
    <3> DEFINE e == queue[i + 1]
    <3>1. queue'[i] = e /\ i + 1 \in 1..Len(queue) /\ i + 1 # 1
      BY <1>2
    <3>2. /\ e.of \in 0..Len(dials) /\ e.kind \notin {"found", "unknown", "connected", "fin"}
          /\ e.kind = "error" => e.of = Len(dials) \/ Doomed(i + 1)
          /\ e.kind = "clear" => e.of > 0 /\ e.of # Len(dials)
      BY <1>3, <3>1 DEF News, UnderWay
    <3>3. Doomed(i + 1) => Doomed(i)'
      BY <1>1, <1>2, DoomedTaken
    <3>4. e \in Event
      BY <3>1, Typed
    <3>5. e.kind \in {"error", "clear"}
      BY <3>2, <3>4 DEF Event
    <3> HIDE DEF e
    <3> QED BY <3>1, <3>2, <3>3, <3>5
  <2>2. \A i \in 1..Len(queue') : Final("on", i)' <=> Final(ph, i + 1)
    BY <1>1, <1>2, <1>3 DEF Final, UnderWay
  <2>3. ~Final(ph, 1)
    BY <1>1, <1>2 DEF Final
  <2>4. Awaited("on")' <=> Awaited(ph)
    BY <1>1, <1>3 DEF Awaited, UnderWay, Latest
  <2>5. \A i, j \in 1..Len(queue') : Final("on", i)' /\ Final("on", j)' => i = j
    <3>1. ASSUME NEW i \in 1..Len(queue'), NEW j \in 1..Len(queue'), Final("on", i)', Final("on", j)'
          PROVE  i = j
      <4>1. i + 1 = j + 1
        BY <1>2, <2>2, <3>1 DEF News
      <4> QED BY <4>1
    <3> QED BY <3>1
  <2>6. (\E i \in 1..Len(queue') : Final("on", i)') <=> \E i \in 1..Len(queue) : Final(ph, i)
    <3>1. ASSUME NEW i \in 1..Len(queue), Final(ph, i) PROVE \E j \in 1..Len(queue') : Final("on", j)'
      <4>1. i # 1
        BY <2>3, <3>1
      <4>2. i - 1 \in 1..Len(queue') /\ (i - 1) + 1 = i
        BY <1>2, <4>1
      <4> QED BY <2>2, <3>1, <4>2
    <3> QED BY <1>2, <2>2, <3>1
  <2>7. (\E i \in 1..Len(queue') : Final("on", i)') <=> Awaited("on")'
    BY <2>4, <2>6 DEF News
  <2>8. clears' # Len(dials')
    BY <1>1, <1>4
  <2> QED BY <1>1, <2>1, <2>5, <2>7, <2>8 DEF News, UnderWay
<1> QED BY <1>6, <1>7, <1>8

(* What ends a connection, or the question to the DNS, is the last of it:   *)
(* what remains in the queue is thrown away.                               *)
LEMMA EndKeepsSound ==
  ASSUME NEW ph \in Stands, Sound(ph), clears = 0, queue # <<>>, Final(ph, 1),
         clears' = clears, asked' = asked, OutTypes', Len(dials') = Len(dials),
         \A n \in 1..Len(dials) : dials'[n].at = dials[n].at /\ dials'[n].state = dials[n].state,
         app'.told = "off", app'.pc = app.pc, self'.pcb = NoPlace,
         \/ queue' = Tail(queue)
         \/ queue' = <<[kind |-> "clear", of |-> Len(dials)]>> \o Tail(queue) /\ Len(dials) > 0
  PROVE  Sound("off")'
<1> USE DEF Sound
<1>1. queue \in Seq(Event) /\ Len(queue) \in Nat /\ Len(queue) > 0 /\ 1 \in 1..Len(queue)
  BY Typed DEF OutTypes
<1>2. Awaited(ph)
  BY <1>1 DEF News
<1>3. \A i \in 1..Len(queue) : i # 1 => ~Final(ph, i)
  BY <1>1 DEF News
<1>4. /\ asked = 0 /\ app.pc \in {"idle", "port"} /\ Len(dials) \in Nat /\ (UnderWay(ph) => Len(dials) > 0)
      /\ ph # "closing"
  BY <1>2, Typed DEF Awaited, Standing, UnderWay
<1>5. \A n \in 1..Len(dials) : dials'[n].state \in {"closed", "gone"}
  <2>1. ASSUME NEW n \in 1..Len(dials) PROVE dials[n].state \in {"closed", "gone"}
    <3>1. CASE ph = "asking" \/ n < Len(dials)
      BY <3>1 DEF Connections
    <3>2. CASE ph # "asking" /\ n = Len(dials)
      BY <1>2, <3>2 DEF Awaited, Latest
    <3> QED BY <1>4, <3>1, <3>2
  <2> QED BY <2>1
<1>6. Connections("off")'
  BY <1>5 DEF Connections, Held
<1>7. Standing("off")'
  BY <1>4 DEF Standing, UnderWay
<1>8. ASSUME NEW j \in 1..Len(queue), j # 1
      PROVE  LET e == queue[j]
             IN  /\ e.of \in 0..Len(dials) /\ e.kind \in {"error", "clear"}
                 /\ e.kind = "error" => Doomed(j)
                 /\ e.kind = "clear" => e.of > 0
  <2>1. queue[j] \in Event
    BY <1>8, Typed
  <2>2. ~Final(ph, j)
    BY <1>3, <1>8
  <2> DEFINE e == queue[j]
  <2>3. /\ e.of \in 0..Len(dials) /\ e.kind # "connected"
        /\ e.kind = "error" => (e.of = Len(dials) /\ UnderWay(ph)) \/ Doomed(j)
        /\ e.kind = "clear" => e.of > 0
    BY <1>8 DEF News
  <2> QED BY <2>1, <2>2, <2>3 DEF Event, Final
<1>9. CASE queue' = Tail(queue)
  <2>1. /\ Len(queue') = Len(queue) - 1
        /\ \A i \in 1..Len(queue') : queue'[i] = queue[i + 1] /\ i + 1 \in 1..Len(queue) /\ i + 1 # 1
    BY <1>9, Taken
  <2>2. \A i \in 1..Len(queue') : Doomed(i + 1) => Doomed(i)'
    <3>1. queue[1].kind # "clear"
      BY DEF Final
    <3> QED BY <1>9, <3>1, DoomedTaken
  <2>3. ASSUME NEW i \in 1..Len(queue')
        PROVE  LET e == queue'[i]
               IN  /\ e.of \in 0..Len(dials) /\ e.kind \in {"error", "clear"}
                   /\ e.kind = "error" => Doomed(i)'
                   /\ e.kind = "clear" => e.of > 0
    BY <1>8, <2>1, <2>2
  <2>4. \A i \in 1..Len(queue') : ~Final("off", i)'
    BY <2>3 DEF Final, UnderWay
  <2>5. News("off")'
    BY <1>4, <2>3, <2>4 DEF News, UnderWay, Awaited
  <2> QED BY <1>6, <1>7, <2>5
<1>10. CASE queue' = <<[kind |-> "clear", of |-> Len(dials)]>> \o Tail(queue) /\ Len(dials) > 0
  <2> DEFINE c == [kind |-> "clear", of |-> Len(dials)]
             q == Tail(queue)
  <2>1. c \in Event /\ q \in Seq(Event) /\ Len(q) = Len(queue) - 1
        /\ \A i \in 1..(Len(queue) - 1) : q[i] = queue[i + 1]
    BY <1>1, <1>4, Tailed DEF Event
  <2>2. /\ Len(queue') = Len(queue) /\ queue'[1] = c
        /\ \A i \in 2..Len(queue') : queue'[i] = queue[i]
    <3>1. /\ Len(queue') = Len(q) + 1 /\ Len(q) \in Nat
          /\ \A i \in 2..(Len(q) + 1) : queue'[i] = q[i - 1]
          /\ queue'[1] = c
      <4>1. queue' = <<c>> \o q
        BY <1>10
      <4> HIDE DEF c, q
      <4> QED BY <2>1, <4>1, Fronted
    <3>2. ASSUME NEW i \in 2..Len(queue') PROVE queue'[i] = queue[i]
      <4> HIDE DEF q
      <4>1. i - 1 \in 1..(Len(queue) - 1) /\ (i - 1) + 1 = i /\ i \in 2..(Len(q) + 1)
        BY <1>1, <2>1, <3>1, <3>2
      <4>2. queue'[i] = q[i - 1]
        BY <3>1, <4>1
      <4>3. q[i - 1] = queue[(i - 1) + 1]
        BY <2>1, <4>1
      <4>4. (i - 1) + 1 = i
        BY <3>2
      <4> QED BY <4>2, <4>3, <4>4, Zenon
    <3> HIDE DEF c, q
    <3>3. Len(queue') = Len(queue)
      BY <1>1, <2>1, <3>1
    <3> QED BY <3>1, <3>2, <3>3
  <2>3. ASSUME NEW i \in 1..Len(queue')
        PROVE  LET e == queue'[i]
               IN  /\ e.of \in 0..Len(dials) /\ e.kind \in {"error", "clear"}
                   /\ e.kind = "error" => Doomed(i)'
                   /\ e.kind = "clear" => e.of > 0
    <3>1. CASE i = 1
      <4>1. queue'[1].kind = "clear" /\ queue'[1].of = Len(dials)
        BY <2>2
      <4> QED BY <1>4, <1>10, <3>1, <4>1
    <3>2. CASE i # 1
      <4>1. i \in 2..Len(queue') /\ i \in 1..Len(queue) /\ 1 \in 1..(i - 1)
        BY <2>2, <3>2
      <4>2. Doomed(i)'
        BY <2>2, <4>1 DEF Doomed
      <4> QED BY <1>8, <2>2, <3>2, <4>1, <4>2
    <3> QED BY <3>1, <3>2
  <2>4. \A i \in 1..Len(queue') : ~Final("off", i)'
    BY <2>3 DEF Final, UnderWay
  <2>5. News("off")'
    BY <1>4, <2>3, <2>4 DEF News, UnderWay, Awaited
  <2> QED BY <1>6, <1>7, <2>5
<1> QED BY <1>9, <1>10

(* What the task does with an event that ends something *)
LEMMA EndingKeeps ==
  ASSUME NEW ph \in Stands, Sound(ph), HandleFailure \/ HandleEnd \/ HandleUnknown
  PROVE  Sound("off")'
<1> USE DEF Sound
<1>1. /\ clears = 0 /\ queue # <<>> /\ Head(queue).kind \in {"error", "fin", "unknown"}
      /\ app' = [app EXCEPT !.told = "off"] /\ UNCHANGED <<asked, clears>>
  BY DEF HandleFailure, HandleEnd, HandleUnknown, Handles, Tell
<1>2. /\ queue \in Seq(Event) /\ Len(queue) \in Nat /\ Len(queue) > 0 /\ 1 \in 1..Len(queue)
      /\ Head(queue) = queue[1] /\ queue[1] \in Event
      /\ Tail(queue) \in Seq(Event) /\ Len(dials) \in Nat
  BY <1>1, Tailed, Typed DEF OutTypes
<1>3. Final(ph, 1)
  <2>1. ~Doomed(1)
    BY <1>1 DEF Doomed
  <2>2. queue[1].kind = "error" => queue[1].of = Len(dials) /\ UnderWay(ph)
    BY <1>2, <2>1 DEF News
  <2> QED BY <1>1, <1>2, <2>2 DEF Final
<1>4. /\ app' \in [calls : Seq(Errand), refusals : Nat, pc : {app.pc}, told : {"off"}, port : Nat]
      /\ app.pc \in {"idle", "port", "close"}
  BY <1>1 DEF OutTypes
<1>5. CASE HandleFailure
  <2>1. /\ queue' = Tail(queue) /\ dials' = Unhooked(self.pcb)
        /\ self' = [self EXCEPT !.pcb = NoPlace]
    BY <1>5 DEF HandleFailure, ForgetsPcb
  <2>2. /\ dials' \in Seq(Dialled) /\ Len(dials') = Len(dials)
        /\ \A n \in 1..Len(dials) : dials'[n].at = dials[n].at /\ dials'[n].state = dials[n].state
    BY <2>1, Unhooks
  <2>3. self' \in [pcb : {NoPlace}, port : Nat]
    BY <2>1 DEF OutTypes
  <2>4. OutTypes'
    BY <1>1, <1>2, <1>4, <2>1, <2>2, <2>3 DEF OutTypes
  <2> QED BY <1>1, <1>3, <1>4, <2>1, <2>2, <2>3, <2>4, EndKeepsSound
<1>6. CASE HandleEnd
  <2>1. /\ queue' = <<[kind |-> "clear", of |-> Head(queue).of]>> \o Tail(queue)
        /\ UNCHANGED <<dials, self>> /\ queue[1].kind = "fin"
    BY <1>2, <1>6 DEF HandleEnd, Handles
  <2>2. ph = "on" /\ queue[1].of = Len(dials) /\ self.pcb = NoPlace /\ Len(dials) > 0
    BY <1>2, <2>1 DEF News, Standing
  <2> DEFINE c == [kind |-> "clear", of |-> Len(dials)]
  <2>3. c \in Event /\ queue' = <<c>> \o Tail(queue)
    BY <1>2, <2>1, <2>2 DEF Event
  <2>4. queue' \in Seq(Event)
    <3> HIDE DEF c
    <3> QED BY <1>2, <2>3, Fronted
  <2>5. OutTypes'
    BY <1>1, <1>4, <2>1, <2>4 DEF OutTypes
  <2>6. Len(dials') = Len(dials) /\ self'.pcb = NoPlace /\ asked' = asked /\ clears' = clears
    BY <1>1, <2>1, <2>2
  <2>7. \A n \in 1..Len(dials) : dials'[n].at = dials[n].at /\ dials'[n].state = dials[n].state
    BY <2>1
  <2> QED BY <1>1, <1>3, <1>4, <2>2, <2>3, <2>5, <2>6, <2>7, EndKeepsSound
<1>7. CASE HandleUnknown
  <2>1. queue' = Tail(queue) /\ UNCHANGED <<dials, self>> /\ queue[1].kind = "unknown"
    BY <1>2, <1>7 DEF HandleUnknown, Handles
  <2>2. ph = "asking" /\ self.pcb = NoPlace
    BY <1>2, <2>1 DEF News, Standing
  <2>3. OutTypes'
    BY <1>1, <1>2, <1>4, <2>1 DEF OutTypes
  <2> QED BY <1>1, <1>3, <1>4, <2>1, <2>2, <2>3, EndKeepsSound
<1> QED BY <1>5, <1>6, <1>7

(* The DNS has found the address: the port is the one that was asked for.   *)
LEMMA FoundKeeps ==
  ASSUME NEW ph \in Stands, Sound(ph), HandleFound, astray' = {}
  PROVE  Sound("calling")'
<1> USE DEF Sound
<1>1. /\ clears = 0 /\ queue # <<>> /\ Head(queue).kind = "found" /\ queue' = Tail(queue)
      /\ Dials(self.port, "syn") /\ app' = app /\ app.pc # "port" /\ UNCHANGED <<asked, self, clears>>
  BY DEF HandleFound, Handles, ConnectRefused, Mistaken
<1>2. 1 \in 1..Len(queue) /\ Head(queue) = queue[1] /\ queue[1].kind = "found"
  BY <1>1, Taken
<1>3. ph = "asking" /\ Final(ph, 1) /\ Awaited(ph)
  BY <1>2 DEF News, Final
<1>4. asked = 0 /\ app.pc = "idle" /\ app.told = "waiting" /\ self.port = app.port /\ self.port \in Nat
  BY <1>1, <1>3 DEF Standing, UnderWay, Awaited, OutTypes
<1>5. app' \in [calls : Seq(Errand), refusals : Nat, pc : {"idle"}, told : {"waiting"}, port : {self.port}]
  BY <1>1, <1>4 DEF OutTypes
<1> QED BY <1>1, <1>3, <1>4, <1>5, DialsKeeps

LEMMA ClearKeeps ==
  ASSUME NEW ph \in Stands, Sound(ph),
         \/ HandleClear
         \/ Drops /\ Head(queue).of \in 1..clears
  PROVE  Sound(ph)'
<1> USE DEF Sound
<1>1. queue # <<>> /\ queue' = Tail(queue) /\ UNCHANGED <<dials, asked, self, app>>
  BY DEF HandleClear, Drops, Handles
<1>2. /\ queue' \in Seq(Event) /\ Len(queue') = Len(queue) - 1 /\ Len(queue) \in Nat /\ Len(queue) > 0
      /\ \A i \in 1..Len(queue') :
           queue'[i] = queue[i + 1] /\ i + 1 \in 1..Len(queue) /\ i + 1 # 1
      /\ Head(queue) = queue[1] /\ queue[1] \in Event /\ 1 \in 1..Len(queue)
  BY <1>1, Taken
<1>3. /\ clears' \in 1..Len(dials) /\ Len(dials) \in Nat
      /\ clears' = Len(dials) => ~UnderWay(ph)
      /\ queue[1].kind = "clear" \/ (clears' = clears /\ queue[1].of \in 1..clears)
  <2>1. CASE HandleClear
    BY <1>2, <2>1, Typed DEF HandleClear, Handles, News
  <2>2. CASE Drops /\ Head(queue).of \in 1..clears
    BY <1>2, <2>2, Typed DEF Drops, News, OutTypes
  <2> QED BY <2>1, <2>2
<1>8. clears' \in 0..Len(dials')
  BY <1>1, <1>3
<1>9. OutTypes'
  BY <1>1, <1>2, <1>8 DEF OutTypes
<1>4. Connections(ph)'
  BY <1>1 DEF Connections, Held
<1>5. queue[1].kind # "connected" /\ ~Final(ph, 1)
  BY <1>2, <1>3 DEF News, Final, UnderWay, OutTypes
<1>6. Standing(ph)'
  BY <1>1, <1>2, <1>5 DEF Standing, UnderWay, Latest
<1>7. News(ph)'
  <2>1. \A i \in 1..Len(queue') : Doomed(i)'
    BY <1>3 DEF Doomed
  <2>2. \A i \in 1..Len(queue') : Final(ph, i)' <=> Final(ph, i + 1)
    BY <1>1, <1>2 DEF Final, UnderWay
  <2>3. ASSUME NEW i \in 1..Len(queue'), NEW j \in 1..Len(queue'), Final(ph, i)', Final(ph, j)'
        PROVE  i = j
    <3>1. i + 1 = j + 1
      BY <1>2, <2>2, <2>3 DEF News
    <3> QED BY <3>1
  <2>4. (\E i \in 1..Len(queue') : Final(ph, i)') <=> Awaited(ph)'
    <3>1. ASSUME NEW i \in 1..Len(queue), Final(ph, i) PROVE \E j \in 1..Len(queue') : Final(ph, j)'
      <4>1. i # 1
        BY <1>5, <3>1
      <4>2. i - 1 \in 1..Len(queue') /\ (i - 1) + 1 = i
        BY <1>2, <4>1
      <4> QED BY <2>2, <3>1, <4>2
    <3>2. Awaited(ph)' <=> Awaited(ph)
      BY <1>1 DEF Awaited, UnderWay, Latest
    <3> QED BY <1>2, <2>2, <3>1, <3>2 DEF News
  <2>5. ASSUME NEW i \in 1..Len(queue')
        PROVE  LET e == queue[i + 1]
               IN  /\ e.of \in 0..Len(dials)
                   /\ e.kind \in {"found", "unknown"} => ph = "asking" /\ e.of = 0
                   /\ e.kind # "connected"
                   /\ e.kind = "fin" => ph = "on" /\ e.of = Len(dials) /\ self.pcb = NoPlace
                   /\ e.kind = "clear" => e.of > 0
                   /\ e.kind = "clear" => (e.of = Len(dials) => ~UnderWay(ph))
    BY <1>2 DEF News
  <2> QED BY <1>1, <1>2, <1>3, <2>1, <2>3, <2>4, <2>5 DEF News, UnderWay, Latest
<1> QED BY <1>4, <1>6, <1>7, <1>9

LEMMA ClearedKeeps ==
  ASSUME NEW ph \in Stands, Sound(ph), Cleared
  PROVE  Sound(ph)'
<1> USE DEF Sound
<1>1. queue = <<>> /\ clears' = 0 /\ UNCHANGED <<dials, queue, asked, self, app>>
  BY DEF Cleared
<1>2. Len(dials) \in Nat /\ Len(queue) = 0
  BY <1>1, Typed
<1>3. OutTypes' /\ Connections(ph)'
  BY <1>1, <1>2 DEF OutTypes, Connections, Held
<1>4. Standing(ph)'
  BY <1>1 DEF Standing, UnderWay, Latest
<1>5. News(ph)'
  BY <1>1, <1>2 DEF News, UnderWay, Latest, Final, Awaited, Standing
<1> QED BY <1>3, <1>4, <1>5

LEMMA OutIdles ==
  ASSUME NEW ph \in Stands, Sound(ph), UNCHANGED outVars
  PROVE  Sound(ph)'
BY DEF outVars, Sound, OutTypes, Connections, Held, Standing, News, UnderWay, Latest, Final, Awaited, Doomed

LEMMA OutStarts == OutInit => \E ph \in Stands : Sound(ph)
<1> SUFFICES ASSUME OutInit PROVE Sound("off")
  BY DEF Stands
<1>1. PICK e \in Errands :
        app = [calls |-> e.calls, refusals |-> e.refusals, pc |-> "idle", told |-> "off", port |-> 0]
  BY DEF OutInit
<1>2. e.calls \in Seq(Errand) /\ e.refusals \in Nat
  BY ErrandAssumption DEF Errand
<1>3. dials = <<>> /\ queue = <<>> /\ asked = 0 /\ clears = 0 /\ self = [pcb |-> NoPlace, port |-> 0]
  BY DEF OutInit
<1>4. dials \in Seq(Dialled) /\ queue \in Seq(Event) /\ Len(dials) = 0 /\ Len(queue) = 0
  BY <1>3
<1>5. OutTypes
  BY <1>1, <1>2, <1>3, <1>4 DEF OutTypes
<1>6. Connections("off") /\ Standing("off")
  BY <1>1, <1>3, <1>4 DEF Connections, Standing, UnderWay
<1>7. News("off")
  BY <1>3, <1>4 DEF News, UnderWay, Awaited
<1> QED BY <1>5, <1>6, <1>7 DEF Sound

LEMMA OutKeeps ==
  ASSUME OutInv, [OutNext]_outVars
  PROVE  OutInv'
<1> SUFFICES ASSUME astray' = {} PROVE \E ph \in Stands : Sound(ph)'
  BY DEF OutInv
<1>1. astray = {} /\ (Drops => Head(queue).of \in 1..clears)
  <2>1. astray \subseteq astray'
    <3>1. CASE PeerCloses
      BY <3>1 DEF PeerCloses
    <3>2. CASE Established \/ Breaks \/ FreesPcb
      BY <3>2, Zenon DEF Established, Breaks, FreesPcb
    <3>3. CASE DnsAnswers \/ UNCHANGED outVars
      BY <3>3, Zenon DEF outVars, DnsAnswers
    <3>4. CASE ByAddress \/ ByName \/ StorePort \/ Disconnects \/ Closes
      BY <3>4 DEF ByAddress, ByName, ConnectIp, ConnectHost, ConnectRefused, StorePort, Disconnects, Closes
    <3>5. CASE HandleConnected \/ HandleFailure \/ HandleEnd \/ HandleUnknown \/ HandleFound
      BY <3>5 DEF HandleConnected, HandleFailure, HandleEnd, HandleUnknown, HandleFound, ConnectRefused
    <3>6. CASE HandleClear \/ Drops \/ Cleared
      BY <3>6 DEF HandleClear, Drops, Cleared
    <3> QED BY <3>1, <3>2, <3>3, <3>4, <3>5, <3>6 DEF OutNext
  <2> QED BY <2>1 DEF Drops
<1>2. PICK ph \in Stands : Sound(ph)
  BY <1>1 DEF OutInv
<1>3. CASE Established \/ Breaks \/ PeerCloses \/ FreesPcb \/ DnsAnswers
  BY <1>2, <1>3, EstablishedKeeps, BreaksKeeps, PeerClosesKeeps, FreesPcbKeeps, DnsAnswersKeeps
<1>4. CASE ByAddress \/ ByName
  BY <1>2, <1>4, ConnectKeeps
<1>5. CASE StorePort
  BY <1>2, <1>5, StorePortKeeps
<1>6. CASE Disconnects
  BY <1>2, <1>6, DisconnectsKeeps
<1>7. CASE Closes
  BY <1>2, <1>7, ClosesKeeps DEF Stands
<1>8. CASE HandleConnected
  BY <1>2, <1>8, ConnectedKeeps DEF Stands
<1>9. CASE HandleFailure \/ HandleEnd \/ HandleUnknown
  BY <1>2, <1>9, EndingKeeps DEF Stands
<1>10. CASE HandleFound
  BY <1>2, <1>10, FoundKeeps DEF Stands
<1>11. CASE HandleClear \/ Drops
  BY <1>1, <1>2, <1>11, ClearKeeps
<1>12. CASE Cleared
  BY <1>2, <1>12, ClearedKeeps
<1>13. CASE UNCHANGED outVars
  BY <1>2, <1>13, OutIdles
<1> QED BY <1>3, <1>4, <1>5, <1>6, <1>7, <1>8, <1>9, <1>10, <1>11, <1>12, <1>13 DEF OutNext

LEMMA SoundKnows == ASSUME NEW ph \in Stands, Sound(ph), Quiet PROVE KnowsWhatIsSo
<1> USE DEF Sound
<1> DEFINE open == {n \in DOMAIN dials : dials[n].state \in {"open", "half"}}
<1>1. /\ queue = <<>> /\ asked = 0 /\ app.pc = "idle" /\ Len(dials) \in Nat /\ DOMAIN dials = 1..Len(dials)
      /\ \A n \in 1..Len(dials) : dials[n].state \in {"open", "closed", "gone"}
  BY Typed DEF Quiet, Dialled
<1>2. ~Awaited(ph) /\ ph \in {"off", "on"}
  <2>1. Len(queue) = 0
    BY <1>1
  <2>2. ~Awaited(ph)
    BY <2>1 DEF News
  <2>3. ph # "closing" /\ ph # "asking"
    BY <1>1, <2>2 DEF Standing, UnderWay, Awaited
  <2>4. ph # "calling"
    <3>1. SUFFICES ASSUME ph = "calling" PROVE FALSE
      OBVIOUS
    <3>2. Len(dials) \in 1..Len(dials) /\ Latest.state \in {"open", "closed", "gone"}
      BY <1>1, <3>1 DEF Standing, Latest
    <3> QED BY <1>1, <2>2, <3>1, <3>2 DEF Standing, Awaited, UnderWay
  <2> QED BY <2>2, <2>3, <2>4 DEF Stands
<1>3. CASE ph = "off"
  <2>1. open = {}
    BY <1>1, <1>3 DEF Connections
  <2> QED BY <1>3, <2>1 DEF Standing, KnowsWhatIsSo
<1>4. CASE ph = "on"
  <2> DEFINE n == Len(dials)
  <2>1. n \in 1..Len(dials) /\ Latest = dials[n] /\ Latest.state = "open"
    BY <1>1, <1>2, <1>4 DEF Standing, Latest, Awaited, UnderWay
  <2>2. dials[n].at = self.pcb /\ dials[n].port = app.port /\ app.told = "on"
    BY <1>4, <2>1 DEF Standing, UnderWay
  <2>3. open = {n}
    BY <1>1, <2>1 DEF Connections
  <2> QED BY <2>1, <2>2, <2>3 DEF KnowsWhatIsSo
<1> QED BY <1>2, <1>3, <1>4

(* Whatever is called and however often it is connected anew, as long as    *)
(* nothing has gone astray in one of the four named ways the application    *)
(* knows what is so, once all is quiet: an error or an end that comes after *)
(* close() is thrown away, and is never taken for one of a later connection. *)
THEOREM OutgoingKnows == TcpSpec => []KnowsWhatIsSo
<1>1. TcpInit => OutInv
  BY OutStarts DEF TcpInit, OutInv
<1>2. OutInv /\ [TcpNext]_<<vars, serverVars, outVars>> => OutInv'
  BY OutKeeps DEF TcpNext
<1>3. OutInv => KnowsWhatIsSo
  <2>1. ASSUME OutInv, ~Quiet \/ astray # {} PROVE KnowsWhatIsSo
    BY <2>1 DEF KnowsWhatIsSo
  <2>2. ASSUME OutInv, Quiet, astray = {} PROVE KnowsWhatIsSo
    BY <2>2, SoundKnows DEF OutInv
  <2> QED BY <2>1, <2>2
<1> QED BY <1>1, <1>2, <1>3, PTL DEF TcpSpec
=============================================================================
