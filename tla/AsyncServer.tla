----------------------------- MODULE AsyncServer -----------------------------
(***************************************************************************)
(* AsyncServer::begin() and end(), by the task that sets the server up,    *)
(* beside the clients that the server has accepted.  begin() goes through  *)
(* tcp_new(), bind and listen, any of which may fail, before lwIP is told  *)
(* whom to call; end() takes that back call by call, without leaving it to *)
(* the lwIP thread.                                                        *)
(***************************************************************************)
EXTENDS ClosedSlots, Sequences

CONSTANTS
  Listener,  \* where lwIP keeps the pcb that listens, a place of its own
  Lost,      \* a pcb that is bound and belongs to nobody any more
  Scripts    \* bound: the calls of begin() and end(), how many of begin()'s calls
             \* may fail, and how many connections are accepted

ASSUME ServerAssumption ==
  /\ Listener \notin Pcbs \cup {Free} /\ Lost \notin Conns \cup {Free}
  /\ \A s \in Scripts : s.calls \in Seq({"begin", "end"}) /\ s.faults \in Nat /\ s.accepts \in Nat

VARIABLES
  pcb,     \* _pcb of the server
  setup,   \* where begin() or end() is, "lost" after undefined behaviour
  port,    \* lwIP: whether it listens, the tcp_arg and the accept callback
  script,  \* what is left of a member of Scripts
  told,    \* history: the call that was made last
  failed   \* history: a call to lwIP has failed since the server last listened

serverVars == <<pcb, setup, port, script, told, failed>>

Closed == [listens |-> FALSE, arg |-> FALSE, callback |-> FALSE]
Used == Cardinality({c \in Conns : state[c] # "none"})

ServerInit ==
  /\ Init /\ script \in Scripts /\ setup = "idle" /\ told = "end" /\ failed = FALSE
  /\ pcb = Free /\ port = Closed

-----------------------------------------------------------------------------
(* begin() *)

Calls(f) ==
  /\ setup = "idle" /\ script.calls # <<>> /\ Head(script.calls) = f /\ told' = f

Played(faults) == [script EXCEPT !.calls = Tail(@), !.faults = @ - faults]
Fails == script.faults > 0 /\ script' = Played(1) /\ failed' = TRUE

(* Neither the task nor a pcb could be had. *)
NothingNew == Fails /\ UNCHANGED <<pcb, setup, port, memory>>

(* bind is refused, also because the port is taken by a pcb that listens or *)
(* was lost;                                                               *)
Refused ==
  \/ Fails
  \/ /\ port.listens \/ \E q \in Pcbs : memory[q] = Lost
     /\ script' = Played(0) /\ UNCHANGED failed

(* then the pcb is closed, and _pcb stays what it was.                     *)
BindFails(p) == Refused /\ pcb' = p /\ UNCHANGED <<setup, port, memory>>

(* listen: the pcb stays bound, and _pcb is NULL. *)
ListenFails(p) ==
  Fails /\ memory' = [memory EXCEPT ![p] = Lost] /\ pcb' = Free /\ UNCHANGED <<setup, port>>

Listens ==
  /\ ~port.listens /\ \A p \in Pcbs : memory[p] # Lost
  /\ pcb' = Listener /\ setup' = "arg" /\ port' = [Closed EXCEPT !.listens = TRUE]
  /\ script' = Played(0) /\ failed' = FALSE /\ UNCHANGED memory

(* Up to listen() it is one step: nobody else knows the new pcb. *)
BeginAnew ==
  NothingNew \/ \E p \in Pcbs : memory[p] = Free /\ (BindFails(p) \/ ListenFails(p) \/ Listens)

(* Mutant: begin() does not look whether there is a pcb. *)
BeginUnasked == BeginAnew

(* With a pcb there is nothing to do. *)
BeginCall ==
  \/ pcb # Free /\ script' = Played(0) /\ UNCHANGED <<pcb, setup, port, failed, memory>>
  \/ pcb = Free /\ BeginAnew

Begin == Calls("begin") /\ LwipIdle /\ BeginCall

(* tcp_arg() and tcp_accept() *)
SetArg ==
  /\ setup = "arg" /\ setup' = "callback" /\ port' = [port EXCEPT !.arg = TRUE]
  /\ UNCHANGED <<pcb, script, told, failed, memory>>
SetCallback ==
  /\ setup = "callback" /\ setup' = "idle" /\ port' = [port EXCEPT !.callback = TRUE]
  /\ UNCHANGED <<pcb, script, told, failed, memory>>

-----------------------------------------------------------------------------
(* end(): the same backwards, and tcp_close().  With the pcb that bind was  *)
(* refused for, which lwIP has freed, it is undefined behaviour.           *)
End ==
  /\ Calls("end") /\ script' = Played(0)
  /\ \/ pcb = Free /\ UNCHANGED <<setup, port>>
     \/ pcb = Listener /\ setup' = "unset" /\ port' = [port EXCEPT !.arg = FALSE]
     \/ pcb \in Pcbs /\ setup' = "lost" /\ UNCHANGED port
  /\ UNCHANGED <<pcb, failed, memory>>

UnsetCallback ==
  /\ setup = "unset" /\ setup' = "close" /\ port' = [port EXCEPT !.callback = FALSE]
  /\ UNCHANGED <<pcb, script, told, failed, memory>>

Close ==
  /\ setup = "close" /\ LwipIdle
  /\ pcb' = Free /\ port' = Closed /\ setup' = "idle"
  /\ UNCHANGED <<script, told, failed, memory>>

-----------------------------------------------------------------------------
Setup ==
  /\ Begin \/ SetArg \/ SetCallback \/ End \/ UnsetCallback \/ Close
  /\ UNCHANGED <<slotVars, held, state, fate, hooked, lwip, task, turns>>

(* _s_accept() with the server as its argument; without it, NULL is taken   *)
(* for the server.  Without a callback lwIP refuses the connection.        *)
Accepts(c, p) ==
  /\ port.callback /\ Used < script.accepts
  /\ \/ port.arg /\ Accept(c, p) /\ UNCHANGED serverVars
     \/ /\ ~port.arg /\ LwipIdle /\ memory[p] = Free
        /\ setup' = "lost" /\ UNCHANGED <<vars, pcb, port, script, told, failed>>

Clients ==
  \/ \E c \in Conns : FinCloses(c)
  \/ FinFrees \/ FinForgets
  \/ \E p \in Pcbs : Forgotten(p) \/ Reset(p)
  \/ Task
  \/ \E t \in Threads : FreesOn(t)

ServerNext ==
  /\ setup # "lost"
  /\ Setup \/ (\E c \in Conns, p \in Pcbs : Accepts(c, p)) \/ (Clients /\ UNCHANGED serverVars)

ServerSpec == ServerInit /\ [][ServerNext]_<<vars, serverVars>>

-----------------------------------------------------------------------------
(* Between the calls of begin() and end(), made in any order, lwIP listens  *)
(* and calls the server if the last was begin(), unless one of its calls to *)
(* lwIP has failed, and does not listen if the last was end().  The server  *)
(* gets lost only over such a failure, or by a connection that comes        *)
(* between the first two calls of end().                                   *)
ListensAsTold ==
  /\ setup = "idle" =>
       /\ told = "begin" => failed \/ port = [listens |-> TRUE, arg |-> TRUE, callback |-> TRUE]
       /\ told = "end" => ~port.listens
  /\ setup = "lost" => failed \/ (port.listens /\ ~port.arg)
=============================================================================
