---------------------------- MODULE OutgoingClient ----------------------------
(***************************************************************************)
(* An AsyncClient that the application connects itself, by address or by   *)
(* name, and connects again when it has been told that the connection is   *)
(* gone.  It has no closed slot and no pcb until CONNECTED is handled; its  *)
(* events are known by its address, whichever of its connections they are  *)
(* of.  Events of data are left out, and so are those of other clients.    *)
(***************************************************************************)
EXTENDS Naturals, Sequences, SequencesExt, FiniteSets

CONSTANTS
  Places,   \* where lwIP keeps its pcbs
  NoPlace,  \* NULL
  Errands   \* bound: the application's calls in order, each of them "ip", "host" or
            \* "close" with a port, and how often lwIP may refuse to connect

ASSUME ErrandAssumption ==
  /\ NoPlace \notin Places
  /\ \A e \in Errands :
       e.calls \in Seq([call : {"ip", "host", "close"}, port : Nat]) /\ e.refusals \in Nat

VARIABLES
  dials,   \* its connections: [state, at, port, hooked], state one of "syn", "open",
           \* "half" (closed by the peer alone), "closed", "gone" from lwIP, or
           \* "refused", if tcp_connect() has failed
  queue,   \* _async_queue: [kind, of], of a connection or of the closed one
  asked,   \* names the DNS has not answered yet
  self,    \* _pcb and _connect_port
  clears,  \* the connection whose events the task of the queue throws away, or 0
  app,     \* the application: what is left of an errand, where it is in a call, and
           \* what it knows: "off", "on" or, while it waits to be told, "waiting"
  astray   \* history: what has gone wrong

outVars == <<dials, queue, asked, self, clears, app, astray>>

OutInit ==
  /\ dials = <<>> /\ queue = <<>> /\ asked = 0 /\ clears = 0 /\ astray = {}
  /\ self = [pcb |-> NoPlace, port |-> 0]
  /\ \E e \in Errands :
       app = [calls |-> e.calls, refusals |-> e.refusals, pc |-> "idle", told |-> "off", port |-> 0]

-----------------------------------------------------------------------------
(* lwIP *)

Held(n) == dials[n].state # "gone"
FreePlaces == {p \in Places : \A n \in DOMAIN dials : Held(n) => dials[n].at # p}
At(p) == {n \in DOMAIN dials : Held(n) /\ dials[n].at = p}

Changed(ns, Change(_)) == dials' = [n \in DOMAIN dials |-> IF n \in ns THEN Change(dials[n]) ELSE dials[n]]
To(n, state) == [dials EXCEPT ![n].state = state]

(* tcp_arg(_pcb, NULL) and the like, whoever has the place by now *)
Unhooked(p) == [n \in DOMAIN dials |-> [dials[n] EXCEPT !.hooked = @ /\ n \notin At(p)]]

Raised(n, kind) ==
  queue' = IF dials[n].hooked THEN Append(queue, [kind |-> kind, of |-> n]) ELSE queue

(* _tcp_connected() puts its event in front. *)
Established ==
  \E n \in DOMAIN dials :
    /\ dials[n].state = "syn" /\ dials' = To(n, "open")
    /\ queue' = <<[kind |-> "connected", of |-> n]>> \o queue
    /\ UNCHANGED <<asked, self, clears, app, astray>>

(* The peer does not answer, or resets: the pcb is freed before _tcp_error(). *)
Breaks ==
  \E n \in DOMAIN dials :
    /\ dials[n].state \in {"syn", "open", "half"} /\ dials' = To(n, "gone")
    /\ Raised(n, "error")
    /\ UNCHANGED <<asked, self, clears, app, astray>>

(* FIN: _lwip_fin() closes the pcb if it is the client's, which it is not   *)
(* before CONNECTED has been handled.                                      *)
PeerCloses ==
  \E n \in DOMAIN dials :
    /\ dials[n].state = "open" /\ dials[n].hooked
    /\ IF self.pcb = dials[n].at
         THEN /\ dials' = [dials EXCEPT ![n].state = "closed", ![n].hooked = FALSE]
              /\ self' = [self EXCEPT !.pcb = NoPlace] /\ UNCHANGED astray
         ELSE /\ dials' = To(n, "half") /\ astray' = astray \cup {"early"} /\ UNCHANGED self
    /\ Raised(n, "fin")
    /\ UNCHANGED <<asked, clears, app>>

FreesPcb ==
  \E n \in DOMAIN dials :
    dials[n].state = "closed" /\ dials' = To(n, "gone")
    /\ UNCHANGED <<queue, asked, self, clears, app, astray>>

(* _tcp_dns_found() *)
DnsAnswers ==
  /\ asked > 0 /\ asked' = asked - 1
  /\ \E kind \in {"found", "unknown"} : queue' = Append(queue, [kind |-> kind, of |-> 0])
  /\ UNCHANGED <<dials, self, clears, app, astray>>

-----------------------------------------------------------------------------
(* connect(ip, port) *)

(* It returns false if there is a pcb, or none to be had. *)
Refuses == (self.pcb # NoPlace \/ FreePlaces = {}) /\ UNCHANGED dials

(* What tcp_connect() says is not looked at: it returns true, and nothing   *)
(* more is heard of a pcb that was refused.                                *)
Dials(port, state) ==
  /\ self.pcb = NoPlace
  /\ \E p \in FreePlaces :
       dials' = Append(dials, [state |-> state, at |-> p, port |-> port, hooked |-> TRUE])
ConnectRefused(port) ==
  /\ app.refusals > 0 /\ Dials(port, "refused") /\ astray' = astray \cup {"refused"}

-----------------------------------------------------------------------------
(* The application *)

Asks(call) == app.pc = "idle" /\ app.calls # <<>> /\ Head(app.calls).call = call
Port == Head(app.calls).port
Said(told) == [app EXCEPT !.calls = Tail(@), !.told = told, !.port = Port]

ConnectIp ==
  /\ \/ Dials(Port, "syn") /\ app' = Said("waiting") /\ UNCHANGED astray
     \/ ConnectRefused(Port) /\ app' = [Said("waiting") EXCEPT !.refusals = @ - 1]
     \/ Refuses /\ app' = Said("off") /\ UNCHANGED astray
  /\ UNCHANGED <<queue, asked, self, clears>>

(* connect(host, port), for a name that is known, is not, or is asked for *)
ConnectHost ==
  \/ ConnectIp
  \/ app' = Said("off") /\ UNCHANGED <<dials, queue, asked, self, clears, astray>>
  \/ /\ asked' = asked + 1 /\ app' = [Said("waiting") EXCEPT !.pc = "port"]
     /\ UNCHANGED <<dials, queue, self, clears, astray>>

ByAddress == Asks("ip") /\ app.told = "off" /\ ConnectIp
ByName == Asks("host") /\ app.told = "off" /\ ConnectHost

(* _connect_port is stored behind the call that asks. *)
StorePort ==
  /\ app.pc = "port" /\ app' = [app EXCEPT !.pc = "idle"]
  /\ self' = [self EXCEPT !.port = app.port]
  /\ UNCHANGED <<dials, queue, asked, clears, astray>>

(* close(): _close() does nothing without a pcb, and tells nothing. *)
ClearEvents(n) == <<[kind |-> "clear", of |-> n]>> \o queue
CloseUncleared == UNCHANGED queue
CloseClears == queue' = ClearEvents(Len(dials))

Disconnects ==
  /\ Asks("close") /\ app.told = "on"
  /\ \/ /\ self.pcb = NoPlace /\ app' = Said(app.told) /\ UNCHANGED <<dials, queue>>
     \/ /\ self.pcb # NoPlace /\ app' = [Said(app.told) EXCEPT !.pc = "close"]
        /\ dials' = Unhooked(self.pcb) /\ CloseClears
  /\ UNCHANGED <<asked, self, clears, astray>>

(* _tcp_close(), unguarded for want of a slot, and _discard_cb() *)
Closes ==
  /\ app.pc = "close" /\ app' = [app EXCEPT !.pc = "idle", !.told = "off"]
  /\ dials' = [n \in DOMAIN dials |->
                 IF n \in At(self.pcb) /\ dials[n].state \in {"open", "half"}
                   THEN [dials[n] EXCEPT !.state = "closed"] ELSE dials[n]]
  /\ self' = [self EXCEPT !.pcb = NoPlace]
  /\ UNCHANGED <<queue, asked, clears, astray>>

-----------------------------------------------------------------------------
(* The task of the queue *)

Handles(kind) == clears = 0 /\ queue # <<>> /\ Head(queue).kind = kind
Tell(told) == app' = [app EXCEPT !.told = told]

(* _connected() *)
HandleConnected ==
  /\ Handles("connected") /\ queue' = Tail(queue) /\ Tell("on")
  /\ self' = [self EXCEPT !.pcb = dials[Head(queue).of].at]
  /\ UNCHANGED <<dials, asked, clears, astray>>

(* _error() *)
KeepsPcb == self' = self
ForgetsPcb == self' = [self EXCEPT !.pcb = NoPlace]
HandleFailure ==
  /\ Handles("error") /\ queue' = Tail(queue) /\ Tell("off")
  /\ dials' = Unhooked(self.pcb) /\ ForgetsPcb
  /\ UNCHANGED <<asked, clears, astray>>

(* _fin() *)
HandleEnd ==
  /\ Handles("fin") /\ Tell("off")
  /\ queue' = <<[kind |-> "clear", of |-> Head(queue).of]>> \o Tail(queue)
  /\ UNCHANGED <<dials, asked, self, clears, astray>>

(* _dns_found(): what connect(ip, port) returns is not looked at. *)
HandleUnknown ==
  /\ Handles("unknown") /\ queue' = Tail(queue) /\ Tell("off")
  /\ UNCHANGED <<dials, asked, self, clears, astray>>

Mistaken == IF app.pc = "port" THEN {"port"} ELSE {}
HandleFound ==
  /\ Handles("found") /\ queue' = Tail(queue)
  /\ \/ Dials(self.port, "syn") /\ UNCHANGED app /\ astray' = astray \cup Mistaken
     \/ ConnectRefused(self.port) /\ app' = [app EXCEPT !.refusals = @ - 1]
     \/ Refuses /\ UNCHANGED app /\ astray' = astray \cup {"refused"}
  /\ UNCHANGED <<asked, self, clears>>

(* _remove_events_with_arg() *)
HandleClear ==
  /\ Handles("clear") /\ queue' = Tail(queue) /\ clears' = Head(queue).of
  /\ UNCHANGED <<dials, asked, self, app, astray>>

Drops ==
  /\ clears # 0 /\ queue # <<>> /\ queue' = Tail(queue)
  /\ astray' = IF Head(queue).of \in 1..clears THEN astray ELSE astray \cup {"cleared"}
  /\ UNCHANGED <<dials, asked, self, clears, app>>

Cleared ==
  /\ clears # 0 /\ queue = <<>> /\ clears' = 0
  /\ UNCHANGED <<dials, queue, asked, self, app, astray>>

-----------------------------------------------------------------------------
OutNext ==
  \/ Established \/ Breaks \/ PeerCloses \/ FreesPcb \/ DnsAnswers
  \/ ByAddress \/ ByName \/ StorePort \/ Disconnects \/ Closes
  \/ HandleConnected \/ HandleFailure \/ HandleEnd \/ HandleUnknown \/ HandleFound
  \/ HandleClear \/ Drops \/ Cleared

OutSpec == OutInit /\ [][OutNext]_outVars

-----------------------------------------------------------------------------
Quiet ==
  /\ queue = <<>> /\ clears = 0 /\ asked = 0 /\ app.pc = "idle"
  /\ \A n \in DOMAIN dials : dials[n].state # "syn"

(* When nothing is under way any more, the application knows what is so:    *)
(* connected to the port it asked for by the pcb that the client holds, or  *)
(* not connected, with no pcb left open or held; however soon it has        *)
(* connected again.  What the code gets wrong: what tcp_connect() says is   *)
(* not looked at; FIN is not acted on before CONNECTED has been handled;    *)
(* what is thrown away after a close may be of the connection after it; and *)
(* the DNS may answer before the port is stored.                           *)
KnowsWhatIsSo ==
  Quiet /\ astray = {} =>
    LET open == {n \in DOMAIN dials : dials[n].state \in {"open", "half"}}
    IN  \/ app.told = "on" /\ \E n \in open : open = {n} /\ dials[n].at = self.pcb /\ dials[n].port = app.port
        \/ app.told = "off" /\ open = {} /\ self.pcb = NoPlace
=============================================================================
