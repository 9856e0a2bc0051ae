---------------------------- MODULE ClientStream ----------------------------
(***************************************************************************)
(* One connection as the web server sees it through its AsyncClient: what  *)
(* has been handed to lwIP, how much of it the peer has not acknowledged,  *)
(* and the acknowledgements that wait in the event queue.  The responses,  *)
(* sockets and event streams of the other modules are written to it.       *)
(***************************************************************************)
EXTENDS Naturals, Sequences, SequencesExt

CONSTANTS
  SndBuf,   \* TCP_SND_BUF, what lwIP keeps for the peer
  Faults    \* bound: how many calls may fail for want of memory

ASSUME StreamAssumption == SndBuf \in Nat \ {0} /\ Faults \in Nat

VARIABLES
  wire,       \* the bytes that lwIP has accepted, in order
  unacked,    \* how many of them the peer has not acknowledged
  confirmed,  \* acknowledged bytes whose SENT event has not been handled
  connected,  \* the client has a pcb in the state ESTABLISHED
  faults,     \* calls that have failed so far
  lost        \* history: why a write took less than it was given

stream == <<wire, unacked, confirmed, connected, faults, lost>>

(* A connection on which fewer than Faults calls may still fail *)
StreamInit(used) ==
  /\ wire = <<>> /\ unacked = 0 /\ confirmed = 0
  /\ connected = TRUE /\ faults = used /\ lost = {}

(* AsyncClient::space() *)
Space == IF connected THEN SndBuf - unacked ELSE 0

Least(a, b) == IF a < b THEN a ELSE b

(* What becomes of a write: add() takes as much as there is room for, or   *)
(* nothing if tcp_write() fails; send() may fail after that, and write()   *)
(* then returns 0 for bytes that are on their way.                         *)
Outcomes(bytes) ==
  LET n == Least(Space, Len(bytes))
  IN  {[taken |-> n, returned |-> n, fault |-> FALSE]} \cup
      (IF faults < Faults /\ n > 0
         THEN {[taken |-> 0, returned |-> 0, fault |-> TRUE],
               [taken |-> n, returned |-> 0, fault |-> TRUE]} ELSE {})

(* AsyncClient::write(): add() and send().  The handlers that write leave    *)
(* `confirmed' to the event they handle.                                     *)
Write(bytes, o) ==
  /\ wire' = wire \o SubSeq(bytes, 1, o.taken)
  /\ unacked' = unacked + o.taken
  /\ faults' = IF o.fault THEN faults + 1 ELSE faults
  /\ lost' = lost \cup (IF o.fault THEN {"memory"}
                        ELSE IF o.taken < Len(bytes) THEN {"room"} ELSE {})
  /\ UNCHANGED connected

(* malloc() fails: nothing is written. *)
OutOfMemory ==
  /\ faults < Faults /\ faults' = faults + 1
  /\ UNCHANGED <<wire, unacked, connected, lost>>

(* A write to the flash takes nothing. *)
FlashFull ==
  /\ faults < Faults /\ faults' = faults + 1 /\ lost' = lost \cup {"flash"}
  /\ UNCHANGED <<wire, unacked, connected>>

(* The peer acknowledges; lwIP has room again and puts SENT into the queue. *)
PeerAcks ==
  /\ connected
  /\ \E n \in 1..unacked : unacked' = unacked - n /\ confirmed' = confirmed + n
  /\ UNCHANGED <<wire, connected, faults, lost>>

(* The task takes a SENT event out of the queue.  Bound: the event is for   *)
(* one byte, or for all the bytes that wait.                               *)
Sent == {1, confirmed}
TakeAcks(n) == n \in 1..confirmed /\ confirmed' = confirmed - n

(* A queue without those at its front that are done with *)
Remaining(queue, Done(_)) ==
  SubSeq(queue, Min({i \in DOMAIN queue : ~Done(queue[i])} \cup {Len(queue) + 1}), Len(queue))

NoWrite == UNCHANGED <<wire, unacked, connected, faults, lost>>

(* AsyncClient::close(), or the peer's FIN or RST. *)
CloseStream == connected' = FALSE /\ UNCHANGED <<wire, unacked, faults, lost>>
=============================================================================
