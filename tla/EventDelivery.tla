--------------------------- MODULE EventDelivery ----------------------------
(***************************************************************************)
(* What AsyncTCP should be for the web server: the events of a connection  *)
(* wait in the order in which they were raised; each is delivered once, in *)
(* that order, or thrown away after the client has been deleted.  No       *)
(* connection bothers another.                                             *)
(***************************************************************************)
EXTENDS Naturals

CONSTANT Conns

VARIABLES
  waiting,    \* for each connection the numbers of the events that wait
  raised,     \* how many were raised
  delivered,  \* the numbers of those that were delivered
  deleted     \* connections whose client is deleted

vars == <<waiting, raised, delivered, deleted>>

Init ==
  /\ waiting = [c \in Conns |-> {}]
  /\ raised = [c \in Conns |-> 0] /\ delivered = [c \in Conns |-> {}]
  /\ deleted = {}

(* The event that has waited longest *)
First(c, n) == n \in waiting[c] /\ \A m \in waiting[c] : n <= m

Raise(c) ==
  /\ c \notin deleted
  /\ raised' = [raised EXCEPT ![c] = @ + 1]
  /\ waiting' = [waiting EXCEPT ![c] = @ \cup {raised[c] + 1}]
  /\ UNCHANGED <<delivered, deleted>>

Deliver(c) ==
  /\ c \notin deleted
  /\ \E n \in waiting[c] :
       /\ First(c, n)
       /\ delivered' = [delivered EXCEPT ![c] = @ \cup {n}]
       /\ waiting' = [waiting EXCEPT ![c] = @ \ {n}]
  /\ UNCHANGED <<raised, deleted>>

Delete(c) ==
  /\ deleted' = deleted \cup {c}
  /\ UNCHANGED <<waiting, raised, delivered>>

Discard(c) ==
  /\ c \in deleted
  /\ \E n \in waiting[c] :
       First(c, n) /\ waiting' = [waiting EXCEPT ![c] = @ \ {n}]
  /\ UNCHANGED <<raised, delivered, deleted>>

Next == \E c \in Conns : Raise(c) \/ Deliver(c) \/ Delete(c) \/ Discard(c)

Spec == Init /\ [][Next]_vars
=============================================================================
