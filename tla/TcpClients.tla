------------------------------ MODULE TcpClients ------------------------------
(***************************************************************************)
(* What AsyncTCP keeps beside its queue: a server with the clients it      *)
(* accepts, and a client that connects by itself.  They share the memory   *)
(* of lwIP only; a behaviour plays the one or the other.                   *)
(***************************************************************************)
EXTENDS AsyncServer, OutgoingClient

TcpInit == ServerInit /\ OutInit /\ (script.calls = <<>> \/ app.calls = <<>>)

TcpNext ==
  \/ ServerNext /\ UNCHANGED outVars
  \/ OutNext /\ UNCHANGED <<vars, serverVars>>

TcpSpec == TcpInit /\ [][TcpNext]_<<vars, serverVars, outVars>>
=============================================================================
