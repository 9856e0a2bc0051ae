---------------------------- MODULE LoopClients ----------------------------
(***************************************************************************)
(* The two parts that block the loop task on a WiFiClient of the core:     *)
(* HTTPClient, whose calls reach out, and WiFiManager, whose update()      *)
(* takes what comes in.  They share no state, and a behaviour plays one of *)
(* them while the other rests, as the loop task does.                      *)
(***************************************************************************)
EXTENDS HttpClient, WiFiManager

loopVars == <<vars, wifiVars>>

LoopInit == Init /\ WifiInit /\ (plan.calls = <<>> \/ coming = <<>>)

LoopNext ==
  \/ Next /\ UNCHANGED wifiVars
  \/ WifiNext /\ UNCHANGED vars

LoopSpec ==
  LoopInit /\ [][LoopNext]_loopVars
  /\ WF_vars(Client /\ UNCHANGED plan) /\ WF_vars(Arrive /\ UNCHANGED plan)
=============================================================================
