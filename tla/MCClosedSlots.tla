--------------------------- MODULE MCClosedSlots ---------------------------
(* Four clients of a server that listens from the start, and fewer of one    *)
(* that is begun and ended, with failures or without; and a client that      *)
(* connects three times, to ports that differ.                             *)
EXTENDS TcpClients, TLC

Once == <<"begin">>
Repeated == <<"begin", "begin", "end", "begin", "end">>
MCScripts == {[calls |-> Once, faults |-> 0, accepts |-> 4],
              [calls |-> Repeated, faults |-> 2, accepts |-> 2],
              [calls |-> <<>>, faults |-> 0, accepts |-> 0]}

Ask(call, p) == [call |-> call, port |-> p]
MCErrands == {[calls |-> <<>>, refusals |-> 0],
              [calls |-> <<Ask("ip", 1), Ask("close", 1), Ask("host", 2), Ask("close", 2), Ask("host", 3)>>,
               refusals |-> 1],
              [calls |-> <<Ask("host", 1), Ask("host", 2), Ask("close", 2), Ask("ip", 3)>>, refusals |-> 0]}

Symmetric == Permutations(Conns) \cup Permutations(Pcbs)
=============================================================================
