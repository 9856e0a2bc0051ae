----------------------------- MODULE MCAsyncTcp -----------------------------
(* One or two connections, with two or three events besides the first and    *)
(* the last; as many addresses as connections.                               *)
EXTENDS AsyncTcp

CONSTANTS c1, c2, a1, a2

OneConn  == {c1}
TwoConns == {c1, c2}

OneAddr  == {a1}
TwoAddrs == {a1, a2}

ThreeEvents == [c \in OneConn |-> 3]
TwoEvents   == [c \in TwoConns |-> 2]
=============================================================================
