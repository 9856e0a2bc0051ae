---------------------------- MODULE MCPushServer ----------------------------
EXTENDS PushServer

F(op, n) == [op |-> op, len |-> n]
Symbols(frames) ==
  FlattenSeq([i \in DOMAIN frames |->
    [k \in 1..(frames[i].len + 1) |->
       [frame |-> i, op |-> frames[i].op, len |-> frames[i].len, at |-> k - 1]]])
S(frames, m, c, e, f) ==
  [peer |-> Symbols(frames), messages |-> m, controls |-> c, events |-> e, faults |-> f]
MCScenarios ==
  {S(<<>>, 0, 0, 3, 1),
   S(<<>>, 2, 0, 0, 0), S(<<>>, 1, 1, 0, 0), S(<<>>, 1, 0, 0, 1),
   S(<<F("text", 2), F("ping", 1)>>, 0, 0, 0, 0),
   S(<<F("close", 1)>>, 0, 1, 0, 0), S(<<F("close", 0), F("close", 1)>>, 0, 0, 0, 0),
   S(<<F("pong", 2), F("continuation", 2), F("ping", 0)>>, 0, 0, 0, 0)}
MCMessageLengths == {0, 3}
MCEventLengths == {3, 6}
MCJoins == {[app |-> 0, tcp |-> 0, join |-> 2]}
MCCalls == {[app |-> 1, tcp |-> 1, join |-> 2], [app |-> 2, tcp |-> 0, join |-> 1]}
=============================================================================
