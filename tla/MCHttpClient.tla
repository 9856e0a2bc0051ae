---------------------------- MODULE MCHttpClient ----------------------------
(* Three servers, two ports of one of them, and the exchanges that differ;  *)
(* and the visits to WiFiManager.                                           *)
EXTENDS LoopClients

(* The first two share a domain, which is a part of the third name too.      *)
MCHosts == {"a.c.d", "b.c.d", "cc.de"}
MCLastTwo == [h \in MCHosts |-> IF h = "cc.de" THEN "cc.de" ELSE "c.d"]
MCParts == [h \in MCHosts |-> IF h = "cc.de" THEN {"c.d", "cc.de"} ELSE {h, "c.d"}]

A == [host |-> "a.c.d", port |-> 1]
A2 == [host |-> "a.c.d", port |-> 2]
B == [host |-> "b.c.d", port |-> 1]
C == [host |-> "cc.de", port |-> 1]

Get(at) == [at |-> at, type |-> "GET", payload |-> 0, stream |-> FALSE, gives |-> 0, ends |-> TRUE,
            reuse |-> TRUE, header |-> "none"]
HeadOf(at) == [Get(at) EXCEPT !.type = "HEAD"]
Post(at) == [Get(at) EXCEPT !.type = "POST", !.payload = 1]
(* From a stream, of the given size, that has so much and tells its end or not *)
Put(at, size, gives, ends) ==
  [Get(at) EXCEPT !.type = "PUT", !.payload = size, !.stream = TRUE, !.gives = gives, !.ends = ends]
With(q, given) == [q EXCEPT !.header = given]
Once(q) == [q EXCEPT !.reuse = FALSE]

Answer(code, framing, size, age) ==
  [code |-> code, framing |-> framing, size |-> size, minor |-> 1, close |-> framing = "none",
   location |-> [kind |-> "none"], age |-> age, domain |-> "none", mark |-> TRUE]
For(reply, domain) == [reply EXCEPT !.domain = domain]
Bare(reply) == [reply EXCEPT !.mark = FALSE]
Moved(code, framing, size, age, kind, at) ==
  [Answer(code, framing, size, age) EXCEPT !.location = [kind |-> kind, at |-> at]]
Old(reply) == [reply EXCEPT !.minor = 0, !.close = TRUE]

Plan(calls, replies, faults) == [calls |-> calls, replies |-> replies, faults |-> faults]
MCPlans ==
  {Plan(<<Get(A), Get(A)>>, <<Answer(200, "chunked", 2, "none"), Answer(200, "length", 2, "none")>>, 0),
   Plan(<<Get(A), Put(A2, 1, 1, TRUE)>>,
        <<Answer(200, "length", 2, "none"), Bare(Old(Answer(200, "none", 1, "none")))>>, 1),
   Plan(<<Put(A, 2, 1, FALSE), Put(A, 0, 2, TRUE)>>,
        <<Answer(200, "length", 1, "none"), Bare(Answer(200, "length", 1, "none"))>>, 1),
   Plan(<<Put(A, 0, 1, FALSE), Put(A, 2, 1, TRUE)>>,
        <<Answer(200, "length", 0, "none"), Answer(200, "length", 0, "none")>>, 1),
   Plan(<<Get(A), Get(B), Get(C)>>,
        <<Answer(200, "length", 0, "lasting"), For(Answer(200, "length", 0, "lasting"), "b.c.d"),
          For(Answer(200, "length", 0, "lasting"), "a.c.d")>>, 0),
   Plan(<<Get(A), Get(B), HeadOf(C)>>,
        <<For(Answer(200, "length", 0, "lasting"), "c.d"), Answer(200, "length", 0, "lasting"),
          Moved(307, "length", 0, "lasting", "url", B), Answer(200, "length", 0, "none")>>, 0),
   Plan(<<Post(A), Get(B)>>, <<Answer(200, "other", 1, "none"), Answer(200, "chunked", 0, "none")>>, 1),
   Plan(<<Once(Get(A)), Get(B)>>, <<Answer(200, "chunked", 1, "none"), Answer(200, "length", 0, "none")>>, 0),
   Plan(<<Get(A)>>, <<Moved(302, "chunked", 1, "session", "path", A),
                      Moved(307, "length", 1, "session", "url", B), Answer(200, "length", 1, "none")>>, 1),
   Plan(<<With(Post(A), "add")>>, <<Moved(303, "length", 1, "lasting", "url", A2),
                                     Moved(307, "length", 1, "lasting", "url", A), Answer(200, "length", 1, "none")>>, 0),
   Plan(<<Post(A)>>, <<Moved(303, "length", 0, "lasting", "path", A), Answer(301, "length", 1, "lasting"),
                       Answer(200, "length", 0, "none")>>, 0),
   Plan(<<Post(A), Get(A)>>, <<Moved(307, "length", 0, "lasting", "url", B),
                               Moved(301, "length", 0, "over", "foreign", B)>>, 0),
   Plan(<<With(Get(A), "add"), With(Post(A), "replace"), With(Get(A), "add")>>,
        <<Answer(200, "length", 0, "session"), Answer(200, "length", 0, "lasting"),
          Answer(200, "length", 0, "none")>>, 1),
   Plan(<<Get(A), Post(B), Get(B)>>,
        <<Answer(200, "length", 0, "lasting"), Moved(303, "length", 0, "none", "url", B),
          Answer(307, "length", 0, "none"), Answer(200, "length", 0, "none")>>, 0),
   Plan(<<>>, <<>>, 0)}

(* The lines of a head, each ended by CR and LF or by LF alone *)
Crlf(pieces) == pieces \o <<"cr", "lf">>
Visit(first, field) == [head |-> Crlf(first) \o field \o Crlf(<<>>), body |-> <<>>]
Sloppy(first) == [head |-> <<first, "cr", "text", "lf", "lf">>, body |-> <<>>]
MCVisits ==
  {<<>>,
   <<Visit(<<"GET /26/on", "text">>, <<>>), Sloppy("GET /26/off"), Visit(<<"text">>, Crlf(<<"text">>))>>,
   <<Visit(<<"GET /27/on">>, Crlf(<<"text", "GET /26/on">>)), Visit(<<"GET /27/on">>, <<>>),
     [Visit(<<"GET /27/off", "text">>, <<>>) EXCEPT !.body = <<"GET /26/off", "lf">>]>>}
=============================================================================
