----------------------------- MODULE WebRequest -----------------------------
(***************************************************************************)
(* Requests of ESPAsyncWebServer on one connection after another: the      *)
(* peer's bytes arrive in segments of any length, _onData() takes them     *)
(* apart, a handler answers, and the answer is sent as acknowledgements    *)
(* and polls let it.  All of it runs on the task of AsyncTCP, which works  *)
(* on one segment at a time; acknowledgements reach lwIP meanwhile.        *)
(*                                                                         *)
(* A line of the head is two symbols and a "lf", a body a sequence of      *)
(* characters, in which a line of a part's header is one symbol.           *)
(***************************************************************************)
EXTENDS WebResponse, WebHandlers

CONSTANTS
  Requests,    \* what peers may ask, by connection: a sequence of sets
  Boundary,    \* of every multipart body, a sequence of characters
  ItemBuffer   \* 1460, the size of the buffer for an uploaded file

ASSUME RequestAssumption ==
  Boundary # <<>> /\ ItemBuffer \in Nat \ {0} /\ Requests # <<>>

VARIABLES
  asked,    \* the request the peer is sending
  arrived,  \* how many of its symbols lwIP has delivered
  piece,    \* what is left of the segment _onData() is working on
  req,      \* the AsyncWebServerRequest
  calls,    \* the calls of the handler that the parser has come to
  gzip,     \* _gzipStats and _gzipFirst of the static handlers
  count,    \* connections so far
  taken     \* history: what the handler has been given

server == <<gzip, count, editor, jsonLength>>
request == <<asked, arrived, piece, req, calls, server, taken>>

Input(a) == FoldLeft(LAMBDA s, l : s \o l \o <<"lf">>, <<>>, a.lines) \o <<"lf">> \o a.body

NewRequest(a) ==
  [state |-> "start", temp |-> <<>>, method |-> "ANY", url |-> <<>>, params |-> <<>>,
   version |-> 0, conn |-> "http", auth |-> [scheme |-> "none"], headers |-> <<>>,
   viaStation |-> a.viaStation, type |-> "", plain |-> FALSE, continue |-> FALSE,
   length |-> 0, parsed |-> 0, handler |-> CatchAll, gz |-> FALSE,
   multi |-> "boundary", at |-> 0, name |-> "", filename |-> <<>>, isFile |-> FALSE,
   value |-> <<>>, buffer |-> <<>>, size |-> 0, file |-> <<>>, object |-> <<>>]
Deleted == [state |-> "deleted"]
Untaken == [handled |-> 0, params |-> <<>>, body |-> <<>>, upload |-> <<>>, finals |-> 0]

Init ==
  /\ StreamInit(0) /\ response = NoResponse /\ answers = <<>>
  /\ asked \in Requests[1] /\ arrived = 0 /\ piece = <<>> /\ req = NewRequest(asked)
  /\ calls = <<>> /\ gzip = [stats |-> 248, first |-> FALSE] /\ count = 1 /\ taken = Untaken
  /\ EditorInit /\ jsonLength = Unset

(* The task is not inside _onData(). *)
Idle == piece = <<>> /\ calls = <<>> /\ req.state \notin {"answer", "deleted"}

(* AsyncServer::_accept() and the constructor of the request *)
Connect ==
  /\ req.state = "deleted" /\ count < Len(Requests) /\ count' = count + 1
  /\ wire' = <<>> /\ unacked' = 0 /\ confirmed' = 0 /\ connected' = TRUE /\ lost' = {}
  /\ response' = NoResponse /\ answers' = <<>>
  /\ asked' \in Requests[count'] /\ arrived' = 0 /\ piece' = <<>> /\ req' = NewRequest(asked')
  /\ calls' = <<>> /\ taken' = Untaken
  /\ UNCHANGED <<faults, gzip, editor, jsonLength>>

(* The client goes, and with it the request and its response. *)
Disconnect ==
  /\ CloseStream /\ confirmed' = 0 /\ response' = NoResponse
  /\ piece' = <<>> /\ calls' = <<>> /\ req' = Deleted
  /\ UNCHANGED <<answers, asked, arrived, server, taken>>

(* FIN, RST or an error of lwIP; or, before send() has switched the timeout *)
(* off, _onTimeout() three seconds after the last segment.                 *)
PeerCloses == Idle /\ Disconnect
TimesOut == Idle /\ answers = <<>> /\ Disconnect

Segment ==
  /\ Idle /\ connected /\ arrived < Len(Input(asked))
  /\ \E n \in 1..(Len(Input(asked)) - arrived) :
       /\ piece' = IF req.state = "end" THEN <<>>
                   ELSE SubSeq(Input(asked), arrived + 1, arrived + n)
       /\ arrived' = arrived + n
  /\ UNCHANGED <<stream, response, answers, asked, req, calls, server, taken>>

-----------------------------------------------------------------------------
(* The head *)

(* _parseReqHead() *)
ParseReqHead(r) ==
  [r EXCEPT !.state = "headers", !.temp = <<>>,
            !.method = IF r.temp[1] \in {"GET", "POST", "PUT", "DELETE"} THEN r.temp[1] ELSE @,
            !.url = UrlDecode(asked.url), !.params = GetParams(asked.query),
            !.version = IF r.temp[2] = "HTTP/1.0" THEN 0 ELSE 1]

(* _parseReqHeader() *)
ParseReqHeader(r) ==
  LET is(h) == r.temp[1] = h
      v == r.temp[2]
  IN  [r EXCEPT !.temp = <<>>,
         !.type = IF is("Content-Type:") THEN v ELSE @,
         !.length = IF is("Content-Length:") THEN asked.length ELSE @,
         !.continue = @ \/ (is("Expect:") /\ v = "100-continue"),
         !.auth = IF is("Authorization:") THEN asked.auth ELSE @,
         !.conn = IF is("Upgrade:") /\ v = "websocket" THEN "ws"
                  ELSE IF is("Accept:") /\ v = "text/event-stream" THEN "event" ELSE @,
         !.headers = Append(@, r.temp)]

Continue == [i \in 1..ContinueLength |-> <<"100", i>>]

(* The empty line: _rewriteRequest(), _attachHandler() and                 *)
(* _removeNotInterestingHeaders(); the static handler that takes the       *)
(* request has opened a file and counted it.                               *)
Chosen(r) ==
  LET q == Rewritten(r)
      h == Attached(q)
      gz == h.class = "static" /\ ServesGz(StaticPath(h, q.url), gzip.first)
  IN  [q EXCEPT !.handler = h, !.gz = gz, !.headers = Kept(@, Interesting(h, q)),
                !.state = IF q.length # 0 THEN "body" ELSE "answer"]

Counted(h, gz) ==
  IF h.class # "static" THEN gzip
  ELSE LET s == GzipStats(gzip.stats, gz) IN [stats |-> s, first |-> CountBits(s) > 4]

(* No end of line in the segment *)
KeepLine ==
  /\ req.state \in {"start", "headers"} /\ piece # <<>> /\ "lf" \notin Range(piece)
  /\ req' = [req EXCEPT !.temp = @ \o piece] /\ piece' = <<>>
  /\ UNCHANGED <<stream, response, answers, asked, arrived, calls, server, taken>>

(* _parseLine().  A first line that is empty closes the client, which      *)
(* deletes the request that _onData() goes on with.                        *)
ParseLine ==
  /\ req.state \in {"start", "headers"} /\ "lf" \in Range(piece)
  /\ LET i == First(piece, "lf", 1)
         r == [req EXCEPT !.temp = @ \o SubSeq(piece, 1, i - 1)]
         rest == SubSeq(piece, i + 1, Len(piece))
     IN  \/ r.state = "start" /\ r.temp = <<>> /\ Disconnect
         \/ /\ r.temp # <<>>
            /\ req' = IF r.state = "start" THEN ParseReqHead(r) ELSE ParseReqHeader(r)
            /\ piece' = rest
            /\ UNCHANGED <<stream, response, answers, asked, arrived, calls, server, taken>>
         \/ /\ r.state = "headers" /\ r.temp = <<>>
            /\ req' = Chosen(r) /\ piece' = IF req'.state = "answer" THEN <<>> ELSE rest
            /\ gzip' = Counted(req'.handler, req'.gz)
            /\ IF r.continue THEN \E o \in Outcomes(Continue) : Write(Continue, o) /\ confirmed' = confirmed
                             ELSE UNCHANGED stream
            /\ UNCHANGED <<response, answers, asked, arrived, calls, count, editor, jsonLength, taken>>

-----------------------------------------------------------------------------
(* The body.  The parser's operators work on the request and the calls.    *)

NeedParse == ~Trivial(req.handler)

ItemByte(s, c, last) ==
  LET buffer == Append(s.r.buffer, c)
      full == last \/ Len(buffer) = ItemBuffer
  IN  IF ~s.r.isFile
        THEN [s EXCEPT !.r.size = @ + 1, !.r.value = Append(@, c)]
        ELSE [r |-> [s.r EXCEPT !.size = @ + 1, !.buffer = IF full THEN <<>> ELSE buffer],
              calls |-> IF ~full THEN s.calls
                        ELSE Append(s.calls, [what |-> "upload", data |-> buffer, filename |-> s.r.filename,
                                  index |-> s.r.size + 1 - Len(buffer), final |-> FALSE])]

DataByte(s, c, last) ==
  IF c = "cr" THEN [s EXCEPT !.r.multi = "feed1"] ELSE ItemByte(s, c, last)

(* Mutant: what looked like a delimiter is dropped. *)
DelimiterDropped(s, seen, c, last) == DataByte([s EXCEPT !.r.multi = "data"], c, last)

(* What looked like a delimiter was data. *)
NotDelimiter(s, seen, c, last) ==
  DataByte(FoldLeft(LAMBDA t, d : ItemByte(t, d, last), [s EXCEPT !.r.multi = "data"], seen),
           c, last)

Dashes == <<"cr", "lf", "-", "-">>

(* The line of a part's header names the item, or a file, or makes it one.  *)
PartLine(s, c) ==
  CASE c # "lf" -> [s EXCEPT !.r.temp = IF c = "cr" THEN @ ELSE Append(@, c)]
    [] s.r.temp # <<>> -> LET line == asked.parts[s.r.temp[1]]
         IN  [s EXCEPT !.r.temp = <<>>, !.r.isFile = @ \/ line.file,
                       !.r.name = IF line.name = "" THEN @ ELSE line.name,
                       !.r.filename = IF line.filename = <<>> THEN @ ELSE line.filename]
    [] OTHER -> [s EXCEPT !.r.multi = "data", !.r.size = 0, !.r.value = <<>>, !.r.buffer = <<>>]

EndOfItem(s) ==
  LET r == [s.r EXCEPT !.multi = "dash3"]
  IN  CASE ~r.isFile -> [s EXCEPT !.r = [r EXCEPT !.params = Append(@, Param(<<r.name>>, r.value, TRUE))]]
        [] r.size > 0 ->
             [r |-> [r EXCEPT !.buffer = <<>>, !.params = Append(@, FileParam(<<r.name>>, r.filename))],
              calls |-> Append(s.calls, [what |-> "upload", data |-> r.buffer, filename |-> r.filename,
                                         index |-> r.size - Len(r.buffer), final |-> TRUE])]
        [] OTHER -> [s EXCEPT !.r = r]

(* _parseMultipartPostByte() *)
MultipartByte(s, c, last) ==
  LET r == s.r
      to(m) == [s EXCEPT !.r.multi = m]
      seen(n) == NotDelimiter(s, SubSeq(Dashes, 1, n), c, last)
      all(t) == NotDelimiter(s, Dashes \o t, c, last)
  IN  CASE r.multi = "boundary" ->
             LET line == <<"-", "-">> \o Boundary \o <<"cr", "lf">>
             IN  to(IF c # line[r.parsed + 1] THEN "error"
                    ELSE IF r.parsed + 1 = Len(line) THEN "headers" ELSE "boundary")
        [] r.multi = "headers" -> PartLine(s, c)
        [] r.multi = "data" -> DataByte(s, c, last)
        [] r.multi = "feed1" -> IF c = "lf" THEN to("dash1") ELSE seen(1)
        [] r.multi = "dash1" -> IF c = "-" THEN to("dash2") ELSE seen(2)
        [] r.multi = "dash2" -> IF c = "-" THEN [to("match") EXCEPT !.r.at = 0] ELSE seen(3)
        [] r.multi = "match" ->
             IF c # Boundary[r.at + 1] THEN all(SubSeq(Boundary, 1, r.at))
             ELSE IF r.at = Len(Boundary) - 1 THEN EndOfItem(s) ELSE [s EXCEPT !.r.at = @ + 1]
        [] r.multi = "dash3" ->
             IF c = "-" THEN [to("finished") EXCEPT !.r.length = r.parsed + 4]
             ELSE IF c = "cr" THEN to("feed2") ELSE all(Boundary)
        [] r.multi = "feed2" ->
             IF c = "lf" THEN [to("headers") EXCEPT !.r.isFile = FALSE]
             ELSE all(Append(Boundary, "cr"))
        [] OTHER -> s   \* finished, or an error

(* _parsePlainPostChar(); parsed counts the character already *)
PlainByte(r, c) ==
  LET temp == IF c = "&" THEN r.temp ELSE Append(r.temp, c)
      equal == First(temp, "=", 1)
      named == equal \in 2..Len(temp) /\ temp[1] \notin {"{", "["}
      p == IF named THEN Param(UrlDecode(SubSeq(temp, 1, equal - 1)),
                               UrlDecode(SubSeq(temp, equal + 1, Len(temp))), TRUE)
           ELSE Param(<<"body">>, UrlDecode(temp), TRUE)
  IN  IF c = "&" \/ r.parsed = r.length
        THEN [r EXCEPT !.temp = <<>>, !.params = Append(@, p)] ELSE [r EXCEPT !.temp = temp]

(* A text/plain body is a form if the first segment of it begins like one. *)
Special(c) == c \in {"{", "[", "&", "="}
LooksPlain(r) ==
  \/ r.type = "application/x-www-form-urlencoded"
  \/ /\ r.type = "text/plain" /\ ~Special(piece[1])
     /\ \E i \in 2..(Len(piece) - 1) : piece[i] = "=" /\ \A j \in 1..(i - 1) : ~Special(piece[j])

Parsing(r) ==
  NeedParse /\ (r.type = "multipart/form-data" \/ r.plain)

(* Mutant: a body is complete one character too early. *)
AfterBodyEarly(r, rest) ==
  IF rest = <<>> /\ r.parsed + 1 = r.length THEN [r EXCEPT !.state = "answer"] ELSE r

(* _onData() counts to _contentLength at the end of a segment only. *)
AfterBody(r, rest) ==
  IF rest = <<>> /\ r.parsed = r.length THEN [r EXCEPT !.state = "answer"] ELSE r

(* One turn of the loop over the characters of a form *)
ParseByte ==
  LET r0 == IF req.parsed = 0 THEN [req EXCEPT !.plain = LooksPlain(req)] ELSE req
      c == piece[1]
      rest == Tail(piece)
  IN  /\ req.state = "body" /\ piece # <<>> /\ calls = <<>> /\ Parsing(r0)
      /\ IF r0.plain
           THEN /\ req' = AfterBody(PlainByte([r0 EXCEPT !.parsed = @ + 1], c), rest)
                /\ UNCHANGED calls
           ELSE LET s == MultipartByte([r |-> r0, calls |-> <<>>], c, rest = <<>>)
                IN  req' = AfterBody([s.r EXCEPT !.parsed = @ + 1], rest) /\ calls' = s.calls
      /\ piece' = rest
      /\ UNCHANGED <<stream, response, answers, asked, arrived, server, taken>>

(* No memory for the buffer of a file *)
BufferFails ==
  /\ req.state = "body" /\ piece # <<>> /\ calls = <<>> /\ NeedParse
  /\ req.multi = "headers" /\ req.isFile /\ req.temp = <<>> /\ piece[1] = "lf"
  /\ OutOfMemory /\ confirmed' = confirmed
  /\ req' = AfterBody([req EXCEPT !.multi = "error", !.parsed = @ + 1], Tail(piece))
  /\ piece' = Tail(piece)
  /\ UNCHANGED <<response, answers, asked, arrived, calls, server, taken>>

(* A body that is not parsed is given to handleBody() segment by segment. *)
TakeBody ==
  LET r0 == IF req.parsed = 0 THEN [req EXCEPT !.plain = LooksPlain(req)] ELSE req
  IN  /\ req.state = "body" /\ piece # <<>> /\ calls = <<>> /\ ~Parsing(r0)
      /\ calls' = IF r0.plain \/ r0.type = "multipart/form-data" \/ Trivial(r0.handler)
                    THEN <<>>
                    ELSE <<[what |-> "body", data |-> piece, filename |-> <<>>,
                            index |-> r0.parsed, final |-> FALSE]>>
      /\ req' = AfterBody([r0 EXCEPT !.parsed = @ + Len(piece)], <<>>)
      /\ piece' = <<>>
      /\ UNCHANGED <<stream, response, answers, asked, arrived, server, taken>>

-----------------------------------------------------------------------------
(* The handler *)

Send(a) ==
  Respond(NewResponse(a.kind, a.code, a.size, a.page)) /\ confirmed' = confirmed

(* requestAuthentication(), whose header asks for a digest *)
RequestAuthentication == Send(Status("401"))

(* The callback, or the editor or the JSON handler, is given a piece.  *)
Take(c) ==
  LET after(seen) == seen \o (IF c.index = Len(seen) THEN c.data ELSE <<"gap">> \o c.data)
  IN  taken' = IF c.what = "body" THEN [taken EXCEPT !.body = after(@)]
               ELSE [taken EXCEPT !.upload = after(@), !.finals = @ + (IF c.final THEN 1 ELSE 0)]

(* handleUpload() and handleBody() of a callback handler: each asks for    *)
(* the credentials itself if they are missing.                             *)
CallCallback(h, c) ==
  /\ h.class = "callback" /\ UNCHANGED <<req, server>>
  /\ IF Admits(h, req) THEN Take(c) /\ UNCHANGED <<stream, response, answers>>
                       ELSE RequestAuthentication /\ UNCHANGED taken

(* The editor takes what is uploaded; the flash may be full. *)
CallEditor(h, c) ==
  /\ h.class = "editor"
  /\ UNCHANGED <<response, answers, confirmed, gzip, count, excludes, jsonLength>>
  /\ IF c.what = "body" THEN NoWrite /\ UNCHANGED <<files, authenticated, req, taken>>
     ELSE /\ authenticated' = (authenticated \/ Opens(h, req, c))
          /\ req' = [req EXCEPT !.file = FileAfter(h, req, c)]
          /\ Take(c)
          /\ \/ files' = TakenUp(h, req, c, c.data) /\ NoWrite
             \/ files' = TakenUp(h, req, c, <<>>) /\ Writes(h, req, c) /\ FlashFull

(* The JSON handler takes bodies only. *)
CallJson(h, c) ==
  /\ h.class = "json" /\ Take(c)
  /\ jsonLength' = <<req.length>> /\ req' = [req EXCEPT !.object = ObjectWith(h, req, c)]
  /\ UNCHANGED <<stream, response, answers, gzip, count, editor>>

CallHandler ==
  /\ calls # <<>> /\ calls' = Tail(calls)
  /\ \/ CallCallback(req.handler, calls[1]) \/ CallEditor(req.handler, calls[1])
     \/ CallJson(req.handler, calls[1])
  /\ UNCHANGED <<asked, arrived, piece>>

(* beginChunkedResponse() of a request of HTTP 1.0 *)
ForVersion(a, r) ==
  IF a.kind = "chunked" /\ a.page = <<>> /\ r.version = 0 THEN [a EXCEPT !.kind = "unsized"] ELSE a

(* handleRequest() of the handler *)
Answer ==
  /\ req.state = "answer" /\ calls = <<>>
  /\ req' = [req EXCEPT !.state = "end"] /\ piece' = <<>>
  /\ \E a \in Replies(req.handler, req) : Send(ForVersion(a, req))
  /\ IF req.handler.class = "editor" /\ Admits(req.handler, req)
       THEN EditorAnswers(req) ELSE UNCHANGED editor
  /\ taken' = [taken EXCEPT !.handled = @ + 1, !.params = req.params]
  /\ UNCHANGED <<asked, arrived, calls, gzip, count, jsonLength>>

-----------------------------------------------------------------------------
(* _onAck() and _onPoll() *)

OnAck ==
  /\ Idle /\ UNCHANGED <<answers, asked, arrived, piece, calls, server, taken>>
  /\ \E n \in Sent :
       /\ TakeAcks(n)
       /\ UNCHANGED req
       /\ IF response.state = "none" THEN NoWrite /\ UNCHANGED response
          ELSE IF Finished(response) THEN NoWrite /\ response' = NoResponse
          ELSE ~UnsizedEnds(response) /\ Ack(n)

OnPoll ==
  /\ Idle /\ response.state # "none" /\ ~Finished(response) /\ Space > 0
  /\ ~UnsizedEnds(response) /\ Ack(0)
  /\ UNCHANGED <<confirmed, answers, request>>

(* close(true) of a response without a length, at an acknowledgement or a poll *)
EndOfUnsized ==
  /\ Idle /\ response.state # "none" /\ UnsizedEnds(response)
  /\ confirmed > 0 \/ Space > 0
  /\ Disconnect

LwipAcks == PeerAcks /\ UNCHANGED <<response, answers, request>>

(* Everything but the answer, which the pages of the tracker add to. *)
Transport ==
  \/ Connect \/ PeerCloses \/ TimesOut \/ Segment \/ LwipAcks
  \/ KeepLine \/ ParseLine \/ ParseByte \/ BufferFails \/ TakeBody
  \/ CallHandler \/ OnAck \/ OnPoll \/ EndOfUnsized
=============================================================================
