----------------------------- MODULE WebResponse -----------------------------
(***************************************************************************)
(* A response of ESPAsyncWebServer while it is sent: every acknowledgement *)
(* and every poll of the client lets it write what the send buffer has     *)
(* room for.  The bytes of a head and of a body are numbered, so that what *)
(* is on the wire can be compared with what was to be sent.                *)
(*                                                                         *)
(* The kinds differ in where the bytes come from:                          *)
(*   basic    AsyncBasicResponse, a String                                 *)
(*   file     a File, program memory or a response stream: as much as asked *)
(*   json     a JSON value that is written out anew for every window        *)
(*   stream   a Stream of known length: what happens to be available       *)
(*   filler   a callback with a length, which may ask to be tried again    *)
(*   unsized  a callback without a length: the end is the end of the TCP   *)
(*            connection                                                   *)
(*   chunked  a callback in chunks, or any of the above with a template    *)
(***************************************************************************)
EXTENDS ClientStream, FiniteSetsExt, TLC

CONSTANTS
  HeadLength,      \* the length of every head
  ContinueLength,  \* and of "HTTP/1.1 100 Continue"
  NameLength,      \* TEMPLATE_PARAM_NAME_LENGTH
  Names,           \* the names that the callback of a template knows
  ValueOf(_)       \* what it returns for each of them

ASSUME HeadAssumption == HeadLength \in Nat \ {0} /\ ContinueLength \in Nat \ {0}
ASSUME TemplateAssumption == NameLength \in Nat \ {0}

VARIABLES
  response,  \* the response of the request, or NoResponse
  answers    \* history: in full, what each response was to put on the wire

(***************************************************************************)
(* A page with placeholders: the template processor of                     *)
(* AsyncAbstractResponse reads the source of the page in pieces as large   *)
(* as the window of the moment, and in each piece replaces %NAME% by what  *)
(* a callback returns, %% by %.  What is read ahead or does not fit waits  *)
(* in a cache.  C's pointers are indices from 1: data[p] is                *)
(* *pTemplateStart.                                                        *)
(***************************************************************************)
Mark == "%"

(* What the callback, processor() in the sketch, returns *)
Value(name) == IF name \in Names THEN ValueOf(name) ELSE <<>>

(* The first mark of a text at or after a position, or 0 *)
MarkFrom(text, p) ==
  LET marks == {i \in DOMAIN text : i >= p /\ text[i] = Mark}
  IN  IF marks = {} THEN 0 ELSE Min(marks)

(* _readDataFromCacheOrContent(): up to n bytes, the cache first *)
Ready(t, n) == SubSeq(t.cache \o t.source, 1, Least(n, Len(t.cache) + Len(t.source)))
Taken(t, n) ==
  [t EXCEPT !.cache = SubSeq(@, Least(n, Len(@)) + 1, Len(@)),
            !.source = SubSeq(@, Least(n - Least(n, Len(t.cache)), Len(@)) + 1, Len(@))]
Refilled(t, n) == [Taken(t, n) EXCEPT !.data = @ \o Ready(t, n)]

Cached(t, bytes) == [t EXCEPT !.cache = bytes \o @]
Passed(t) == [t EXCEPT !.at = @ + 1]

-----------------------------------------------------------------------------
(* The placeholder from p to e is replaced in a buffer of n bytes.  What no  *)
(* longer fits is cached; the buffer is filled up if there is room again.   *)
(* A value that is longer than the buffer fills it, but the length counts   *)
(* it only if something followed the placeholder.                           *)
Replaced(t, p, e, n, value) ==
  LET c == Least(Len(value), n - p + 1)
      moved == SubSeq(t.data, e + 1, Len(t.data))
      room == n - (p + c - 1)
      kept == SubSeq(t.data, 1, p - 1) \o SubSeq(value, 1, c) \o SubSeq(moved, 1, Least(room, Len(moved)))
      over == SubSeq(moved, room + 1, Len(moved))
      rest == SubSeq(value, c + 1, Len(value))
      put == Cached(Cached([t EXCEPT !.data = kept], over), rest)
  IN  IF rest # <<>> /\ over = <<>> /\ moved = <<>>
        THEN [put EXCEPT !.data = SubSeq(kept, 1, Len(t.data))]
      ELSE IF rest = <<>> /\ p + c < e + 1 THEN Refilled(put, n - Len(kept))
      ELSE put

(* %% in one piece: the second mark is removed. *)
Unescaped(t, p, e) ==
  Passed(Refilled([t EXCEPT !.data = SubSeq(@, 1, e - 1) \o SubSeq(@, e + 1, Len(@))], 1))

(* The end of a placeholder is looked for beyond the buffer. *)
Ahead(t, p, n) ==
  LET tail == SubSeq(t.data, p + 1, Len(t.data))
      count == NameLength + 1 - Len(tail)
      ahead == Ready(t, count)
      e == MarkFrom(ahead, 1)
      read == Taken(t, count)
      name == tail \o SubSeq(ahead, 1, e - 1)
      found == Cached(read, SubSeq(ahead, e + 1, Len(ahead)))
  IN  IF count <= 0 THEN Passed(t)
      ELSE IF e = 0 THEN Passed(Cached(read, ahead))
      ELSE IF name = <<>> THEN found   \* %% across the end: one mark, looked at again
      ELSE Replaced(found, p, Len(t.data), n, Value(name))

(* One turn of the loop, at the next mark *)
Turn(t, n) ==
  LET p == MarkFrom(t.data, t.at)
      e == MarkFrom(t.data, p + 1)
      name == SubSeq(t.data, p + 1, p + Least(NameLength, e - p - 1))
      found == [t EXCEPT !.at = p]
  IN  IF e = 0 THEN Ahead(found, p, n)
      ELSE IF name = <<>> THEN Unescaped(found, p, e)
      ELSE Replaced(found, p, e, n, Value(name))

Texts == Seq(STRING)
Buffers == [data : Texts, at : Nat, cache : Texts, source : Texts]

(* _fillBufferAndProcessTemplates() for a buffer of n bytes *)
FillTemplates(cache, source, n) ==
  LET process[t \in Buffers] ==
        IF MarkFrom(t.data, t.at) = 0 THEN t ELSE process[Turn(t, n)]
  IN  process[Refilled([data |-> <<>>, at |-> 1, cache |-> cache, source |-> source], n)]

-----------------------------------------------------------------------------
(* What a text says, whatever pieces it is read in *)
Expanded[text \in Texts] ==
  LET p == MarkFrom(text, 1)
      e == MarkFrom(text, p + 1)
      after == Expanded[SubSeq(text, e + 1, Len(text))]
  IN  IF p = 0 \/ e = 0 THEN text
      ELSE SubSeq(text, 1, p - 1) \o
           (IF e = p + 1 THEN <<Mark>> ELSE Value(SubSeq(text, p + 1, e - 1))) \o after

-----------------------------------------------------------------------------
NoResponse == [state |-> "none"]
Kinds == {"basic", "file", "json", "stream", "filler", "unsized", "chunked"}

HeadOf(code) == [i \in 1..HeadLength |-> <<code, i>>]
Body(n) == [i \in 1..n |-> <<"body", ToString(i)>>]
Sized(r) == r.kind \notin {"unsized", "chunked"}
Left(r) == r.size - r.filled
Tagged(text) == [i \in DOMAIN text |-> <<"body", text[i]>>]

(* What the wire is to carry: the body, or the page with its placeholders  *)
(* replaced.                                                               *)
Whole(r) ==
  r.head \o (IF r.page = <<>> THEN Body(r.size) ELSE Tagged(Expanded[r.page]))
Finished(r) == r.state = "end"

(* Constructors and _assembleHead(): length is _contentLength, size what   *)
(* the source holds, page its text if there is a callback for templates.   *)
NewResponse(kind, code, size, page) ==
  [kind |-> kind, state |-> "headers", head |-> HeadOf(code), size |-> size,
   page |-> page, source |-> page, cache |-> <<>>,
   length |-> IF kind \in {"unsized", "chunked"} THEN 0 ELSE size,
   rest |-> IF kind = "basic" THEN Body(size) ELSE <<>>,
   filled |-> 0, sent |-> 0, written |-> 0, acked |-> 0]

Wrote(r, o) == [r EXCEPT !.written = @ + o.returned]

(* Every piece that goes out is written by one call. *)
Puts(bytes, After(_)) == \E o \in Outcomes(bytes) : Write(bytes, o) /\ response' = After(o)

-----------------------------------------------------------------------------
(* AsyncBasicResponse *)

(* Mutant: the part of the body that went out with the head is kept. *)
BasicRespondKeeping(r) ==
  LET out == r.head \o r.rest
      now == SubSeq(out, 1, Least(Space, Len(out)))
  IN  Puts(now, LAMBDA o : [Wrote(r, o) EXCEPT !.state = IF now = out THEN "wait_ack" ELSE "content",
        !.head = <<>>, !.rest = IF now = out THEN @ ELSE r.rest])

(* All of it, the head alone, part of the head, the head and part of the   *)
(* body; or, with no room or with room for just the head, nothing.         *)
BasicRespond(r) ==
  LET out == r.head \o r.rest
      later == [r EXCEPT !.state = "content", !.head = <<>>]
      cut == SubSeq(out, 1, Space)
      kept == SubSeq(out, Space + 1, Len(out))
  IN  \/ /\ Space >= Len(out)
         /\ Puts(out, LAMBDA o : [Wrote(r, o) EXCEPT !.state = "wait_ack", !.head = <<>>])
      \/ /\ Space \in 1..(Len(r.head) - 1)
         /\ Puts(cut, LAMBDA o : [Wrote(later, o) EXCEPT
                  !.rest = kept, !.length = r.length + Len(r.head) - Space])
      \/ /\ Space \in (Len(r.head) + 1)..(Len(out) - 1)
         /\ Puts(cut, LAMBDA o : [Wrote(later, o) EXCEPT
                  !.rest = kept, !.sent = Space - Len(r.head)])
      \/ /\ Space < Len(out) /\ Space \in {0, Len(r.head)}
         /\ response' = [later EXCEPT !.rest = out, !.length = r.length + Len(r.head)]
         /\ NoWrite

BasicAck(r) ==
  LET available == r.length - r.sent
  IN  \/ /\ r.state = "content" /\ Space > available
         /\ Puts(SubSeq(r.rest, 1, available), LAMBDA o :
                   [Wrote(r, o) EXCEPT !.rest = <<>>, !.state = "wait_ack"])
      \/ /\ r.state = "content" /\ Space <= available
         /\ Puts(SubSeq(r.rest, 1, Space), LAMBDA o : [Wrote(r, o) EXCEPT
                   !.rest = SubSeq(@, Space + 1, Len(@)), !.sent = @ + Space])
      \/ /\ r.state = "wait_ack" /\ NoWrite
         /\ response' = [r EXCEPT !.state = IF r.acked >= r.written THEN "end" ELSE @]

-----------------------------------------------------------------------------
(* AsyncAbstractResponse *)

(* How many bytes _fillBuffer() may return for a buffer of n. *)
Fills(r, n) ==
  LET most == Least(n, Left(r))
  IN  IF r.kind \in {"file", "json"} \/ most = 0 THEN {most}
      ELSE IF r.kind = "stream" THEN 0..most ELSE 1..most

(* A callback may return RESPONSE_TRY_AGAIN. *)
MayTryAgain(r) ==
  r.kind \in {"filler", "unsized", "chunked"} /\ r.page = <<>> /\ Left(r) > 0

(* Where a piece begins: AsyncJsonResponse skips what it has sent. *)
Position(r) == IF r.kind = "json" THEN r.sent ELSE r.filled

(* What a buffer of n bytes may hold after _fillBufferAndProcessTemplates(), *)
(* and what is left to be read.                                            *)
Pieces(r, n) ==
  IF r.page = <<>>
    THEN {[data |-> SubSeq(Body(r.size), Position(r) + 1, Position(r) + k),
           cache |-> <<>>, source |-> <<>>] : k \in Fills(r, n)}
    ELSE LET t == FillTemplates(r.cache, r.source, n)
         IN  {[data |-> Tagged(t.data), cache |-> t.cache, source |-> t.source]}

(* The size of a chunk in hex, padded to four characters, and its CRLFs. *)
Chunk(data) == [i \in 1..6 |-> <<"size", Len(data)>>] \o data \o <<<<"crlf", 1>>, <<"crlf", 2>>>>

(* How much the source is asked for *)
Window(r, room) ==
  IF r.kind = "chunked" THEN room - 8
  ELSE IF Sized(r) THEN Least(room, r.length - r.sent) ELSE room

(* One piece of the body, in the room that is left when the head is counted *)
Content(r, room) ==
  LET want == Window(r, room)
  IN  IF r.kind = "chunked" /\ room <= 8 THEN response' = r /\ NoWrite
      ELSE IF want + Len(r.head) = 0 THEN response' = r /\ NoWrite   \* malloc(0)
      ELSE \/ response' = r /\ OutOfMemory
           \/ MayTryAgain(r) /\ response' = r /\ NoWrite
           \/ \E p \in Pieces(r, want) :
                LET n == Len(p.data)
                    out == r.head \o (IF r.kind = "chunked" THEN Chunk(p.data) ELSE p.data)
                    done == \/ r.kind = "chunked" /\ n = 0
                            \/ ~Sized(r) /\ out = <<>>
                            \/ r.kind # "chunked" /\ r.sent + n = r.length
                IN  Puts(out, LAMBDA o : [Wrote(r, o) EXCEPT !.head = <<>>,
                      !.filled = @ + n, !.sent = @ + n,
                      !.cache = p.cache, !.source = p.source,
                      !.state = IF done THEN "wait_ack" ELSE @])

(* Mutant: the head is not counted. *)
RoomWithHead(r) == Space

RoomAfterHead(r) == Space - Len(r.head)

(* send() has replaced a response whose source is not valid.  An unsized   *)
(* response closes the connection, which deletes it: see UnsizedEnds.      *)
AbstractAck(r) ==
  \/ /\ r.state = "headers" /\ Space >= Len(r.head)
     /\ Content([r EXCEPT !.state = "content"], RoomAfterHead(r))
  \/ /\ r.state = "headers" /\ Space < Len(r.head)
     /\ Puts(SubSeq(r.head, 1, Space), LAMBDA o :
               [Wrote(r, o) EXCEPT !.head = SubSeq(@, Space + 1, Len(@))])
  \/ r.state = "content" /\ Content(r, Space)
  \/ /\ r.state = "wait_ack" /\ NoWrite
     /\ response' = [r EXCEPT !.state = IF ~Sized(r) \/ r.acked >= r.written THEN "end" ELSE @]

UnsizedEnds(r) == r.kind = "unsized" /\ r.state = "wait_ack"

-----------------------------------------------------------------------------
(* AsyncWebServerRequest::send() of a response whose source is valid *)
Respond(r) ==
  /\ answers' = Append(answers, Whole(r))
  /\ IF r.kind = "basic" THEN BasicRespond(r) ELSE AbstractAck(r)

(* Mutant: what the peer acknowledges is forgotten if there is no room. *)
AckForgotten(n) ==
  LET r == [response EXCEPT !.acked = IF Space = SndBuf THEN @ ELSE @ + n]
  IN  IF r.kind = "basic" THEN BasicAck(r) ELSE AbstractAck(r)

(* _ack() of either class, n bytes having been acknowledged *)
Ack(n) ==
  LET r == [response EXCEPT !.acked = @ + n]
  IN  IF r.kind = "basic" THEN BasicAck(r) ELSE AbstractAck(r)
=============================================================================
