----------------------------- MODULE HttpClient -----------------------------
(***************************************************************************)
(* HTTPClient: the requests the sketch makes over one connection that is   *)
(* kept between them where both sides allow it, with the redirects it      *)
(* follows, the cookies it keeps and the bodies it hands out.  The server  *)
(* answers, is slow, falls silent or closes at any point.                  *)
(***************************************************************************)
EXTENDS Integers, Sequences, FiniteSets, SequencesExt

CONSTANTS
  Plans,          \* bound: what the caller asks for, a sequence of records [at,
                  \* type, payload, stream, gives, ends, reuse, header], what is
                  \* answered, a sequence of the records that Tokens() reads, and
                  \* how much may fail
  Following,      \* _followRedirects: "disable", "strict" or "force"
  RedirectLimit,  \* _redirectLimit
  Hosts,          \* their names
  LastTwo,        \* the last two labels of a host's name, or all of it
  Parts,          \* the domains that occur somewhere in a host's name
  NoPlace, NoCookie

ASSUME HostAssumption == \A h \in Hosts : LastTwo[h] \in Parts[h]

ASSUME HttpAssumption ==
  /\ Following \in {"disable", "strict", "force"}
  /\ RedirectLimit \in Nat

Place == [host : Hosts, port : Nat]
Framings == {"length", "chunked", "none", "other"}
Location == {[kind |-> "none"]} \cup [kind : {"path", "url", "foreign"}, at : Place]
Ages == {"none", "session", "lasting", "over"}
Planned ==
  [code : Nat, framing : Framings, size : Nat, minor : Nat, close : BOOLEAN,
   location : Location, age : Ages, domain : STRING, mark : BOOLEAN]
Asked ==
  [at : Place, type : STRING, payload : Nat, stream : BOOLEAN, gives : Nat, ends : BOOLEAN,
   reuse : BOOLEAN, header : {"none", "add", "replace"}]

ASSUME PlanAssumption ==
  \A s \in Plans : s.faults \in Nat /\ s.replies \in Seq(Planned) /\ s.calls \in Seq(Asked)

ASSUME NothingAssumption == NoPlace \notin Place /\ NoCookie \notin [value : Nat, domain : STRING, age : Ages]

VARIABLES
  link,    \* _client: [up, at, open], open while the server has not closed
  rx,      \* what available() counts
  flight,  \* what the server has sent and has not arrived, "fin" at its end
  owed,    \* what the server awaits: a payload ("more"), time to answer ("reply")
  http,    \* its members; begun is the begin() that was called last
  jar,     \* _cookieJar: the cookies [domain, value, age], one name for all
  call,    \* the call in progress: where it stands and its locals
  served,  \* history: the requests as they were sent, with the reply
  stale,   \* history: what was still under way when a later request was made
  plan,    \* the member of Plans that is played
  used     \* bound: calls and faults so far

vars == <<link, rx, flight, owed, http, jar, call, served, stale, plan, used>>

NoReply == [code |-> 0]
Idle == [pc |-> "idle", type |-> "GET", payload |-> 0, stream |-> FALSE, redirects |-> 0,
         first |-> TRUE, left |-> 0, total |-> 0, body |-> <<>>, raw |-> FALSE, result |-> 0]

Down == [up |-> FALSE, at |-> NoPlace, open |-> FALSE, mute |-> FALSE]

Init ==
  /\ link = Down /\ rx = <<>> /\ flight = <<>> /\ owed = "none"
  /\ http = [at |-> NoPlace, begun |-> "no", client |-> "none", own |-> FALSE, traits |-> FALSE,
             reuse |-> TRUE, canReuse |-> FALSE, size |-> -1, headers |-> <<>>, collected |-> 0,
             location |-> [kind |-> "none"], framing |-> "none", code |-> 0]
  /\ jar = {} /\ call = Idle /\ served = <<>> /\ stale = {}
  /\ plan \in Plans /\ used = [calls |-> 0, faults |-> 0]

-----------------------------------------------------------------------------
(* The connection *)

Connected == link.up /\ (rx # <<>> \/ link.open)

Stop == link' = Down /\ rx' = <<>> /\ flight' = <<>> /\ owed' = "none"
Keep == UNCHANGED <<link, rx, flight, owed>>
Fails == used.faults < plan.faults /\ used' = [used EXCEPT !.faults = @ + 1]

Clear(h) == [h EXCEPT !.code = 0, !.size = -1, !.headers = <<>>]

(* disconnect(): what has arrived is thrown away, and the connection stays  *)
(* if the last reply allows it.                                            *)
Kept(h) == h.reuse /\ h.canReuse
Disconnect(h) ==
  IF ~Connected THEN Keep
  ELSE IF Kept(h) THEN rx' = <<>> /\ UNCHANGED <<link, flight, owed>> ELSE Stop

(* Of end(): without a connection to keep the client is gone as well, and   *)
(* with a client of its own what it would make another one from.           *)
Ended(h) ==
  LET gone == Connected /\ ~Kept(h)
  IN  [Clear(h) EXCEPT !.client = IF gone THEN "none" ELSE @, !.own = @ /\ ~gone,
                       !.traits = @ /\ ~(gone /\ h.own)]

(* beginInternal() compares the host, not the port. *)
OtherHost(h, p) == h.at # NoPlace /\ h.at.host # p.host /\ Connected

(* returnError(), as the whole call's result *)
Return(code) ==
  /\ call' = [call EXCEPT !.pc = "returned", !.result = code]
  /\ IF code < 0 /\ Connected THEN Stop ELSE Keep

(* A begin() of the other kind than the one before it ends that one first. *)
Unmixed(mixed) == IF mixed THEN Ended([http EXCEPT !.canReuse = FALSE]) ELSE http

BeginInternal(h, p, mixed, kind) ==
  /\ IF OtherHost(h, p) \/ (mixed /\ Connected) THEN Stop ELSE Keep
  /\ http' = [h EXCEPT !.at = p, !.begun = kind, !.canReuse = @ /\ ~OtherHost(h, p)]

(* begin(host, ...), with a client or without, leaves a connection to another *)
(* host alone.                                                             *)
BeginHost(h, p, mixed) ==
  /\ IF mixed /\ Connected THEN Stop ELSE Keep
  /\ http' = [Clear(h) EXCEPT !.at = p, !.begun = "host"]

Own(h) == [h EXCEPT !.traits = TRUE]
Given(h) == [h EXCEPT !.client = "given"]

(* begin(url), and begin(client, url), which keeps the headers *)
BeginUrl(p, mixed) == BeginInternal(Own(Clear(Unmixed(mixed))), p, mixed, "url")
BeginClient(p, mixed) == BeginInternal(Given(Unmixed(mixed)), p, mixed, "client")

Begin ==
  /\ call.pc \in {"idle", "answered", "returned"} /\ used.calls < Len(plan.calls)
  /\ \E p \in {plan.calls[used.calls + 1].at} :
       \/ \E mixed \in {http.client # "none" /\ ~http.own} :
            BeginUrl(p, mixed) \/ BeginHost(Own(Unmixed(mixed)), p, mixed)
       \/ \E mixed \in {http.own} :
            BeginClient(p, mixed) \/ BeginHost(Given(Unmixed(mixed)), p, mixed)
  /\ call' = [Idle EXCEPT !.pc = "begun"]
  /\ UNCHANGED <<jar, served, stale, used>>

End ==
  /\ call.pc \in {"answered", "returned"}
  /\ Disconnect(http) /\ http' = Ended(http)
  /\ call' = Idle
  /\ UNCHANGED <<jar, served, stale, used>>

-----------------------------------------------------------------------------
(* Cookies *)

(* generateCookieString(): those whose domain occurs in the host's name,    *)
(* whoever set them                                                        *)
CookiesFor(h) == {c.value : c \in {d \in jar : d.domain \in Parts[h.at.host]}}

(* setCookie(): the domain is the one the reply names, if it names one, and *)
(* else the last two labels of the host.                                   *)
Domain(named, host) == IF named = "none" THEN LastTwo[host] ELSE named
Accepted(named, host) == Domain(named, host) \in Parts[host]

(* A cookie that the jar has is replaced only if it is given a lifetime;    *)
(* without one max_age.duration is 0, which counts as run out.             *)
Overwritten(c) == IF c.age = "lasting" THEN {c} ELSE {}
Added(c) == IF c.age = "over" THEN {} ELSE {c}
PutIn(c) ==
  LET old == {o \in jar : o.domain = c.domain}
  IN  jar' = (jar \ old) \cup (IF old = {} THEN Added(c) ELSE Overwritten(c))
SetCookie(c, host) ==
  IF Accepted(c.domain, host) THEN PutIn([c EXCEPT !.domain = Domain(c.domain, host)])
  ELSE UNCHANGED jar

(* The lifetime of a cookie runs out, and generateCookieString() drops it. *)
CookieExpires ==
  /\ \E c \in jar : c.age = "lasting" /\ jar' = jar \ {c}
  /\ Fails
  /\ UNCHANGED <<link, rx, flight, owed, http, call, served, stale>>

-----------------------------------------------------------------------------
(* The request *)

(* The caller's own header is called X-Cookie. *)
EndsWith(longer, name) == longer = name \/ <<longer, name>> = <<"x-cookie", "cookie">>

(* addHeader(): what is replaced is the first place where the name stands,  *)
(* if a line begins there.                                                 *)
AddHeader(hs, name, value, replace) ==
  LET found == {i \in DOMAIN hs : EndsWith(hs[i].name, name)}
      rest == IF replace /\ found # {} /\ hs[Min(found)].name = name
                THEN RemoveAt(hs, Min(found)) ELSE hs
  IN  Append(rest, [name |-> name, value |-> value])

SetReuse(h, reuse) == [h EXCEPT !.reuse = reuse]

(* setReuse() or useHTTP10(), addHeader(), and the request *)
Ask ==
  /\ call.pc = "begun"
  /\ \E q \in {plan.calls[used.calls + 1]} :
       /\ call' = [call EXCEPT !.pc = "request", !.type = q.type,
                               !.payload = q.payload, !.stream = q.stream]
       /\ http' = [SetReuse(http, q.reuse) EXCEPT !.headers =
                     IF q.header = "none" THEN @
                     ELSE AddHeader(@, "x-cookie", used.calls + 1, q.header = "replace")]
  /\ used' = [used EXCEPT !.calls = @ + 1]
  /\ UNCHANGED <<link, rx, flight, owed, jar, served, stale>>

(* connect() throws away what has arrived of an earlier reply. *)
DrainNothing(r) == r
Drain(r) == <<>>

ServerOpen == link.open /\ ~link.mute /\ "fin" \notin {flight[i].k : i \in DOMAIN flight}

(* Of the headers collected before, a request from a stream forgets none. *)
Wiped(h) == IF call.stream THEN h ELSE [h EXCEPT !.collected = 0]

(* connect(): the client that begin(url) makes is made now. *)
CanConnect == http.client # "none" \/ http.traits
Made(h) == IF h.client = "none" THEN [h EXCEPT !.client = "own", !.own = TRUE] ELSE h

WithLength(hs) ==
  IF call.payload > 0 THEN AddHeader(hs, "length", call.payload, TRUE) ELSE hs
WithCookies(hs, cookies) ==
  IF cookies = {} THEN hs ELSE AddHeader(hs, "cookie", cookies, TRUE)

Headed(h) ==
  [Made(Wiped(h)) EXCEPT !.headers = WithCookies(WithLength(@), CookiesFor(h))]

Lines(hs, name) == {i \in DOMAIN hs : hs[i].name = name}
Sent(h, at) ==
  [at |-> at, wanted |-> h.at, begun |-> h.begun, type |-> call.type, payload |-> call.payload,
   headers |-> h.headers, redirect |-> call.redirects > 0, call |-> used.calls,
   reply |-> NoReply, seen |-> "no"]

(* The server waits for the payload that the length announces, of which a   *)
(* stream sends nothing yet; sendRequest(type, payload, size) sends it all. *)
Announced(hs) == IF Lines(hs, "length") = {} THEN 0 ELSE hs[Min(Lines(hs, "length"))].value
Sends == IF call.stream THEN 0 ELSE call.payload
Send ==
  /\ call.pc = "request" /\ CanConnect /\ (Connected => link.open)
  /\ \E h \in {Headed(http)}, at \in {IF Connected THEN link.at ELSE http.at} :
       /\ http' = h
       /\ served' = Append(served, Sent(h, at))
       /\ owed' = IF Connected /\ ~ServerOpen THEN "none"
                  ELSE IF Announced(h.headers) > Sends THEN "more" ELSE "reply"
  /\ IF Connected
       THEN /\ rx' = Drain(rx) /\ UNCHANGED <<link, flight>>
            /\ stale' = stale \cup {t \in ToSet(flight) : t.k # "fin"}
       ELSE /\ link' = [up |-> TRUE, at |-> http.at, open |-> TRUE, mute |-> FALSE]
            /\ rx' = <<>> /\ flight' = <<>> /\ UNCHANGED stale
  /\ call' = [call EXCEPT !.pc = IF call.stream THEN "stream" ELSE "sent", !.first = TRUE]
  /\ UNCHANGED <<jar, used>>

(* No client, no connection; then, with the headers added, a server that    *)
(* has closed, or a write that takes less than the whole                   *)
CannotSend ==
  /\ call.pc = "request" /\ UNCHANGED <<jar, served, stale>>
  /\ \/ ~CanConnect /\ http' = Wiped(http) /\ UNCHANGED used
     \/ CanConnect /\ ~Connected /\ http' = Made(Wiped(http)) /\ Fails
     \/ CanConnect /\ http' = Headed(http) /\ (IF Connected /\ ~link.open THEN UNCHANGED used ELSE Fails)
  /\ Return(-1)

(* sendRequest(type, stream, size): the buffer, if there is memory for it.   *)
(* Without a size the loop has no other end than the stream's own.         *)
Buffer ==
  /\ call.pc = "stream" /\ call.first
  /\ \/ /\ call' = [call EXCEPT !.first = FALSE, !.left = IF call.payload = 0 THEN -1 ELSE call.payload]
        /\ Keep /\ UNCHANGED used
     \/ Fails /\ Return(-8)
  /\ UNCHANGED <<http, jar, served, stale>>

(* What the stream can give, and whether available() says so at its end;    *)
(* an answer of 0 there means that more may come.                          *)
Source == plan.calls[used.calls]
Streaming == call.pc = "stream" /\ ~call.first /\ Connected /\ call.left # 0
MoreToCome == call.total < Source.gives

(* A piece is written whole, if need be in two attempts. *)
StreamWrites ==
  /\ Streaming /\ link.open
  /\ \E n \in 1..(Source.gives - call.total) :
       /\ n <= call.left \/ call.left = -1
       /\ call' = [call EXCEPT !.total = @ + n, !.left = IF @ = -1 THEN -1 ELSE @ - n]
       /\ owed' = IF owed = "more" /\ Announced(http.headers) <= call.total + n THEN "reply" ELSE owed
  /\ UNCHANGED <<link, rx, flight, http, jar, served, stale, used>>

(* The second attempt takes less than the rest as well. *)
StreamFails ==
  /\ Streaming /\ MoreToCome /\ (IF link.open THEN Fails ELSE UNCHANGED used)
  /\ Return(-3)
  /\ UNCHANGED <<http, jar, served, stale>>

(* The connection is gone, or all is sent, or the stream says it has ended.  *)
StreamEnds ==
  /\ call.pc = "stream" /\ ~call.first
  /\ ~Connected \/ call.left = 0 \/ (~MoreToCome /\ Source.ends)
  /\ IF call.payload > 0 /\ call.total # call.payload THEN Return(-3)
     ELSE call' = [call EXCEPT !.pc = "sent", !.first = TRUE, !.left = 0, !.total = 0] /\ Keep
  /\ UNCHANGED <<http, jar, served, stale, used>>

(* handleHeaderResponse(): what the last reply told is forgotten, unless the *)
(* connection is gone already.                                             *)
Renewed(h) == [h EXCEPT !.code = 0, !.size = -1, !.canReuse = h.reuse, !.framing = "none"]
AwaitHead ==
  /\ call.pc = "sent"
  /\ IF Connected THEN call' = [call EXCEPT !.pc = "head"] /\ http' = Renewed(http) /\ Keep
     ELSE Return(-4) /\ UNCHANGED http
  /\ UNCHANGED <<jar, served, stale, used>>

-----------------------------------------------------------------------------
(* The head of the reply *)

IsLine(t) == t.k \notin {"body", "fin"}

(* readStringUntil('\n'): up to the end of a line, or, if that is of a body, *)
(* what is there when its time is up.  The lines of a head arrive whole.   *)
LineEnds == {i \in DOMAIN rx : IsLine(rx[i])}
LineLength == IF LineEnds = {} THEN Len(rx) ELSE Min(LineEnds)
Text(n) == [text |-> n > 1 \/ ~IsLine(rx[n]), last |-> rx[n]]

(* The first line gives the code, whatever it is: text of a body before it  *)
(* may hide it, and the size of a chunk is a number too.                   *)
Codes(line) ==
  CASE line.last.k = "status" -> {line.last.code} \cup (IF line.text THEN {0} ELSE {})
    [] line.last.k = "chunk" /\ ~line.text -> {line.last.n}
    [] OTHER -> {0}

FirstLine(line, h) ==
  {[h EXCEPT !.code = c, !.canReuse = @ /\ (line.last.k = "status" /\ ~line.text => line.last.minor = 1)]
     : c \in Codes(line)}

(* Content-Length, Transfer-Encoding, Connection, Location *)
Field(line, h) ==
  IF line.last.k # "fields" THEN h
  ELSE [h EXCEPT !.size = IF line.last.framing = "length" THEN line.last.n ELSE @,
                 !.framing = line.last.framing,
                 !.canReuse = @ /\ ~line.last.close,
                 !.collected = IF line.last.mark THEN line.last.r ELSE @,
                 !.location = IF line.last.location.kind = "none" THEN @ ELSE line.last.location]

HeadLine ==
  /\ call.pc = "head" /\ rx # <<>>
  /\ (LineEnds = {} => rx[Len(rx)].k = "body")
  /\ \E line \in {Text(LineLength)} :
       /\ line.last.k # "blank" \/ line.text
       /\ rx' = SubSeq(rx, LineLength + 1, Len(rx))
       /\ \E h \in IF call.first THEN FirstLine(line, http) ELSE {Field(line, http)} : http' = h
       /\ IF ~call.first /\ line.last.k = "fields" /\ line.last.cookie # NoCookie
            THEN SetCookie(line.last.cookie, http.at.host)
            ELSE UNCHANGED jar
  /\ call' = [call EXCEPT !.first = FALSE]
  /\ UNCHANGED <<link, flight, owed, served, stale, used>>

(* Redirects *)
MayFollow ==
  /\ Following # "disable" /\ call.redirects < RedirectLimit /\ ~call.stream
  /\ http.location.kind # "none"

SameMethod == http.code \in {301, 307} /\ (Following = "force" \/ call.type \in {"GET", "HEAD"})
DroppedToGet == http.code \in {302, 303}

(* setURL(): for a path the headers are cleared and the connection stays;  *)
(* for a URL whatever the reply said of the connection is forgotten.       *)
GoTo(l) ==
  IF l.kind = "path"
    THEN rx' = Tail(rx) /\ UNCHANGED <<link, flight, owed>> /\ http' = Clear(http)
    ELSE /\ IF OtherHost(http, l.at) THEN Stop
            ELSE Disconnect([http EXCEPT !.canReuse = TRUE])
         /\ http' = [http EXCEPT !.at = l.at, !.canReuse = ~OtherHost(http, l.at) \/ ~http.reuse]

DropNothing(c) == c
DropPayload(c) == [c EXCEPT !.type = "GET", !.payload = 0]

Redirect ==
  /\ GoTo(http.location)
  /\ call' = [(IF DroppedToGet THEN DropPayload(call) ELSE call)
                 EXCEPT !.pc = "request", !.redirects = @ + 1]

Seen(what) == served' = [served EXCEPT ![Len(served)].seen = what]

(* The blank line ends the head, and perhaps the call. *)
HeadEnds ==
  /\ call.pc = "head" /\ rx # <<>> /\ rx[1].k = "blank"
  /\ Seen("head")
  /\ CASE http.framing = "other" -> Return(-9) /\ UNCHANGED http
       [] http.framing # "other" /\ http.code = 0 -> Return(-7) /\ UNCHANGED http
       [] OTHER ->
            IF MayFollow /\ (SameMethod \/ DroppedToGet) /\ http.location.kind # "foreign"
              THEN Redirect
              ELSE /\ call' = [call EXCEPT !.pc = "answered", !.result = http.code]
                   /\ rx' = Tail(rx) /\ UNCHANGED <<http, link, flight, owed>>
  /\ UNCHANGED <<jar, stale, used>>

(* _tcpTimeout passes without anything to read, or the server has closed. *)
HeadNeverTimesOut == rx = <<>> /\ ~link.open
HeadTimesOut == rx = <<>>
NoHead ==
  /\ call.pc = "head" /\ HeadTimesOut
  /\ Return(IF Connected THEN -11 ELSE -5)
  /\ UNCHANGED <<http, jar, served, stale, used>>

-----------------------------------------------------------------------------
(* The body *)

WriteToStream ==
  CASE ~Connected -> Return(-4)
    [] Connected /\ http.framing = "chunked" -> call' = [call EXCEPT !.pc = "chunk"] /\ Keep
    [] OTHER -> call' = [call EXCEPT !.pc = "block", !.left = http.size] /\ Keep

(* getString(), with its reserve().  The result of the call is from here on  *)
(* what writeToStream() returns; getString() drops it and returns the body, *)
(* as far as it has come, in any case.                                     *)
GetString ==
  /\ call.pc = "answered"
  /\ \/ (http.size > 0 \/ http.size = -1) /\ UNCHANGED used /\ WriteToStream
     \/ http.size = 0 /\ UNCHANGED used /\ Return(0)
     \/ http.size # 0 /\ Fails /\ Return(0)
  /\ UNCHANGED <<http, jar, served, stale>>

(* The caller reads from getStream() what is there, framing and all. *)
ReadStream ==
  /\ call.pc = "answered" /\ Connected /\ rx # <<>>
  /\ call' = [call EXCEPT !.pc = "returned", !.result = 0, !.raw = TRUE, !.body = rx]
  /\ rx' = <<>>
  /\ UNCHANGED <<link, flight, owed, http, jar, served, stale, used>>

(* The end of writeToStream() *)
Done ==
  /\ Disconnect(http)
  /\ call' = [call EXCEPT !.pc = "returned", !.result = Len(call.body)]
  /\ Seen("all")

(* writeToStreamDataBlock() waits for the rest of the block, however long;  *)
(* without a length it reads until the server closes.                      *)
BlockReadsOn(n, left) == IF left = -1 THEN n ELSE IF n < left THEN n ELSE left
ReadBlock ==
  /\ call.pc = "block" /\ call.left # 0 /\ rx # <<>>
  /\ \E n \in {BlockReadsOn(Len(rx), call.left)} :
       /\ call' = [call EXCEPT !.body = @ \o SubSeq(rx, 1, n),
                               !.left = IF @ = -1 THEN -1 ELSE @ - n]
       /\ rx' = SubSeq(rx, n + 1, Len(rx))
  /\ UNCHANGED <<link, flight, owed, http, jar, served, stale, used>>

BlockFails ==
  /\ call.pc = "block" /\ Fails /\ Return(-10)
  /\ UNCHANGED <<http, jar, served, stale>>

BlockEnds ==
  /\ call.pc = "block" /\ (call.left = 0 \/ ~Connected)
  /\ CASE call.left > 0 -> Return(-10) /\ UNCHANGED served
       [] call.left <= 0 /\ http.framing = "chunked" ->
            call' = [call EXCEPT !.pc = "trailer"] /\ Keep /\ UNCHANGED served
       [] OTHER -> Done
  /\ UNCHANGED <<http, jar, stale, used>>

(* The line with the size of a chunk; of the last one the empty line that   *)
(* follows is left unread.                                                 *)
ChunkSize(line) == IF line.last.k = "chunk" /\ ~line.text THEN line.last.n ELSE 0
LastChunk(size) ==
  /\ http' = [http EXCEPT !.size = size]
  /\ IF Len(call.body) = size THEN Done ELSE Return(-10) /\ UNCHANGED served

ReadChunkSize ==
  /\ call.pc = "chunk" /\ rx # <<>>
  /\ \E n \in {ChunkSize(Text(LineLength))} :
       IF n > 0
         THEN /\ call' = [call EXCEPT !.pc = "block", !.left = n, !.total = @ + n]
              /\ rx' = SubSeq(rx, LineLength + 1, Len(rx))
              /\ UNCHANGED <<link, flight, owed, http, served>>
         ELSE LastChunk(IF http.size <= 0 THEN call.total ELSE http.size)
  /\ UNCHANGED <<jar, stale, used>>

ReadTrailer ==
  /\ call.pc = "trailer" /\ rx # <<>>
  /\ IF rx[1].k = "blank"
       THEN /\ call' = [call EXCEPT !.pc = "chunk"] /\ rx' = Tail(rx)
            /\ UNCHANGED <<link, flight, owed>>
       ELSE Return(-11)
  /\ UNCHANGED <<http, jar, served, stale, used>>

NoChunk ==
  /\ call.pc \in {"chunk", "trailer"} /\ rx = <<>>
  /\ Return(IF Connected THEN -11 ELSE -5)
  /\ UNCHANGED <<http, jar, served, stale, used>>

-----------------------------------------------------------------------------
(* The server *)

Body(from, to, r) == [i \in 1..(to - from + 1) |-> [k |-> "body", r |-> r, n |-> from + i - 1]]
Blank(r) == <<[k |-> "blank", r |-> r]>>
Chunk(n, r) == <<[k |-> "chunk", r |-> r, n |-> n]>>

(* A chunked body of two chunks, the first of one byte, unless it is empty *)
Tokens(p, r, close) ==
  <<[k |-> "status", r |-> r, code |-> p.code, minor |-> p.minor],
    [k |-> "fields", r |-> r, framing |-> p.framing, n |-> p.size, close |-> close, mark |-> p.mark,
     location |-> p.location,
     cookie |-> IF p.age = "none" THEN NoCookie ELSE [value |-> r, domain |-> p.domain, age |-> p.age]]>>
  \o Blank(r)
  \o (IF p.framing # "chunked" THEN Body(1, p.size, r)
      ELSE (IF p.size = 0 THEN <<>> ELSE Chunk(1, r) \o Body(1, 1, r) \o Blank(r))
           \o (IF p.size < 2 THEN <<>> ELSE Chunk(p.size - 1, r) \o Body(2, p.size, r) \o Blank(r))
           \o Chunk(0, r) \o Blank(r))
  \o (IF close THEN <<[k |-> "fin"]>> ELSE <<>>)

Reply ==
  /\ owed = "reply" /\ owed' = "none" /\ Len(served) \in DOMAIN plan.replies
  /\ \E p \in {plan.replies[Len(served)]} :
       /\ flight' = flight \o Tokens(p, Len(served), p.close \/ ~http.reuse)
       /\ served' = [served EXCEPT ![Len(served)].reply = p]
  /\ UNCHANGED <<link, rx, http, jar, call, stale, used>>

(* It closes with the rest of its reply unsent, or falls silent. *)
ServerFails ==
  /\ link.up /\ ServerOpen /\ Fails /\ owed' = "none"
  /\ \E n \in 0..Len(flight) :
       \/ flight' = Append(SubSeq(flight, 1, n), [k |-> "fin"]) /\ UNCHANGED link
       \/ flight' = SubSeq(flight, 1, n) /\ link' = [link EXCEPT !.mute = TRUE]
  /\ UNCHANGED <<rx, http, jar, call, served, stale>>

Arrive ==
  /\ flight # <<>>
  /\ \E n \in 1..Len(flight) :
       /\ rx' = rx \o SubSeq(flight, 1, IF flight[n].k = "fin" THEN n - 1 ELSE n)
       /\ link' = [link EXCEPT !.open = @ /\ flight[n].k # "fin"]
       /\ flight' = SubSeq(flight, n + 1, Len(flight))
  /\ UNCHANGED <<owed, http, jar, call, served, stale, used>>

-----------------------------------------------------------------------------
Caller == Begin \/ Ask \/ GetString \/ ReadStream \/ End
Client ==
  \/ Send \/ CannotSend \/ Buffer \/ StreamWrites \/ StreamFails \/ StreamEnds \/ AwaitHead
  \/ HeadLine \/ HeadEnds \/ NoHead \/ ReadBlock \/ BlockFails \/ BlockEnds
  \/ ReadChunkSize \/ ReadTrailer \/ NoChunk
Next ==
  (Caller \/ Client \/ CookieExpires \/ Reply \/ ServerFails \/ Arrive) /\ UNCHANGED plan

(* The client's loops go on, its timeouts pass, what was sent arrives. *)
Spec == Init /\ [][Next]_vars /\ WF_vars(Client /\ UNCHANGED plan) /\ WF_vars(Arrive /\ UNCHANGED plan)

-----------------------------------------------------------------------------
Busy == call.pc \notin {"idle", "begun", "answered", "returned"}

(* Every call returns, unless it reads a body and the server falls silent   *)
(* without closing, or it waits for more of a stream that gives less than   *)
(* its size, or has none, and does not tell its end: nothing bounds the     *)
(* time that takes.                                                        *)
CallsEnd ==
  Busy ~> \/ ~Busy
          \/ call.pc = "block" /\ Connected /\ rx = <<>> /\ flight = <<>>
          \/ Streaming /\ ~MoreToCome /\ ~Source.ends

(* What a call returns is of the reply to the request it made, the headers  *)
(* it collects and the body with it, and a body that is returned as whole   *)
(* is whole.  Something of an earlier reply comes between only if the body  *)
(* of the first one it happens to was not read or, of a chunked one, as the *)
(* empty line at its very end.  What the code gets wrong: a request from a  *)
(* stream does not wipe out the headers collected before.                  *)
RepliesKeptApart ==
  /\ \A t \in stale : (\A u \in stale : t.r <= u.r) /\ served[t.r].seen = "all" =>
       t.k = "blank" /\ served[t.r].reply.framing = "chunked"
  /\ stale = {} /\ call.pc \in {"answered", "returned"} /\ call.result >= 0 /\ served # <<>> =>
       LET r == Len(served)
           p == served[r].reply
       IN  /\ call.pc = "answered" => call.result = p.code
           /\ \/ http.collected = IF p.mark THEN r ELSE 0
              \/ call.stream /\ ~p.mark /\ http.collected < r
           /\ call.body = Body(1, Len(call.body), r)
              \/ (call.raw /\ p.framing \in {"chunked", "other"})
           /\ served[r].seen = "all" =>
                Len(call.body) = p.size \/ (p.framing = "none" /\ used.faults > 0)

(* Where a reply sends the client on to: what the latest one told that told *)
(* a place, of those whose head was read to its end                        *)
Tells(j) == served[j].reply # NoReply /\ served[j].reply.location.kind # "none"
Latest(i) ==
  {j \in 1..(i - 1) : Tells(j) /\ \A k \in (j + 1)..(i - 1) : served[k].seen # "no" => ~Tells(k)}

(* The headers of a request s, which follows the request b                  *)
Named(hs, name) == {hs[k].value : k \in Lines(hs, name)}
OnlyOne(hs, name) == \A j, k \in Lines(hs, name) : j = k
LastOf(hs, name, v) ==
  \E k \in Lines(hs, name) : hs[k].value = v /\ \A j \in Lines(hs, name) : j <= k

(* They are of a request before: a redirect to l takes those of b along,    *)
(* begin(client, url) those of any one.                                    *)
Carried(s, l) == s.redirect /\ l.kind = "url"
Left(s) == ~s.redirect /\ s.begun = "client"

(* To the server that was asked for, or that a reply names: the host, that  *)
(* is, unless begin(host, port, uri) has named another one or did so before *)
Addressed(i, s, b) ==
  \/ s.at.host = s.wanted.host
  \/ s.begun = "host" /\ ~s.redirect
  \/ i > 1 /\ s.at = b.at /\ b.at.host # b.wanted.host

AskedFor(s, q) == s.wanted = q.at /\ s.type = q.type /\ s.payload = q.payload

Redirected(s, b, l) ==
  /\ s.wanted = IF l.kind = "url" THEN l.at ELSE b.wanted
  /\ \/ b.reply.code \in {302, 303} /\ s.type = "GET" /\ s.payload = 0
     \/ b.reply.code \in {301, 307} /\ s.type = b.type /\ s.payload = b.payload

LengthFits(s, b, l) ==
  /\ OnlyOne(s.headers, "length")
  /\ IF s.payload > 0 THEN Named(s.headers, "length") = {s.payload}
     ELSE \/ Named(s.headers, "length") = {} \/ Left(s)
          \/ Carried(s, l) /\ Named(s.headers, "length") = Named(b.headers, "length")

MarkFits(s, b, l) ==
  LET header(c) == plan.calls[c].header
      own == IF header(s.call) # "none" THEN {s.call} ELSE {}
      marks == Named(s.headers, "x-cookie")
  IN  /\ OnlyOne(s.headers, "x-cookie") \/ (s.begun = "client" /\ \E c \in 1..s.call : header(c) = "add")
      /\ Carried(s, l) => marks = Named(b.headers, "x-cookie")
      /\ s.redirect /\ ~Carried(s, l) => marks = {}
      /\ ~s.redirect => IF Left(s) THEN own \subseteq marks ELSE marks = own

(* The cookie c is of the last reply that set one for its domain, and this  *)
(* domain occurs in the name of the host that is asked.                     *)
DomainOf(j) == Domain(served[j].reply.domain, served[j].wanted.host)
Sets(j) ==
  /\ served[j].seen # "no" /\ served[j].reply.age # "none"
  /\ Accepted(served[j].reply.domain, served[j].wanted.host)
Newest(i, s, c) ==
  /\ c \in 1..(i - 1) /\ DomainOf(c) \in Parts[s.wanted.host]
  /\ \A j \in (c + 1)..(i - 1) : Sets(j) => DomainOf(j) # DomainOf(c)

CookieFits(i, s, b, l) ==
  /\ OnlyOne(s.headers, "cookie") \/ Named(s.headers, "x-cookie") # {}
  /\ \/ Named(s.headers, "cookie") = {} \/ Left(s)
     \/ Carried(s, l) /\ Named(s.headers, "cookie") = Named(b.headers, "cookie")
     \/ \E v \in SUBSET (1..(i - 1)) :
          v # {} /\ LastOf(s.headers, "cookie", v) /\ \A c \in v : Newest(i, s, c)

RequestFits(i) ==
  LET s == served[i]
      b == served[i - 1]
  IN  /\ Addressed(i, s, b) /\ (~s.redirect => AskedFor(s, plan.calls[s.call]))
      /\ \E l \in IF s.redirect THEN {served[j].reply.location : j \in Latest(i)}
                  ELSE {[kind |-> "none"]} :
           /\ s.redirect => i > 1 /\ Redirected(s, b, l)
           /\ LengthFits(s, b, l) /\ MarkFits(s, b, l) /\ CookieFits(i, s, b, l)

(* A request goes to the server that was asked for, or that the last reply  *)
(* redirects to, with the method and the payload that are due, a length to  *)
(* match, no header twice, the one the caller gave, and no cookie but the   *)
(* one that was set last for its domain, which is in the name of the host.  *)
(* What the code gets wrong: a cookie goes to every host whose name         *)
(* contains its domain, even within a label, whichever host set it, and its *)
(* domain is the last two labels of that host if the reply names none; a    *)
(* kept connection is taken for any port of its host, and for any host that *)
(* begin(host, port, uri) names; a redirect by URL and begin(client, url)   *)
(* keep the headers of the request before; a header whose name ends like    *)
(* another's hides that one from replacement; a place that an earlier reply *)
(* told serves a redirect that tells none.                                 *)
RequestsAsAsked == stale = {} => \A i \in DOMAIN served : RequestFits(i)
=============================================================================
