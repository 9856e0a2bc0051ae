----------------------------- MODULE WebHandlers -----------------------------
(***************************************************************************)
(* What ESPAsyncWebServer decides about a request once its headers are     *)
(* known: the rewrites, which handler takes it, and what the handler       *)
(* answers.                                                                *)
(***************************************************************************)
EXTENDS FileEditor

CONSTANTS
  Handlers,  \* the handlers in the order in which they were added
  Rewrites,  \* the rewrites in the order in which they were added
  NotFound   \* the replies of onNotFound(), none if it was not called

ASSUME HandlersAssumption ==
  /\ \A i \in DOMAIN Handlers : Handlers[i].class \in {"callback", "static", "editor", "json"}
  /\ \A i \in DOMAIN Rewrites : Rewrites[i].from # <<>>

-----------------------------------------------------------------------------
(* AsyncCallbackJsonWebHandler: the pieces of a body are put together and  *)
(* parsed when it is complete.  The length of the body is noted in the     *)
(* handler, which all requests share, and not in the request.              *)

VARIABLE jsonLength   \* _contentLength, <<>> as the constructor leaves it, unset

Unset == <<>>

(* The constructor and setMaxContentLength() *)
Json(uri, limit, replies) ==
  NewHandler @@
  [class |-> "json", uri |-> uri, methods |-> {"POST", "PUT"}, limit |-> limit, replies |-> replies]

JsonCanHandle(h, r) ==
  /\ r.method \in h.methods /\ r.type = "application/json"
  /\ h.uri = <<>> \/ r.url = h.uri \/ IsPrefix(h.uri \o <<"/">>, r.url)

(* Mutant: the limit itself is taken. *)
ObjectToLimit(h, r) ==
  IF r.object = <<>> /\ r.length > 0 /\ r.length <= h.limit
    THEN [i \in 1..r.length |-> "?"] ELSE r.object

(* The memory for the body, which is not cleared *)
Object(h, r) ==
  IF r.object = <<>> /\ r.length > 0 /\ r.length < h.limit
    THEN [i \in 1..r.length |-> "?"] ELSE r.object

(* handleBody() *)
ObjectWith(h, r, c) ==
  LET object == Object(h, r)
  IN  [i \in DOMAIN object |->
         IF i - c.index \in DOMAIN c.data THEN c.data[i - c.index] ELSE object[i]]

(* deserializeJson() stops at the end of the first value and, without one, *)
(* reads on behind the body.                                               *)
Parses(text) ==
  IF text[1] # "{" THEN {FALSE} ELSE IF "}" \in Range(text) THEN {TRUE} ELSE BOOLEAN

(* handleRequest(): what may be answered *)
JsonReplies(h, r) ==
  LET refused == IF jsonLength = Unset THEN {Status("413"), Status("400")}
                 ELSE {Status(IF jsonLength[1] > h.limit THEN "413" ELSE "400")}
      parses == IF r.object = <<>> THEN {FALSE} ELSE Parses(r.object)
  IN  (IF TRUE \in parses THEN h.replies ELSE {}) \cup (IF FALSE \in parses THEN refused ELSE {})

-----------------------------------------------------------------------------
(* How the program makes handlers and rewrites *)

Methods == {"GET", "POST", "PUT", "DELETE"}

(* AsyncCallbackWebHandler; a handler without callbacks has no replies. *)
Callback(uri, methods, replies) ==
  NewHandler @@ [class |-> "callback", uri |-> uri, methods |-> methods, replies |-> replies]

(* on() *)
On(uri, methods, replies) == Callback(uri, methods, replies)

(* AsyncStaticWebHandler: both paths begin with a separator and end without. *)
Slashed(path) == IF path = <<>> \/ path[1] # "/" THEN <<"/">> \o path ELSE path
Unslashed(path) == IF path[Len(path)] = "/" THEN SubSeq(path, 1, Len(path) - 1) ELSE path

ServeStatic(uri, path, cache) ==
  LET from == Slashed(path)
  IN  NewHandler @@
      [class |-> "static", uri |-> Unslashed(Slashed(uri)), path |-> Unslashed(from),
       isDir |-> from[Len(from)] = "/", default |-> <<"index.htm">>, cache |-> cache,
       modified |-> "", template |-> FALSE]

(* AsyncWebRewrite: parameters are cut off where the target has a "?". *)
Rewrite(from, to) ==
  LET mark == First(to, "?", 1)
      cut == mark \in 2..Len(to)
  IN  [from |-> from, to |-> IF cut THEN SubSeq(to, 1, mark - 1) ELSE to,
       params |-> IF cut THEN SubSeq(to, mark + 1, Len(to)) ELSE <<>>, filter |-> "none"]

-----------------------------------------------------------------------------
(* Which handler *)

(* ON_STA_FILTER(), ON_AP_FILTER() *)
Passes(filter, viaStation) ==
  filter = "none" \/ (filter = "station") = viaStation

(* _rewriteRequest(): every rewrite that matches in turn *)
Rewritten(r) ==
  LET one(q, w) == IF w.from = q.url /\ Passes(w.filter, q.viaStation)
                     THEN [q EXCEPT !.url = w.to, !.params = @ \o GetParams(w.params)] ELSE q
  IN  FoldLeft(one, r, Rewrites)

(* AsyncCallbackWebHandler::canHandle(), built without regular expressions *)
UriMatches(uri, url) ==
  CASE IsPrefix(<<"/", "*", ".">>, uri) ->
         IsSuffix(SubSeq(uri, Max({i \in DOMAIN uri : uri[i] = "."}), Len(uri)), url)
    [] uri # <<>> /\ uri[Len(uri)] = "*" -> IsPrefix(SubSeq(uri, 1, Len(uri) - 1), url)
    [] OTHER -> uri = <<>> \/ url = uri \/ IsPrefix(uri \o <<"/">>, url)

GzOf(path) == path \o <<".gz">>
Found(path) == Exists(path) \/ Exists(GzOf(path))

(* AsyncStaticWebHandler::_getFile(): the path, or that of the default file *)
StaticPath(h, url) ==
  LET below == SubSeq(url, Len(h.uri) + 1, Len(url))
      path == h.path \o below
      skip == IF below = <<>> THEN h.isDir ELSE below[Len(below)] = "/"
      slash == IF path = <<>> \/ path[Len(path)] # "/" THEN <<"/">> ELSE <<>>
  IN  IF ~skip /\ Found(path) THEN path
      ELSE IF h.default = <<>> THEN <<>> ELSE path \o slash \o h.default

StaticCanHandle(h, r) ==
  /\ r.method = "GET" /\ IsPrefix(h.uri, r.url) /\ ExpectedConn(r, {"http"})
  /\ Found(StaticPath(h, r.url))

CanHandle(h, r) ==
  CASE h.class = "callback" -> r.method \in h.methods /\ UriMatches(h.uri, r.url)
    [] h.class = "static" -> StaticCanHandle(h, r)
    [] h.class = "editor" -> EditorCanHandle(r)
    [] OTHER -> JsonCanHandle(h, r)

(* The headers that the handler asks to be kept *)
Interesting(h, r) ==
  CASE h.class = "editor" -> EditorInterest(r)
    [] h.class = "static" ->
         (IF h.modified # "" THEN {"If-Modified-Since:"} ELSE {}) \cup
         (IF h.cache # "" THEN {"If-None-Match:"} ELSE {})
    [] OTHER -> {"ANY"}

(* _catchAllHandler *)
CatchAll == Callback(<<>>, Methods, NotFound)

(* _attachHandler() *)
Attached(r) ==
  LET able == {i \in DOMAIN Handlers :
                 Passes(Handlers[i].filter, r.viaStation) /\ CanHandle(Handlers[i], r)}
  IN  IF able = {} THEN CatchAll ELSE Handlers[Min(able)]

(* isRequestHandlerTrivial(): nobody wants the body *)
Trivial(h) ==
  h.class = "static" \/ (h.class = "callback" /\ h.replies = {})

-----------------------------------------------------------------------------
(* The statistics of _fileExists(): eight bits, one for each file found *)

CountBits(w) == Cardinality({i \in 0..7 : (w \div 2^i) % 2 = 1})

ServesGz(path, gzipFirst) == Exists(GzOf(path)) /\ (gzipFirst \/ ~Exists(path))

GzipStats(stats, gz) == (stats * 2 + (IF gz THEN 1 ELSE 0)) % 256

-----------------------------------------------------------------------------
(* Replies *)

(* AsyncFileResponse for the file that is open under a name: what is        *)
(* compressed is no template.                                              *)
FileReply(name, path, download, template) ==
  LET zipped == ~download /\ IsSuffix(<<".gz">>, name) /\ ~IsSuffix(<<".gz">>, path)
      page == IF template /\ ~zipped THEN files[name] ELSE <<>>
  IN  [code |-> "200", kind |-> IF template /\ ~zipped THEN "chunked" ELSE "file",
       size |-> Len(files[name]), page |-> page]

(* send() of a path: the compressed file is not for download. *)
PathReply(path, download, template) ==
  IF Exists(path) THEN FileReply(path, path, download, template)
  ELSE IF Exists(GzOf(path)) /\ ~download THEN FileReply(GzOf(path), path, download, template)
  ELSE Status("404")

(* What a callback says *)
Resolved(a) ==
  IF a.kind = "path" THEN PathReply(a.path, a.download, a.template) ELSE a

(* AsyncStaticWebHandler::handleRequest() for the file it has opened *)
StaticReply(h, r) ==
  LET path == StaticPath(h, r.url)
      name == IF r.gz THEN GzOf(path) ELSE path
      etag == ToString(Len(files[name]))
  IN  IF h.modified # "" /\ h.modified = Header(r, "If-Modified-Since:") THEN Status("304")
      ELSE IF h.cache # "" /\ HasHeader(r, "If-None-Match:") /\ Header(r, "If-None-Match:") = etag
        THEN Status("304")
      ELSE FileReply(name, path, FALSE, h.template)

(* handleRequest() of each class *)
Replies(h, r) ==
  CASE ~Admits(h, r) -> {Status("401")}
    [] h.class = "static" -> {StaticReply(h, r)}
    [] h.class = "editor" -> {EditorReply(r)}
    [] h.class = "json" -> JsonReplies(h, r)
    [] h.replies = {} -> {Status("500")}
    [] OTHER -> {Resolved(a) : a \in h.replies}
=============================================================================
