------------------------------ MODULE WebServer ------------------------------
(***************************************************************************)
(* The web server of the tracker: its pages on top of ESPAsyncWebServer,   *)
(* and what a peer can rely on.                                            *)
(***************************************************************************)
EXTENDS WebRequest

VARIABLE identifier   \* plane.identifier, which the handler of /update assigns

Page(uri, reply) == On(uri, {"GET"}, {reply})

Text(n) == [Status("200") EXCEPT !.size = n]

(* index_html: what is before the buttons, their placeholder, and the rest *)
IndexHtml == <<"<", "%", "B", "%", ">">>

(* The pages that setup() adds: the page with its button placeholder, the   *)
(* readings, and /update.                                                  *)
Pages ==
  <<Page(<<"/">>, [code |-> "200", kind |-> "chunked", page |-> IndexHtml, size |-> Len(IndexHtml)]),
    Page(<<"/", "readID">>, Text(3)), Page(<<"/", "readLat">>, Text(3)),
    Page(<<"/", "readLon">>, Text(3)), Page(<<"/", "readAlt">>, Text(3)),
    Page(<<"/", "readSpeed">>, Text(3)), Page(<<"/", "readHead">>, Text(3)),
    Page(<<"/", "readDirAngle">>, Text(3)), Page(<<"/", "readAltAngle">>, Text(3)),
    Page(<<"/", "update">>, Text(2))>>

Output == <<"output">>
State == <<"state">>

(* The handler of /update: any other output is the number of a pin. *)
Update ==
  identifier' =
    LET has(n) == HasParam(req.params, n, FALSE, FALSE)
        value(n) == GetParam(req.params, n, FALSE, FALSE)
    IN  IF /\ req.handler.class = "callback" /\ req.handler.uri = <<"/", "update">>
           /\ has(Output) /\ has(State) /\ value(Output) = <<"identifier">>
          THEN value(State) ELSE identifier

vars == <<stream, response, answers, request, identifier>>

WebInit == Init /\ identifier = <<"default">>
WebNext == (Answer /\ Update) \/ (Transport /\ UNCHANGED identifier)

(* A callback or a Stream that always has nothing to give, yet, would keep *)
(* its response for ever; short of that, acknowledgements and polls bring  *)
(* it on now and then.                                                     *)
Progress == (OnAck \/ OnPoll) /\ response' # response

(* The tasks of AsyncTCP and lwIP run, lwIP polls twice a second, and a    *)
(* peer that stays connected acknowledges what it is sent.                 *)
Fairness ==
  /\ WF_vars((Answer /\ Update) \/
              ((KeepLine \/ ParseLine \/ ParseByte \/ TakeBody \/ CallHandler \/ EndOfUnsized)
                /\ UNCHANGED identifier))
  /\ WF_vars(LwipAcks /\ UNCHANGED identifier)
  /\ SF_vars(Progress /\ UNCHANGED identifier)

Spec == WebInit /\ [][WebNext]_vars /\ Fairness

-----------------------------------------------------------------------------
Tags(kinds) == SelectSeq(wire, LAMBDA b : b[1] \in kinds)
Payload == SelectSeq(wire, LAMBDA b : b[1] \notin {"size", "crlf", "100"})

(* Each chunk is as long as its size line says, then its line ends; the    *)
(* last chunk of the wire may be on its way.                               *)
Framed ==
  \A i \in DOMAIN wire :
    LET n == wire[i][2]
        k == Least(n, Len(wire) - i)
    IN  wire[i][1] = "size" /\ i < Len(wire) /\ wire[i + 1][1] # "size" =>
          /\ \A j \in 1..k : wire[i + j][1] = "body"
          /\ n + i + 1 <= Len(wire) => wire[n + i + 1] = <<"crlf", 1>>

(* What the peer gets of the only answer to its request is a prefix of the *)
(* head and the body, with its placeholders replaced, in well-formed       *)
(* chunks, and is all of it when the response waits for its last           *)
(* acknowledgement: through every window,                                  *)
(* every order of acknowledgements and polls, every way the source fills   *)
(* its buffers, unless lwIP failed or a write was cut short; but the body  *)
(* without a length is lost if the first window is the size of the head,   *)
(* for it then has as many bytes as its _contentLength, none.              *)
ResponseIntact ==
  (Len(answers) = 1 /\ lost = {}) =>
     /\ IsPrefix(Payload, answers[1]) /\ Framed
     /\ response.state \in {"wait_ack", "end"} =>
          Payload = answers[1] \/ (response.kind = "unsized" /\ response.filled = 0)

(* A response counts the room it has before it writes, so that lwIP takes  *)
(* all of it; what alone breaks this is a head that fitted but was kept,   *)
(* because the source was not ready or memory was short, and that the next *)
(* window does not count.                                                  *)
CutOnlyWithHeldHead ==
  [][lost' \ lost = {"room"} =>
       response.state = "content" /\ response.head # <<>>]_vars

(* A request that has arrived in full is answered, once and with a status  *)
(* that it calls for; except that every segment of a body, and every piece *)
(* of a file, that needs missing credentials is answered too, and that a   *)
(* multipart body whose closing line is not its end may never be.  A body  *)
(* that is as long as a JSON handler allows is not too long but malformed, *)
(* and one that is missing is either, whatever the request before it was.  *)
AnsweredOnce ==
  /\ (Idle /\ connected /\ req.state # "fail" /\ arrived = Len(Input(asked)) /\ ~asked.ragged)
       => taken.handled = 1
  /\ (connected /\ Len(answers) > 1) => ~Admits(req.handler, req) /\ asked.body # <<>>
  /\ (connected /\ Len(answers) = 1 /\ req.multi # "error") => answers[1][1][1] \in asked.codes

(* What the handler is given does not depend on how TCP has cut the        *)
(* request into segments: the parameters, the pieces of a file in order    *)
(* with their positions and the last one marked once, or the raw body.     *)
(* The editor has then stored the whole of a file that is uploaded, unless *)
(* the flash was full, of which its answer says nothing.                   *)
RequestDecoded ==
  (/\ taken.handled = 1 /\ req.state = "end" /\ ~Trivial(req.handler)
   /\ Admits(req.handler, req) /\ req.multi # "error") =>
     /\ [params |-> taken.params, body |-> taken.body, upload |-> taken.upload,
         finals |-> taken.finals] \in asked.decoded
     /\ asked.edit.kind = "stored" /\ "flash" \notin lost =>
          Exists(asked.edit.path) /\ files[asked.edit.path] = asked.edit.data

(* One file changes, the one that the request names: it goes, or holds the *)
(* beginning of what is to be stored.                                      *)
Edited(edit) ==
  CASE edit.kind = "deleted" -> files' = Without(edit.path)
    [] edit.kind = "stored" ->
         /\ edit.path \in DOMAIN files' /\ files' = With(edit.path, files'[edit.path])
         /\ "flash" \in lost' \/ IsPrefix(files'[edit.path], edit.data)
    [] OTHER -> FALSE

(* The plane that /update names is the one the user typed, and a file is   *)
(* edited as somebody who may do so has asked, however the request was cut *)
(* up and coded; no other request changes either of them.                  *)
ChangedAsAsked ==
  [][/\ identifier' # identifier => identifier' = asked.names
     /\ files' # files => Admits(req.handler, req) /\ Edited(asked.edit)]_vars

(* A response is sent to its end, or its connection closes. *)
ResponseEnds == (response.state # "none") ~> (response.state \in {"none", "end"})
=============================================================================
