---------------------------- MODULE WiFiManager ----------------------------
(***************************************************************************)
(* WiFiManager: update() takes a waiting client, reads its request up to   *)
(* the empty line, switches a pin if the request names one and answers     *)
(* with a page.  It blocks while the client is slow, for two seconds at    *)
(* most, and the client may leave at any point.                            *)
(***************************************************************************)
EXTENDS Integers, Sequences, FiniteSets, SequencesExt

CONSTANT Visits  \* bound: the requests of the clients that come, each [head, body],
                 \* sequences of the commands of Tested, "text", "cr" and "lf"

(* A piece of a request: a command, or a byte *)
Piece == STRING

(* The line that s[i] ends has nothing but carriage returns on it. *)
EmptyLine(s, i) ==
  /\ s[i] = "lf"
  /\ \E j \in 0..(i - 1) : (j = 0 \/ s[j] = "lf") /\ \A k \in (j + 1)..(i - 1) : s[k] = "cr"

(* A head goes up to its first empty line, and a body comes after one. *)
Requests ==
  {q \in [head : Seq(Piece), body : Seq(Piece)] :
     /\ \A i \in DOMAIN q.head : EmptyLine(q.head, i) => i = Len(q.head)
     /\ q.body # <<>> => q.head # <<>> /\ EmptyLine(q.head, Len(q.head))}

ASSUME VisitAssumption == Visits \subseteq Seq(Requests)

VARIABLES
  coming,   \* external, WiFiServer: the requests of the clients still to come
  client,   \* the client in hand and what available() counts
  header,   \* of the object: what has been read of the request, all lines together
  line,     \* currentLine, whether anything is on it
  pins,     \* output26State and output27State, which the outputs follow
  answered  \* history: the requests that were answered

wifiVars == <<coming, client, header, line, pins, answered>>

Gone == [here |-> FALSE, open |-> FALSE, asks |-> [head |-> <<>>, body |-> <<>>], left |-> <<>>, rx |-> <<>>]
Off == [p26 |-> FALSE, p27 |-> FALSE]

WifiInit ==
  /\ coming \in Visits
  /\ client = Gone /\ header = <<>> /\ line = FALSE /\ pins = Off /\ answered = <<>>

(* server.available(), and what update() starts from *)
Available ==
  /\ ~client.here /\ coming # <<>>
  /\ coming' = Tail(coming)
  /\ LET asks == Head(coming)
     IN  client' = [here |-> TRUE, open |-> TRUE, asks |-> asks, left |-> asks.head \o asks.body, rx |-> <<>>]
  /\ line' = FALSE
  /\ UNCHANGED <<header, pins, answered>>

(* A piece of the request arrives. *)
PieceArrives ==
  /\ client.open /\ client.left # <<>>
  /\ client' = [client EXCEPT !.left = Tail(@), !.rx = Append(@, Head(client.left))]
  /\ UNCHANGED <<coming, header, line, pins, answered>>

(* The client closes, its request sent or not. *)
ClientCloses ==
  /\ client.open
  /\ client' = [client EXCEPT !.open = FALSE]
  /\ UNCHANGED <<coming, header, line, pins, answered>>

(* The commands in the order in which the header is searched for them *)
Tested == <<[text |-> "GET /26/on", pin |-> "p26", on |-> TRUE],
            [text |-> "GET /26/off", pin |-> "p26", on |-> FALSE],
            [text |-> "GET /27/on", pin |-> "p27", on |-> TRUE],
            [text |-> "GET /27/off", pin |-> "p27", on |-> FALSE]>>

(* indexOf() finds a command anywhere in the header. *)
Switched(head) ==
  LET found == {i \in DOMAIN Tested : Tested[i].text \in ToSet(head)}
  IN  IF found = {} THEN pins
      ELSE LET first == Tested[CHOOSE i \in found : \A j \in found : i <= j]
           IN  [pins EXCEPT ![first.pin] = first.on]

(* Mutant: the header is not cleared. *)
LeaveHeader == client' = Gone /\ UNCHANGED header /\ line' = FALSE

(* The end of update(): the header is cleared, the client is closed. *)
Leave == client' = Gone /\ header' = <<>> /\ line' = FALSE

AnswerWith(head) ==
  /\ pins' = Switched(head)
  /\ answered' = Append(answered, client.asks)
  /\ Leave

(* One byte: an empty line, whatever carriage returns it has, ends the      *)
(* request.                                                                *)
Reads ==
  /\ client.here /\ client.rx # <<>>
  /\ LET c == Head(client.rx)
         head == Append(header, c)
     IN  \/ c = "lf" /\ ~line /\ AnswerWith(head)
         \/ /\ c # "lf" \/ line
            /\ header' = head
            /\ line' = IF c = "lf" THEN FALSE ELSE line \/ c # "cr"
            /\ client' = [client EXCEPT !.rx = Tail(@)]
            /\ UNCHANGED <<pins, answered>>
  /\ UNCHANGED coming

(* The loop ends without an answer: the client has closed and everything it *)
(* sent has been read, or the two seconds are over.                        *)
LoopEnds ==
  /\ client.here
  /\ Leave
  /\ UNCHANGED <<coming, pins, answered>>

WifiNext == Available \/ PieceArrives \/ ClientCloses \/ Reads \/ LoopEnds

-----------------------------------------------------------------------------
(* A pin changes only with the answer to a request, to what the head of that *)
(* request names: one that is cut off, by its client or by the timeout,     *)
(* switches nothing, neither at once nor with the next client's request,    *)
(* and a body is not looked at.  A command in any line of the head counts,  *)
(* and of several in one head one is carried out.                          *)
PinsAsAsked ==
  [][IF answered' = answered
     THEN pins' = pins
     ELSE LET asked == {Tested[i] : i \in {j \in DOMAIN Tested : Tested[j].text \in ToSet(Last(answered').head)}}
          IN  \/ asked = {} /\ pins' = pins
              \/ \E t \in asked : pins' = [pins EXCEPT ![t.pin] = t.on]]_wifiVars
=============================================================================
