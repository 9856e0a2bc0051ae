----------------------------- MODULE FileEditor -----------------------------
(***************************************************************************)
(* SPIFFSEditor: a handler that lists, shows, makes, deletes and takes the *)
(* files of a flat file system.  A path is a sequence like a URL, what a   *)
(* file holds a sequence of characters, "lf" and "cr" among them.          *)
(***************************************************************************)
EXTENDS RequestData

CONSTANTS
  Files,       \* what the files hold at first, by path
  PathLength,  \* SPIFFS_MAXLENGTH_FILEPATH, for lines of the exclude list
  EditPage     \* edit_htm_gz_len

ASSUME PathAssumption == PathLength \in Nat \ {0, 1}

VARIABLES
  files,          \* what the files hold
  excludes,       \* the patterns that have been loaded
  authenticated   \* _authenticated, of the handler and not of a request

editor == <<files, excludes, authenticated>>

EditorInit == files = Files /\ excludes = <<>> /\ authenticated = FALSE

(* The constructor *)
Editor(user, password) ==
  [class |-> "editor", user |-> user, password |-> password] @@ NewHandler

Exists(path) == path \in DOMAIN files
Without(path) == [f \in DOMAIN files \ {path} |-> files[f]]
With(path, data) == [f \in DOMAIN files \cup {path} |-> IF f = path THEN data ELSE files[f]]

(* A path that the file system can store *)
Creatable(path) == Len(path) \in 1..(PathLength - 1)

-----------------------------------------------------------------------------
(* What is not listed *)

(* matchWild(): a star matches as little as it can and is tried again later *)
MatchWild(pattern, testee) ==
  LET m[s \in [p : Nat, t : Nat, star : Nat, from : Nat]] ==
        LET at == IF s.p <= Len(pattern) THEN pattern[s.p] ELSE "end"
        IN  IF s.t > Len(testee) THEN \A i \in s.p..Len(pattern) : pattern[i] = "*"
            ELSE IF at \in {"?", testee[s.t]} THEN m[[s EXCEPT !.p = @ + 1, !.t = @ + 1]]
            ELSE IF at = "*" THEN m[[s EXCEPT !.p = @ + 1, !.star = s.p, !.from = s.t]]
            ELSE /\ s.star > 0
                 /\ m[[s EXCEPT !.p = s.star + 1, !.t = s.from + 1, !.from = @ + 1]]
  IN  m[[p |-> 1, t |-> 1, star |-> 0, from |-> 0]]

(* loadExcludeList(): a line as long as the buffer is cut, and what comes    *)
(* up to the next end of line is skipped, even if the buffer has just taken *)
(* the end of the line; an empty line ends the list.                        *)
ExcludesIn(content) ==
  LET text == SelectSeq(content, LAMBDA c : c # "cr")
      read[s \in [at : Nat, over : BOOLEAN, list : Seq(Seq(STRING))]] ==
        LET end == First(text, "lf", s.at)
            n == Min({end - s.at + 1, PathLength})
            line == SubSeq(text, s.at, s.at + n - 2)
            next == [s EXCEPT !.at = @ + n]
        IN  IF s.at > Len(text) THEN s.list
            ELSE IF s.over THEN read[[next EXCEPT !.over = s.at + n - 1 # end]]
            ELSE IF line = <<>> THEN s.list
            ELSE read[[next EXCEPT !.over = n = PathLength, !.list = <<line>> \o @]]
  IN  read[[at |-> 1, over |-> FALSE, list |-> <<>>]]

ExcludeList == <<"/", ".exclude.files">>

(* isExcluded() loads the list when it has none yet. *)
Loaded ==
  IF excludes # <<>> \/ ~Exists(ExcludeList) THEN excludes ELSE ExcludesIn(files[ExcludeList])

Listed(path) ==
  {f \in DOMAIN files : IsPrefix(path, f) /\ \A i \in DOMAIN Loaded : ~MatchWild(Loaded[i], f)}

-----------------------------------------------------------------------------
(* Requests *)

Asks(r, n) == HasParam(r.params, <<n>>, FALSE, FALSE)
OfForm(r, n) == HasParam(r.params, <<n>>, TRUE, FALSE)
FormPath(r) == GetParam(r.params, <<"path">>, TRUE, FALSE)

(* canHandle(); a file to be shown is open then *)
EditorCanHandle(r) ==
  /\ r.url = <<"/", "edit">> /\ r.method \in {"GET", "POST", "PUT", "DELETE"}
  /\ r.method = "GET" /\ ~Asks(r, "list") =>
       \A n \in {"edit", "download"} : Asks(r, n) => Exists(Arg(r.params, <<n>>))

Opened(r) == Arg(r.params, IF Asks(r, "download") THEN <<"download">> ELSE <<"edit">>)

EditorInterest(r) ==
  IF r.method = "GET" /\ ~Asks(r, "list") THEN {"If-Modified-Since:"} ELSE {}

BuildTime == "built"

(* handleRequest() for GET: a listing has brackets and commas. *)
Shown(r) ==
  CASE Asks(r, "list") -> [Status("200") EXCEPT !.size =
         2 + 2 * Cardinality(Listed(Arg(r.params, <<"list">>)))]
    [] Asks(r, "edit") \/ Asks(r, "download") ->
         [Status("200") EXCEPT !.kind = "file", !.size = Len(files[Opened(r)])]
    [] Header(r, "If-Modified-Since:") = BuildTime -> Status("304")
    [] OTHER -> [Status("200") EXCEPT !.kind = "file", !.size = EditPage]

(* What POST answers depends on the file, not on who has stored it. *)
Stored(r) ==
  /\ HasParam(r.params, <<"data">>, TRUE, TRUE)
  /\ Exists(GetParam(r.params, <<"data">>, TRUE, TRUE))

EditorReply(r) ==
  CASE r.method = "GET" -> Shown(r)
    [] r.method = "DELETE" -> Status(IF OfForm(r, "path") THEN "200" ELSE "404")
    [] r.method = "POST" -> Status(IF Stored(r) THEN "200" ELSE "500")
    [] r.method = "PUT" /\ OfForm(r, "path") ->
         Status(IF Exists(FormPath(r)) \/ Creatable(FormPath(r)) THEN "200" ELSE "500")
    [] OTHER -> Status("400")

(* What the same call does to the files and to the list *)
EditorAnswers(r) ==
  /\ files' =
       CASE r.method = "DELETE" /\ OfForm(r, "path") -> Without(FormPath(r))
         [] r.method = "PUT" /\ OfForm(r, "path") ->
              IF Exists(FormPath(r)) \/ ~Creatable(FormPath(r)) THEN files
              ELSE With(FormPath(r), <<"nul">>)
         [] OTHER -> files
  /\ excludes' = IF r.method = "GET" /\ Asks(r, "list")
                    /\ \E f \in DOMAIN files : IsPrefix(Arg(r.params, <<"list">>), f)
                   THEN Loaded ELSE excludes
  /\ UNCHANGED authenticated

(* handleUpload(): the piece at the beginning of a file opens it if the     *)
(* credentials are good; the others go to whatever file is open.            *)
MayUpload(h, r) == h.user = "" \/ Authenticated(r, h.user, h.password)
Opens(h, r, c) == c.index = 0 /\ MayUpload(h, r)
FileFor(h, r, c) ==
  IF ~Opens(h, r, c) THEN r.file ELSE IF Creatable(c.filename) THEN c.filename ELSE <<>>
Writes(h, r, c) == (authenticated \/ Opens(h, r, c)) /\ FileFor(h, r, c) # <<>>

(* Mutant: every piece begins the file anew. *)
TakenAnew(h, r, c, data) ==
  IF Writes(h, r, c) THEN With(FileFor(h, r, c), data) ELSE files

(* The files when a piece has been taken; less of it if there is no room *)
TakenUp(h, r, c, data) ==
  LET path == FileFor(h, r, c)
  IN  IF ~Writes(h, r, c) THEN files
      ELSE With(path, (IF Opens(h, r, c) THEN <<>> ELSE files[path]) \o data)

FileAfter(h, r, c) == IF Writes(h, r, c) /\ c.final THEN <<>> ELSE FileFor(h, r, c)
=============================================================================
