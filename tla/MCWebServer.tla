----------------------------- MODULE MCWebServer -----------------------------
(* Requests for every path through the parser and every kind of response. *)
EXTENDS WebServer

None == [scheme |-> "none"]
Good == [scheme |-> "basic", hash |-> "u:p"]
MCBoundary == <<"b", "c">>

Nothing == [params |-> <<>>, body |-> <<>>, upload |-> <<>>, finals |-> 0]

Request(line, url, query, headers, body, decoded) ==
  [lines |-> <<line>> \o headers, url |-> url, query |-> query, body |-> body,
   length |-> Len(body), viaStation |-> TRUE, auth |-> None, codes |-> {"200"},
   ragged |-> FALSE, parts |-> <<>>, decoded |-> decoded, names |-> <<"default">>,
   edit |-> [kind |-> "none"]]

Get == <<"GET", "HTTP/1.1">>
Post == <<"POST", "HTTP/1.1">>
Length == <<"Content-Length:", "n">>
Type(t) == <<"Content-Type:", t>>
Multipart == Type("multipart/form-data")

Rename ==
  LET q == <<"output", "=", "identifier", "&", "state", "=", "%", "4", "1", "+", "B">>
  IN  [Request(Get, <<"/", "update">>, q, <<>>, <<>>,
         {[Nothing EXCEPT !.params = <<Param(Output, <<"identifier">>, FALSE),
                                       Param(State, <<"41", " ", "B">>, FALSE)>>]})
       EXCEPT !.names = <<"41", " ", "B">>]

Form(type) ==
  LET p == <<Param(<<"a">>, <<"1">>, TRUE), Param(<<"body">>, <<"x">>, TRUE)>>
      body == <<"a", "=", "1", "&", "x">>
  IN  Request(Post, <<"/", "form">>, <<>>, <<Type(type), Length>>, body,
        {[Nothing EXCEPT !.params = p]} \cup
        (IF type = "text/plain" THEN {[Nothing EXCEPT !.body = body]} ELSE {}))

Raw == LET body == <<"{", "}", "x">>
       IN  Request(Post, <<"/", "form">>, <<>>,
             <<Type("application/json"), <<"Expect:", "100-continue">>, Length>>, body,
             {[Nothing EXCEPT !.body = body]})

Continued ==
  Request(Post, <<"/", "late">>, <<>>, <<<<"Expect:", "100-continue">>, Length>>, <<"x">>,
    {[Nothing EXCEPT !.body = <<"x">>]})

Delimiter == Dashes \o MCBoundary
FileData == <<"x", "cr", "lf", "-", "y">>
ItemData == <<"cr", "cr", "lf", "-", "-", "b">>
Parts == [a |-> [name |-> "a", filename |-> <<>>, file |-> FALSE],
          f |-> [name |-> "data", filename |-> <<"/", "h">>, file |-> TRUE],
          t |-> [name |-> "", filename |-> <<>>, file |-> TRUE]]
Upload(url, auth) ==
  LET body == Tail(Tail(Delimiter)) \o <<"cr", "lf", "f", "cr", "lf", "t", "cr", "lf", "cr", "lf">>
              \o FileData \o Delimiter \o <<"cr", "lf", "a", "cr", "lf", "cr", "lf">>
              \o ItemData \o Delimiter \o <<"-", "-", "cr", "lf">>
  IN  [Request(Post, url, <<>>, <<Multipart, Length>> \o
               (IF auth = None THEN <<>> ELSE <<<<"Authorization:", "x">>>>), body,
         {[Nothing EXCEPT !.params = <<FileParam(<<"data">>, <<"/", "h">>), Param(<<"a">>, ItemData, TRUE)>>,
                          !.upload = FileData, !.finals = 1]})
       EXCEPT !.parts = Parts, !.auth = auth]

(* An epilogue after the closing line of the body *)
Epilogue ==
  [Upload(<<"/", "form">>, None) EXCEPT !.body = @ \o <<"x">>, !.length = @ + 1, !.ragged = TRUE]

Protected(auth, body) ==
  [Request(IF body = <<>> THEN Get ELSE Post, <<"/", "safe">>, <<>>,
           (IF auth = None THEN <<>> ELSE <<<<"Authorization:", "x">>>>) \o
           (IF body = <<>> THEN <<>> ELSE <<Length>>), body, {[Nothing EXCEPT !.body = body]})
   EXCEPT !.auth = auth]

Digest == LET f == [username |-> "u", nonce |-> 1, nc |-> 2, cnonce |-> 3, qop |-> "auth",
                    uri |-> "x", realm |-> "asyncesp", response |-> <<>>]
          IN  [scheme |-> "digest", fields |-> [f EXCEPT !.response =
                Md5(<<Md5(<<"u", "asyncesp", "p">>), 1, 2, 3, "auth", Md5(<<"GET", "x">>)>>)]]

Static(name, header, codes) ==
  [Request(Get, <<"/", "s", "/", name>>, <<>>, <<header>>, <<>>, {Nothing}) EXCEPT !.codes = codes]
Plain == <<"Host:", "h">>

Stream(line) == [Request(line, <<"/", "old">>, <<>>, <<>>, <<>>,
                   {[Nothing EXCEPT !.params = <<Param(<<"a">>, <<"b">>, FALSE)>>]})
                 EXCEPT !.codes = {"200", "302", "404"}]

(* Requests of the editor *)
Edit == <<"/", "edit">>
As(auth, r) == [r EXCEPT !.auth = auth, !.lines = @ \o <<<<"Authorization:", "x">>>>]
Shows(query, param, codes) ==
  As(Good, [Request(Get, Edit, query, <<>>, <<>>, {[Nothing EXCEPT !.params = <<param>>]})
            EXCEPT !.codes = codes])
List == Shows(<<"list", "=", "/">>, Param(<<"list">>, <<"/">>, FALSE), {"200"})
Shown1 == Shows(<<"edit", "=", "/", "f">>, Param(<<"edit">>, <<"/", "f">>, FALSE), {"200"})
Missing == Shows(<<"download", "=", "/", "n">>, Param(<<"download">>, <<"/", "n">>, FALSE), {"500"})
Editing(method, path, edit, codes) ==
  As(Good, [Request(<<method, "HTTP/1.1">>, Edit, <<>>,
              <<Type("application/x-www-form-urlencoded"), Length>>, <<"path", "=">> \o path,
              {[Nothing EXCEPT !.params = <<Param(<<"path">>, path, TRUE)>>]})
            EXCEPT !.edit = edit, !.codes = codes])
Stores(auth, codes) ==
  [Upload(Edit, auth) EXCEPT !.codes = codes,
     !.edit = [kind |-> "stored", path |-> <<"/", "h">>, data |-> FileData]]

JsonBody(body, codes) ==
  [Request(Post, <<"/", "json">>, <<>>, <<Type("application/json")>> \o
           (IF body = <<>> THEN <<>> ELSE <<Length>>), body, {[Nothing EXCEPT !.body = body]})
   EXCEPT !.codes = codes]
NoJson == JsonBody(<<>>, {"400", "413"})

Edits ==
  {List, Shown1, Missing,
   As(Good, Request(Get, Edit, <<>>, <<<<"If-Modified-Since:", "then">>>>, <<>>, {Nothing})),
   Editing("DELETE", <<"/", "f">>, [kind |-> "deleted", path |-> <<"/", "f">>], {"200"}),
   Editing("PUT", <<"/", "n">>, [kind |-> "stored", path |-> <<"/", "n">>, data |-> <<"nul">>], {"200"}),
   Editing("PUT", <<"/", "n", "/", "n">>, [kind |-> "none"], {"500"}),
   Stores(Good, {"200"}), Stores(None, {"401"}),
   JsonBody(<<"{", "}", "x">>, {"200"}), JsonBody(<<"{", "{", "{", "}">>, {"400"}),
   JsonBody(<<"{", "{", "{", "{", "}">>, {"413"}), NoJson}

Asked1 ==
  {Rename, Form("application/x-www-form-urlencoded"), Form("text/plain"), Raw, Continued,
   Epilogue,
   [Protected(None, <<>>) EXCEPT !.codes = {"401"}], Protected(Good, <<>>), Protected(Digest, <<>>),
   [Protected(None, <<"x", "y">>) EXCEPT !.codes = {"401"}],
   Static("f", <<"If-None-Match:", "2">>, {"304"}), Static("g", <<"If-None-Match:", "2">>, {"200"}),
   Static("f", <<"If-Modified-Since:", "then">>, {"304"}),
   Static("f", <<"Upgrade:", "websocket">>, {"500"}),
   Stream(Get), Stream(<<"GET", "HTTP/1.0">>),
   Request(Get, <<"/">>, <<>>, <<>>, <<>>, {Nothing}),
   [Request(Get, <<"/">>, <<>>, <<>>, <<>>, {Nothing}) EXCEPT !.lines = <<>>]} \cup Edits

MCRequests == <<Asked1, {Static("f", Plain, {"200", "500"}), Static("g", Plain, {"200"}), NoJson}>>

Reply(kind) == [Text(2) EXCEPT !.kind = kind]
File(name, download) ==
  [kind |-> "path", path |-> <<"/", name>>, download |-> download, template |-> TRUE]

MCHandlers ==
  <<On(<<"/", "form", "*">>, {"POST"}, {Text(0)}),
    [On(<<"/", "safe">>, Methods, {Text(0)}) EXCEPT !.user = "u", !.password = "p"],
    On(<<"/", "late">>, {"POST"}, {Text(4)}),
    On(<<"/", "new">>, {"GET"},
       {Text(10), Redirect, File("f", FALSE), File("g", FALSE), File("g", TRUE)} \cup
       {Reply(k) : k \in Kinds \ {"basic"}}),
    [ServeStatic(<<"s", "/">>, <<"/">>, "max-age") EXCEPT !.modified = "then", !.filter = "station"],
    Editor("u", "p"), Json(<<"/", "json">>, 4, {Text(1)})>> \o Pages

MCRewrites == <<Rewrite(<<"/", "old">>, <<"/", "new", "?", "a", "=", "b">>)>>

(* The buttons are longer than the smallest window and than their name. *)
MCNames == {<<"B">>}
MCValueOf(name) == <<"on", "off", "on">>

MCFiles ==
  <<"/", "f">> :> <<"x", "%">> @@ <<"/", "g", ".gz">> :> <<"x", "y", "z">> @@
  ExcludeList :> <<"/", "*", "z", "lf", "/", "*", "lf", "/", ".exclude.files", "cr", "lf">>
=============================================================================
