----------------------------- MODULE RequestData -----------------------------
(***************************************************************************)
(* What a handler of ESPAsyncWebServer asks a request for: its parameters, *)
(* its headers and its credentials.  A URL is a sequence of its separators *)
(* and the names between them, so that prefixes and suffixes are those of  *)
(* the code; the names of headers have one spelling.                       *)
(***************************************************************************)
EXTENDS Naturals, Sequences, SequencesExt, TLC

First(s, c, i) == Min({j \in i..Len(s) : s[j] = c} \cup {Len(s) + 1})

-----------------------------------------------------------------------------
(* Parameters *)

Param(n, v, post) == [name |-> n, value |-> v, post |-> post, file |-> FALSE]
FileParam(n, v) == [name |-> n, value |-> v, post |-> TRUE, file |-> TRUE]

(* Mutant: a plus stays a plus. *)
UrlDecodeNoPlus(t) ==
  LET d[i \in 1..(Len(t) + 3)] ==
        IF i > Len(t) THEN <<>>
        ELSE IF t[i] = "%" /\ i + 2 <= Len(t) THEN <<t[i + 1] \o t[i + 2]>> \o d[i + 3]
        ELSE <<t[i]>> \o d[i + 1]
  IN  d[1]

(* urlDecode(); an encoded character is named by its two digits *)
UrlDecode(t) ==
  LET d[i \in 1..(Len(t) + 3)] ==
        IF i > Len(t) THEN <<>>
        ELSE IF t[i] = "%" /\ i + 2 <= Len(t) THEN <<t[i + 1] \o t[i + 2]>> \o d[i + 3]
        ELSE <<IF t[i] = "+" THEN " " ELSE t[i]>> \o d[i + 1]
  IN  d[1]

(* _addGetParams() *)
GetParams(q) ==
  LET f[s \in 1..(Len(q) + 2)] ==
        IF s > Len(q) THEN <<>>
        ELSE LET end == First(q, "&", s)
                 equal == Min({First(q, "=", s), end})
             IN  <<Param(UrlDecode(SubSeq(q, s, equal - 1)),
                         UrlDecode(SubSeq(q, equal + 1, end - 1)), FALSE)>> \o f[end + 1]
  IN  f[1]

LOCAL Named(params, n, post, file) ==
  {i \in DOMAIN params : params[i].name = n /\ params[i].post = post /\ params[i].file = file}

HasParam(params, n, post, file) == Named(params, n, post, file) # {}
GetParam(params, n, post, file) == params[Min(Named(params, n, post, file))].value

(* arg(): the first parameter of the name, wherever it comes from *)
Arg(params, n) ==
  LET named == {i \in DOMAIN params : params[i].name = n}
  IN  IF named = {} THEN <<>> ELSE params[Min(named)].value

-----------------------------------------------------------------------------
(* Headers *)

LOCAL HeadersNamed(r, n) == {i \in DOMAIN r.headers : r.headers[i][1] = n}

HasHeader(r, n) == HeadersNamed(r, n) # {}
Header(r, n) == IF HasHeader(r, n) THEN r.headers[Min(HeadersNamed(r, n))][2] ELSE ""

(* _removeNotInterestingHeaders() *)
Kept(headers, interesting) ==
  IF "ANY" \in interesting THEN headers
  ELSE SelectSeq(headers, LAMBDA h : h[1] \in interesting)

(* isExpectedRequestedConnType() *)
ExpectedConn(r, types) == r.conn \in types

-----------------------------------------------------------------------------
(* Authentication *)

(* getMD5(), taken to tell any two texts apart *)
Md5(text) == <<"md5", text>>

(* checkBasicAuthentication(): base64 is one to one *)
BasicAccepted(auth, user, password) == auth.hash = user \o ":" \o password

(* checkDigestAuthentication() for fields read from the header in order,   *)
(* the realm, nonce, opaque and uri of the server being NULL               *)
DigestAccepted(auth, method, user, password) ==
  LET f == auth.fields
      ha1 == Md5(<<f.username, f.realm, password>>)
  IN  f.username = user
      /\ f.response = Md5(<<ha1, f.nonce, f.nc, f.cnonce, f.qop, Md5(<<method, f.uri>>)>>)

(* authenticate() *)
Authenticated(r, user, password) ==
  CASE r.auth.scheme = "none" -> FALSE
    [] r.auth.scheme = "digest" -> DigestAccepted(r.auth, r.method, user, password)
    [] OTHER -> BasicAccepted(r.auth, user, password)

(* What every handler starts with: no filter, anyone may ask. *)
NewHandler == [user |-> "", password |-> "", filter |-> "none"]

(* setAuthentication(): anyone may ask unless both are given *)
Admits(h, r) ==
  h.user # "" /\ h.password # "" => Authenticated(r, h.user, h.password)

-----------------------------------------------------------------------------
(* Replies that are sent at once *)

Status(code) == [code |-> code, kind |-> "basic", size |-> 0, page |-> <<>>]

(* redirect() *)
Redirect == Status("302")
=============================================================================
