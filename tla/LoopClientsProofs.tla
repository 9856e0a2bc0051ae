------------------------- MODULE LoopClientsProofs --------------------------
(***************************************************************************)
(* What is proved about HttpClient: that what a call returns is of the     *)
(* reply to its own request, and that a body that counts as whole is whole, *)
(* and that a request is what its caller or a redirect asks for, for any    *)
(* requests, replies and failures.  What is proved about WiFiManager: that  *)
(* a pin changes only as a whole request asks.                             *)
(***************************************************************************)
EXTENDS LoopClients, SequenceTheorems, WellFoundedInduction, TLAPS

-----------------------------------------------------------------------------
(* A reply, piece by piece *)

(* A head of three lines, and the body as it is or in chunks: its first    *)
(* byte, and all the others.                                               *)
Chunked(p) == p.framing = "chunked"
Size(p) ==
  IF ~Chunked(p) THEN p.size + 3
  ELSE IF p.size = 0 THEN 5 ELSE IF p.size = 1 THEN 8 ELSE p.size + 9

StatusLine(p, r) == [k |-> "status", r |-> r, code |-> p.code, minor |-> p.minor]
FieldLines(p, r, c) ==
  [k |-> "fields", r |-> r, framing |-> p.framing, n |-> p.size, close |-> c, mark |-> p.mark,
   location |-> p.location,
   cookie |-> IF p.age = "none" THEN NoCookie ELSE [value |-> r, domain |-> p.domain, age |-> p.age]]
BlankLine(r) == [k |-> "blank", r |-> r]
ChunkLine(n, r) == [k |-> "chunk", r |-> r, n |-> n]
BodyByte(n, r) == [k |-> "body", r |-> r, n |-> n]

Tok(p, r, c, i) ==
  IF i = 1 THEN StatusLine(p, r)
  ELSE IF i = 2 THEN FieldLines(p, r, c)
  ELSE IF i = 3 THEN BlankLine(r)
  ELSE IF ~Chunked(p) THEN BodyByte(i - 3, r)
  ELSE IF i = Size(p) THEN BlankLine(r)
  ELSE IF i = Size(p) - 1 THEN ChunkLine(0, r)
  ELSE IF i = 4 THEN ChunkLine(1, r)
  ELSE IF i = 5 THEN BodyByte(1, r)
  ELSE IF i = 6 THEN BlankLine(r)
  ELSE IF i = 7 THEN ChunkLine(p.size - 1, r)
  ELSE IF i = p.size + 7 THEN BlankLine(r)
  ELSE BodyByte(i - 6, r)

Fin == [k |-> "fin"]
Token == {Fin} \cup {Tok(p, r, c, i) : p \in Planned, r \in Nat, c \in BOOLEAN, i \in Nat}

LEMMA SizeIsNat ==
  ASSUME NEW p \in Planned
  PROVE  /\ p.size \in Nat /\ Size(p) \in Nat /\ Size(p) >= 3
         /\ Chunked(p) => Size(p) >= 5
BY DEF Planned, Size

LEMMA TokenIs ==
  ASSUME NEW p \in Planned, NEW r \in Nat, NEW c \in BOOLEAN, NEW i \in Nat
  PROVE  /\ Tok(p, r, c, i) \in Token /\ Tok(p, r, c, i).r = r
         /\ Tok(p, r, c, i).k \in {"status", "fields", "blank", "chunk", "body"}
<1>1. Tok(p, r, c, i) \in Token
  BY DEF Token
<1>2. \/ Tok(p, r, c, i) = StatusLine(p, r) \/ Tok(p, r, c, i) = FieldLines(p, r, c)
      \/ Tok(p, r, c, i) = BlankLine(r) \/ \E n : Tok(p, r, c, i) = ChunkLine(n, r)
      \/ \E n : Tok(p, r, c, i) = BodyByte(n, r)
  BY Zenon DEF Tok
<1> QED BY <1>1, <1>2 DEF StatusLine, FieldLines, BlankLine, ChunkLine, BodyByte

(* Where in the body a piece is *)
LEMMA TokPlain ==
  ASSUME NEW p \in Planned, ~Chunked(p), NEW r, NEW c, NEW i \in Nat, NEW k \in Nat, k >= 1, i = k + 3
  PROVE  Tok(p, r, c, i) = BodyByte(k, r)
<1>1. ~(i = 1) /\ ~(i = 2) /\ ~(i = 3) /\ i - 3 = k
  OBVIOUS
<1>2. Tok(p, r, c, i) = BodyByte(i - 3, r)
  BY <1>1, Zenon DEF Tok
<1> QED BY <1>1, <1>2, Zenon

LEMMA TokChunked ==
  ASSUME NEW p \in Planned, Chunked(p), NEW r, NEW c
  PROVE  /\ p.size = 0 => Tok(p, r, c, 4) = ChunkLine(0, r) /\ Size(p) = 5
         /\ p.size >= 1 => /\ Tok(p, r, c, 4) = ChunkLine(1, r) /\ Tok(p, r, c, 5) = BodyByte(1, r)
                           /\ Tok(p, r, c, 6) = BlankLine(r)
         /\ p.size = 1 => Tok(p, r, c, 7) = ChunkLine(0, r) /\ Size(p) = 8
         /\ p.size >= 2 =>
              /\ Tok(p, r, c, 7) = ChunkLine(p.size - 1, r) /\ Size(p) = p.size + 9
              /\ Tok(p, r, c, p.size + 7) = BlankLine(r) /\ Tok(p, r, c, p.size + 8) = ChunkLine(0, r)
BY SizeIsNat DEF Tok, Size

LEMMA TokInChunk ==
  ASSUME NEW p \in Planned, Chunked(p), NEW r, NEW c, NEW i \in Nat, NEW k \in Nat, k >= 2, k <= p.size,
         i = k + 6
  PROVE  Tok(p, r, c, i) = BodyByte(k, r)
<1>1. p.size \in Nat /\ Size(p) = p.size + 9
  BY SizeIsNat DEF Size
<1>2. /\ ~(i = 1) /\ ~(i = 2) /\ ~(i = 3) /\ ~(i = Size(p)) /\ ~(i = Size(p) - 1) /\ ~(i = 4)
      /\ ~(i = 5) /\ ~(i = 6) /\ ~(i = 7) /\ ~(i = p.size + 7) /\ i - 6 = k
  BY <1>1
<1>3. Tok(p, r, c, i) = BodyByte(i - 6, r)
  BY <1>2, Zenon DEF Tok
<1> QED BY <1>2, <1>3, Zenon

LEMMA FinIs == Fin \in Token /\ Fin.k = "fin"
BY DEF Fin, Token

LEMMA JoinedTokens ==
  ASSUME NEW s \in Seq(Token), NEW t \in Seq(Token)
  PROVE  /\ s \o t \in Seq(Token) /\ Len(s \o t) = Len(s) + Len(t)
         /\ \A i \in 1..Len(s) : (s \o t)[i] = s[i]
         /\ \A i \in 1..Len(t) : (s \o t)[Len(s) + i] = t[i]
OBVIOUS

(* n pieces of a reply, from one on *)
Pieces(s, p, r, c, from, n) ==
  /\ s \in Seq(Token) /\ Len(s) = n /\ n \in Nat
  /\ \A i \in 1..n : s[i] = Tok(p, r, c, from + i)

LEMMA PiecesJoin ==
  ASSUME NEW p, NEW r, NEW c, NEW from \in Nat, NEW n \in Nat, NEW m \in Nat, NEW s, NEW t,
         Pieces(s, p, r, c, from, n), Pieces(t, p, r, c, from + n, m)
  PROVE  Pieces(s \o t, p, r, c, from, n + m)
<1> DEFINE x == s \o t
<1> HIDE DEF x
<1>2. x \in Seq(Token) /\ Len(x) = n + m
      /\ (\A i \in 1..n : x[i] = s[i]) /\ (\A j \in 1..m : x[n + j] = t[j])
  BY JoinedTokens DEF Pieces, x
<1>3. ASSUME NEW i \in 1..(n + m) PROVE x[i] = Tok(p, r, c, from + i)
  <2>1. CASE i \in 1..n
    BY <1>2, <2>1 DEF Pieces
  <2>2. CASE i \notin 1..n
    <3>1. PICK j \in 1..m : i = n + j
      <4>1. i - n \in 1..m /\ i = n + (i - n)
        BY <2>2
      <4> QED BY <4>1
    <3>2. x[i] = t[j] /\ t[j] = Tok(p, r, c, from + n + j)
      BY <1>2, <3>1 DEF Pieces
    <3>3. from + n + j = from + i
      BY <3>1
    <3> QED BY <3>2, <3>3
  <2> QED BY <2>1, <2>2
<1> QED BY <1>2, <1>3 DEF Pieces, x

LEMMA OnePiece ==
  ASSUME NEW p \in Planned, NEW r \in Nat, NEW c \in BOOLEAN, NEW from \in Nat, NEW t,
         t = Tok(p, r, c, from + 1)
  PROVE  Pieces(<<t>>, p, r, c, from, 1)
<1>1. t \in Token
  BY TokenIs
<1> QED BY <1>1 DEF Pieces

LEMMA NoPieces ==
  ASSUME NEW p, NEW r, NEW c, NEW from
  PROVE  Pieces(<<>>, p, r, c, from, 0)
BY DEF Pieces

LEMMA BodyPieces ==
  ASSUME NEW p \in Planned, NEW r \in Nat, NEW c \in BOOLEAN, NEW from \in Nat, NEW a \in Nat,
         NEW b \in Nat, a <= b + 1,
         \A i \in 1..(b - a + 1) : Tok(p, r, c, from + i) = BodyByte(a + i - 1, r)
  PROVE  Pieces(Body(a, b, r), p, r, c, from, b - a + 1)
<1> DEFINE s == Body(a, b, r)
<1>1. s = [i \in 1..(b - a + 1) |-> BodyByte(a + i - 1, r)]
  BY DEF Body, BodyByte
<1> HIDE DEF s
<1>2. b - a + 1 \in Nat
  OBVIOUS
<1>3. \A i \in 1..(b - a + 1) : BodyByte(a + i - 1, r) \in Token
  <2> SUFFICES ASSUME NEW i \in 1..(b - a + 1) PROVE Tok(p, r, c, from + i) \in Token
    OBVIOUS
  <2>1. from + i \in Nat
    OBVIOUS
  <2> QED BY <2>1, TokenIs
<1>4. s \in [1..(b - a + 1) -> Token]
  BY <1>1, <1>3
<1>5. s \in Seq(Token) /\ Len(s) = b - a + 1
  BY <1>2, <1>4
<1> QED BY <1>1, <1>2, <1>5 DEF Pieces, s

LEMMA BodyIsThere ==
  ASSUME NEW p \in Planned, NEW r \in Nat, NEW c \in BOOLEAN
  PROVE  LET s == IF p.framing # "chunked" THEN Body(1, p.size, r)
                  ELSE (IF p.size = 0 THEN <<>> ELSE Chunk(1, r) \o Body(1, 1, r) \o Blank(r))
                       \o (IF p.size < 2 THEN <<>>
                           ELSE Chunk(p.size - 1, r) \o Body(2, p.size, r) \o Blank(r))
                       \o Chunk(0, r) \o Blank(r)
         IN  Pieces(s, p, r, c, 3, Size(p) - 3)
<1>1. p.size \in Nat
  BY SizeIsNat
<1> DEFINE first == Chunk(1, r) \o Body(1, 1, r) \o Blank(r)
           second == Chunk(p.size - 1, r) \o Body(2, p.size, r) \o Blank(r)
<1>2. CASE p.framing # "chunked"
  <2>1. /\ Size(p) = p.size + 3 /\ 1 <= p.size + 1 /\ p.size - 1 + 1 = Size(p) - 3
        /\ \A i \in 1..(p.size - 1 + 1) : Tok(p, r, c, 3 + i) = BodyByte(1 + i - 1, r)
    BY <1>1, <1>2 DEF Size, Chunked, Tok
  <2>2. Pieces(Body(1, p.size, r), p, r, c, 3, p.size - 1 + 1)
    BY <1>1, <2>1, BodyPieces
  <2> QED BY <1>2, <2>1, <2>2
<1>3. CASE p.framing = "chunked" /\ p.size = 0
  <2>1. Size(p) = 5 /\ Tok(p, r, c, 4) = ChunkLine(0, r) /\ Tok(p, r, c, 5) = BlankLine(r)
    BY <1>3 DEF Size, Chunked, Tok
  <2>2. Pieces(Chunk(0, r), p, r, c, 3, 1)
    BY <2>1, OnePiece DEF Chunk, ChunkLine
  <2>3. Pieces(Blank(r), p, r, c, 3 + 1, 1)
    BY <2>1, OnePiece DEF Blank, BlankLine
  <2>4. Pieces(Chunk(0, r) \o Blank(r), p, r, c, 3, 1 + 1)
    BY <2>2, <2>3, PiecesJoin
  <2>5. <<>> \o <<>> \o Chunk(0, r) \o Blank(r) = Chunk(0, r) \o Blank(r)
    BY <2>2, <2>3 DEF Pieces
  <2>6. 1 + 1 = Size(p) - 3
    BY <2>1
  <2> QED BY <1>1, <1>3, <2>4, <2>5, <2>6
<1>4. ASSUME p.framing = "chunked", p.size # 0 PROVE Pieces(first, p, r, c, 3, 3)
  <2>1. /\ Tok(p, r, c, 4) = ChunkLine(1, r) /\ Tok(p, r, c, 5) = BodyByte(1, r)
        /\ Tok(p, r, c, 6) = BlankLine(r)
    BY <1>1, <1>4 DEF Size, Chunked, Tok
  <2>2. Pieces(Chunk(1, r), p, r, c, 3, 1)
    BY <2>1, OnePiece DEF Chunk, ChunkLine
  <2>3. Pieces(Body(1, 1, r), p, r, c, 3 + 1, 1)
    <3>1. \A i \in 1..(1 - 1 + 1) : Tok(p, r, c, 4 + i) = BodyByte(1 + i - 1, r)
      BY <2>1
    <3>2. Pieces(Body(1, 1, r), p, r, c, 4, 1 - 1 + 1)
      BY <3>1, BodyPieces
    <3> QED BY <3>2
  <2>4. Pieces(Blank(r), p, r, c, 3 + 2, 1)
    BY <2>1, OnePiece DEF Blank, BlankLine
  <2>5. Pieces(Chunk(1, r) \o Body(1, 1, r), p, r, c, 3, 1 + 1)
    BY <2>2, <2>3, PiecesJoin
  <2>6. Pieces(Chunk(1, r) \o Body(1, 1, r), p, r, c, 3, 2)
    BY <2>5
  <2>7. Pieces(first, p, r, c, 3, 2 + 1)
    BY <2>4, <2>6, PiecesJoin
  <2> QED BY <2>7
<1>5. CASE p.framing = "chunked" /\ p.size = 1
  <2>1. Size(p) = 8 /\ Tok(p, r, c, 7) = ChunkLine(0, r) /\ Tok(p, r, c, 8) = BlankLine(r)
    BY <1>5 DEF Size, Chunked, Tok
  <2>2. Pieces(Chunk(0, r), p, r, c, 3 + 3, 1)
    BY <2>1, OnePiece DEF Chunk, ChunkLine
  <2>3. Pieces(Blank(r), p, r, c, 3 + 4, 1)
    BY <2>1, OnePiece DEF Blank, BlankLine
  <2>4. Pieces(first, p, r, c, 3, 3)
    BY <1>4, <1>5
  <2> HIDE DEF first
  <2>5. Pieces(first \o <<>>, p, r, c, 3, 3)
    BY <2>4 DEF Pieces
  <2>6. Pieces(first \o <<>> \o Chunk(0, r), p, r, c, 3, 3 + 1)
    BY <2>2, <2>5, PiecesJoin
  <2>7. Pieces(first \o <<>> \o Chunk(0, r), p, r, c, 3, 4)
    BY <2>6
  <2>8. Pieces(first \o <<>> \o Chunk(0, r) \o Blank(r), p, r, c, 3, 4 + 1)
    BY <2>3, <2>7, PiecesJoin
  <2>9. 4 + 1 = Size(p) - 3
    BY <2>1
  <2> QED BY <1>1, <1>5, <2>8, <2>9 DEF first
<1>6. CASE p.framing = "chunked" /\ p.size > 1
  <2> DEFINE n == p.size
  <2>1. /\ Size(p) = n + 9 /\ Tok(p, r, c, 7) = ChunkLine(n - 1, r)
        /\ \A i \in 1..(n - 2 + 1) : Tok(p, r, c, 7 + i) = BodyByte(2 + i - 1, r)
        /\ Tok(p, r, c, 7 + (n - 1) + 1) = BlankLine(r)
        /\ Tok(p, r, c, 7 + n + 1) = ChunkLine(0, r) /\ Tok(p, r, c, 7 + (n + 1) + 1) = BlankLine(r)
    BY <1>1, <1>6 DEF Size, Chunked, Tok
  <2>2. n \in Nat /\ n > 1 /\ n - 1 \in Nat
    BY <1>1, <1>6
  <2>3. Pieces(first, p, r, c, 3, 3)
    BY <1>1, <1>4, <1>6
  <2>4. Pieces(second, p, r, c, 6, n + 1)
    <3> HIDE DEF n
    <3>1. Pieces(Chunk(n - 1, r), p, r, c, 6, 1)
      BY <2>1, OnePiece DEF Chunk, ChunkLine
    <3>2. Pieces(Body(2, n, r), p, r, c, 7, n - 2 + 1)
      <4>1. 2 \in Nat /\ 7 \in Nat /\ n \in Nat /\ 2 <= n + 1
        BY <2>2
      <4> QED BY <2>1, <4>1, BodyPieces, Zenon
    <3>3. Pieces(Body(2, n, r), p, r, c, 6 + 1, n - 1)
      <4>1. n - 2 + 1 = n - 1
        BY <2>2
      <4> QED BY <3>2, <4>1
    <3>4. Pieces(Blank(r), p, r, c, 7 + (n - 1), 1)
      BY <2>1, <2>2, OnePiece DEF Blank, BlankLine
    <3>5. Pieces(Chunk(n - 1, r) \o Body(2, n, r), p, r, c, 6, 1 + (n - 1))
      BY <2>2, <3>1, <3>3, PiecesJoin
    <3>6. 1 + (n - 1) = n /\ 7 + (n - 1) = 6 + n
      BY <2>2
    <3>7. Pieces(Chunk(n - 1, r) \o Body(2, n, r) \o Blank(r), p, r, c, 6, n + 1)
      BY <2>2, <3>4, <3>5, <3>6, PiecesJoin
    <3> QED BY <3>7 DEF n
  <2> HIDE DEF first, second
  <2>5. Pieces(first \o second, p, r, c, 3, 3 + (n + 1))
    <3>1. n + 1 \in Nat /\ 3 + 3 = 6
      BY <2>2
    <3> QED BY <2>3, <2>4, <3>1, PiecesJoin
  <2>6. Pieces(Chunk(0, r), p, r, c, 3 + (3 + (n + 1)), 1)
    <3>1. 3 + (3 + (n + 1)) = 7 + n /\ 7 + n \in Nat
      BY <2>2
    <3> HIDE DEF n
    <3> QED BY <2>1, <3>1, OnePiece DEF Chunk, ChunkLine
  <2>7. Pieces(first \o second \o Chunk(0, r), p, r, c, 3, 3 + (n + 1) + 1)
    <3>1. 3 + (n + 1) \in Nat
      BY <2>2
    <3> QED BY <2>5, <2>6, <3>1, PiecesJoin
  <2>8. Pieces(Blank(r), p, r, c, 3 + (3 + (n + 1) + 1), 1)
    <3>1. 3 + (3 + (n + 1) + 1) = 7 + (n + 1) /\ 7 + (n + 1) \in Nat
      BY <2>2
    <3> HIDE DEF n
    <3> QED BY <2>1, <3>1, OnePiece DEF Blank, BlankLine
  <2>9. Pieces(first \o second \o Chunk(0, r) \o Blank(r), p, r, c, 3, 3 + (n + 1) + 1 + 1)
    <3>1. 3 + (n + 1) + 1 \in Nat
      BY <2>2
    <3> QED BY <2>7, <2>8, <3>1, PiecesJoin
  <2>10. 3 + (n + 1) + 1 + 1 = Size(p) - 3 /\ p.size # 0 /\ ~(p.size < 2)
    BY <2>1, <2>2
  <2> QED BY <1>6, <2>9, <2>10, Zenon DEF first, second
<1> QED BY <1>1, <1>2, <1>3, <1>5, <1>6

(* What the server sends *)
LEMMA TokensAre ==
  ASSUME NEW p \in Planned, NEW r \in Nat, NEW c \in BOOLEAN
  PROVE  \E s : Pieces(s, p, r, c, 0, Size(p)) /\ Tokens(p, r, c) = s \o (IF c THEN <<Fin>> ELSE <<>>)
<1> DEFINE body == IF p.framing # "chunked" THEN Body(1, p.size, r)
                   ELSE (IF p.size = 0 THEN <<>> ELSE Chunk(1, r) \o Body(1, 1, r) \o Blank(r))
                        \o (IF p.size < 2 THEN <<>>
                            ELSE Chunk(p.size - 1, r) \o Body(2, p.size, r) \o Blank(r))
                        \o Chunk(0, r) \o Blank(r)
           head == <<StatusLine(p, r), FieldLines(p, r, c)>>
<1>1. Pieces(body, p, r, c, 3, Size(p) - 3)
  BY BodyIsThere
<1>2. Tokens(p, r, c) = head \o Blank(r) \o body \o (IF c THEN <<Fin>> ELSE <<>>)
  BY Zenon DEF Tokens, StatusLine, FieldLines, Fin
<1> HIDE DEF body
<1>3. /\ Tok(p, r, c, 1) = StatusLine(p, r) /\ Tok(p, r, c, 2) = FieldLines(p, r, c)
      /\ Tok(p, r, c, 3) = BlankLine(r)
  BY DEF Tok
<1>4. Pieces(head, p, r, c, 0, 2)
  <2>1. StatusLine(p, r) \in Token /\ FieldLines(p, r, c) \in Token
    BY <1>3, TokenIs
  <2>2. \A i \in 1..2 : i = 1 \/ i = 2
    OBVIOUS
  <2> QED BY <1>3, <2>1, <2>2 DEF Pieces
<1> HIDE DEF head
<1>5. Pieces(Blank(r), p, r, c, 0 + 2, 1)
  BY <1>3, OnePiece DEF Blank, BlankLine
<1>6. Pieces(head \o Blank(r), p, r, c, 0, 2 + 1)
  BY <1>4, <1>5, PiecesJoin
<1>7. Pieces(head \o Blank(r) \o body, p, r, c, 0, 3 + (Size(p) - 3))
  <2>1. Size(p) - 3 \in Nat /\ 2 + 1 = 3 /\ 0 + 3 = 3
    BY SizeIsNat
  <2> QED BY <1>1, <1>6, <2>1, PiecesJoin
<1>8. 3 + (Size(p) - 3) = Size(p)
  BY SizeIsNat
<1> QED BY <1>2, <1>7, <1>8

(* The first of them, and the rest *)
LEMMA PiecesFirst ==
  ASSUME NEW p, NEW r, NEW c, NEW from \in Nat, NEW n \in Nat, NEW s, Pieces(s, p, r, c, from, n),
         NEW k \in 0..n
  PROVE  Pieces(SubSeq(s, 1, k), p, r, c, from, k)
<1>1. s \in Seq(Token) /\ Len(s) = n /\ \A i \in 1..n : s[i] = Tok(p, r, c, from + i)
  BY DEF Pieces
<1> DEFINE x == SubSeq(s, 1, k)
<1>2. x \in Seq(Token) /\ Len(x) = k /\ \A i \in 1..k : x[i] = s[i]
  BY <1>1
<1> HIDE DEF x
<1> QED BY <1>1, <1>2 DEF Pieces, x

Rest(s, k) == SubSeq(s, k + 1, Len(s))

LEMMA PiecesRest ==
  ASSUME NEW p, NEW r, NEW c, NEW from \in Nat, NEW n \in Nat, NEW s, Pieces(s, p, r, c, from, n),
         NEW k \in 0..n
  PROVE  Pieces(Rest(s, k), p, r, c, from + k, n - k)
<1>1. s \in Seq(Token) /\ Len(s) = n /\ \A i \in 1..n : s[i] = Tok(p, r, c, from + i)
  BY DEF Pieces
<1> DEFINE x == SubSeq(s, k + 1, Len(s))
<1>2. x \in Seq(Token) /\ Len(x) = n - k /\ \A i \in 1..(n - k) : x[i] = s[k + i]
  BY <1>1
<1> HIDE DEF x
<1>3. \A i \in 1..(n - k) : k + i \in 1..n /\ from + (k + i) = (from + k) + i
  OBVIOUS
<1> QED BY <1>1, <1>2, <1>3 DEF Pieces, Rest, x

LEMMA TailIsRest == ASSUME NEW s \in Seq(Token), s # <<>> PROVE Tail(s) = Rest(s, 1)
BY DEF Rest

-----------------------------------------------------------------------------
(* What is between the server and the caller *)

(* Of the reply the first d pieces have been read, those up to m have       *)
(* arrived, and those up to j are under way, with the end of the connection *)
(* after them or without.                                                  *)
Under(p, r, c, d, m, j) ==
  /\ d \in Nat /\ m \in Nat /\ j \in Nat /\ d <= m /\ m <= j /\ j <= Size(p)
  /\ Pieces(rx, p, r, c, d, m - d)
  /\ \E f : Pieces(f, p, r, c, m, j - m) /\ flight \in {f, Append(f, Fin)}

LEMMA UnderReads ==
  ASSUME NEW p \in Planned, NEW r, NEW c, NEW d, NEW m, NEW j, Under(p, r, c, d, m, j),
         NEW k \in 0..(m - d), rx' = Rest(rx, k), flight' = flight
  PROVE  Under(p, r, c, d + k, m, j)'
<1>1. PICK n \in Nat : n = m - d
  BY DEF Under
<1>2. d \in Nat /\ Pieces(rx, p, r, c, d, n) /\ k \in 0..n
  BY <1>1 DEF Under
<1>3. Pieces(Rest(rx, k), p, r, c, d + k, n - k)
  BY <1>2, PiecesRest, Zenon
<1>4. n - k = m - (d + k) /\ d + k \in Nat /\ d + k <= m
  BY <1>1 DEF Under
<1> QED BY <1>3, <1>4 DEF Under

LEMMA UnderDrops ==
  ASSUME NEW p \in Planned, NEW r, NEW c, NEW d, NEW m, NEW j, Under(p, r, c, d, m, j), rx' = <<>>
  PROVE  /\ flight' = flight => Under(p, r, c, m, m, j)'
         /\ flight' = <<>> => Under(p, r, c, m, m, m)'
<1>1. m \in Nat /\ m - m = 0 /\ m <= m /\ m <= j /\ j \in Nat /\ j <= Size(p)
  BY DEF Under
<1>2. Pieces(<<>>, p, r, c, m, m - m)
  BY <1>1, NoPieces
<1>3. m <= Size(p)
  BY <1>1, SizeIsNat
<1> QED BY <1>1, <1>2, <1>3 DEF Under

LEMMA UnderStays ==
  ASSUME NEW p \in Planned, NEW r, NEW c, NEW d, NEW m, NEW j, Under(p, r, c, d, m, j), UNCHANGED <<rx, flight>>
  PROVE  Under(p, r, c, d, m, j)'
BY DEF Under

LEMMA AppendFirst ==
  ASSUME NEW s \in Seq(Token), NEW x \in Token, NEW k \in 0..Len(s)
  PROVE  SubSeq(Append(s, x), 1, k) = SubSeq(s, 1, k)
<1> DEFINE a == SubSeq(Append(s, x), 1, k)
           b == SubSeq(s, 1, k)
<1>1. a \in Seq(Token) /\ Len(a) = k /\ \A i \in 1..k : a[i] = s[i]
  BY Append(s, x) \in Seq(Token)
<1>2. b \in Seq(Token) /\ Len(b) = k /\ \A i \in 1..k : b[i] = s[i]
  OBVIOUS
<1> HIDE DEF a, b
<1>3. a = b
  BY <1>1, <1>2
<1> QED BY <1>3 DEF a, b

LEMMA AppendRest ==
  ASSUME NEW s \in Seq(Token), NEW x \in Token, NEW k \in 0..Len(s)
  PROVE  Rest(Append(s, x), k) = Append(Rest(s, k), x)
<1> DEFINE a == Rest(Append(s, x), k)
           b == Rest(s, k)
           n == Len(s) - k
<1>1. a \in Seq(Token) /\ Len(a) = n + 1 /\ \A i \in 1..(n + 1) : a[i] = Append(s, x)[k + i]
  BY Append(s, x) \in Seq(Token) DEF Rest
<1>2. b \in Seq(Token) /\ Len(b) = n /\ \A i \in 1..n : b[i] = s[k + i]
  BY DEF Rest
<1>3. n \in Nat /\ (\A i \in 1..n : Append(s, x)[k + i] = s[k + i]) /\ Append(s, x)[k + (n + 1)] = x
  OBVIOUS
<1> HIDE DEF a, b, n
<1>4. Append(b, x) \in Seq(Token) /\ Len(Append(b, x)) = n + 1
      /\ (\A i \in 1..n : Append(b, x)[i] = b[i]) /\ Append(b, x)[n + 1] = x
  BY <1>2, <1>3
<1>5. ASSUME NEW i \in 1..(n + 1) PROVE a[i] = Append(b, x)[i]
  <2>1. CASE i = n + 1
    BY <1>1, <1>3, <1>4, <2>1
  <2>2. CASE i # n + 1
    <3>1. i \in 1..n
      BY <1>3, <2>2
    <3> QED BY <1>1, <1>2, <1>3, <1>4, <3>1
  <2> QED BY <2>1, <2>2
<1>6. a = Append(b, x)
  <2> DEFINE e == Append(b, x)
  <2>1. e \in Seq(Token) /\ Len(e) = n + 1 /\ \A i \in 1..(n + 1) : a[i] = e[i]
    BY <1>4, <1>5
  <2> HIDE DEF e
  <2>2. a = e
    BY <1>1, <1>3, <2>1
  <2> QED BY <2>2 DEF e
<1> QED BY <1>6 DEF a, b

LEMMA AppendLast ==
  ASSUME NEW s \in Seq(Token), NEW x \in Token
  PROVE  /\ Append(s, x) \in Seq(Token) /\ Len(Append(s, x)) = Len(s) + 1
         /\ Append(s, x)[Len(s) + 1] = x /\ (\A i \in 1..Len(s) : Append(s, x)[i] = s[i])
         /\ SubSeq(Append(s, x), 1, Len(s)) = s /\ Rest(Append(s, x), Len(s) + 1) = <<>>
<1>1. SubSeq(Append(s, x), 1, Len(s)) = SubSeq(s, 1, Len(s))
  BY AppendFirst
<1>2. SubSeq(s, 1, Len(s)) = s
  OBVIOUS
<1>3. Rest(Append(s, x), Len(s) + 1) = <<>>
  BY DEF Rest
<1> QED BY <1>1, <1>2, <1>3

LEMMA PiecesAreNoEnd ==
  ASSUME NEW p \in Planned, NEW r \in Nat, NEW c \in BOOLEAN, NEW from \in Nat, NEW n \in Nat,
         NEW s, Pieces(s, p, r, c, from, n), NEW i \in 1..n
  PROVE  s[i].k # "fin" /\ s[i].r = r
<1>1. s[i] = Tok(p, r, c, from + i) /\ from + i \in Nat
  BY DEF Pieces
<1> QED BY <1>1, TokenIs

(* More of it arrives, perhaps with the end *)
Arrives(n) ==
  /\ n \in 1..Len(flight)
  /\ rx' = rx \o SubSeq(flight, 1, IF flight[n].k = "fin" THEN n - 1 ELSE n)
  /\ flight' = Rest(flight, n)

LEMMA UnderArrives ==
  ASSUME NEW p \in Planned, NEW r \in Nat, NEW c \in BOOLEAN, NEW d, NEW m, NEW j,
         Under(p, r, c, d, m, j), NEW n, Arrives(n)
  PROVE  \E q \in 0..(j - m) : /\ Under(p, r, c, d, m + q, j)'
                               /\ flight[n].k = "fin" => flight' = <<>>
<1>1. PICK f : Pieces(f, p, r, c, m, j - m) /\ flight \in {f, Append(f, Fin)}
  BY DEF Under
<1>2. /\ d \in Nat /\ m \in Nat /\ j \in Nat /\ d <= m /\ m <= j /\ j <= Size(p)
      /\ j - m \in Nat /\ m - d \in Nat /\ Pieces(rx, p, r, c, d, m - d)
  BY DEF Under
<1>3. f \in Seq(Token) /\ Len(f) = j - m /\ Fin \in Token /\ Fin.k = "fin"
  BY <1>1, FinIs DEF Pieces
<1>4. ASSUME NEW q \in 0..(j - m), NEW s, Pieces(s, p, r, c, m, q), rx' = rx \o s,
             NEW g, Pieces(g, p, r, c, m + q, (j - m) - q), flight' \in {g, Append(g, Fin)}
      PROVE  Under(p, r, c, d, m + q, j)'
  <2>1. d + (m - d) = m /\ (m - d) + q = (m + q) - d /\ (j - m) - q = j - (m + q) /\ q \in Nat
        /\ m + q \in Nat /\ d <= m + q /\ m + q <= j
    BY <1>2
  <2>2. Pieces(s, p, r, c, d + (m - d), q)
    BY <1>4, <2>1
  <2>3. Pieces(rx \o s, p, r, c, d, (m - d) + q)
    BY <1>2, <2>1, <2>2, PiecesJoin, Zenon
  <2>4. Pieces(rx', p, r, c, d, (m + q) - d)
    BY <1>4, <2>1, <2>3, Zenon
  <2> QED BY <1>2, <1>4, <2>1, <2>4 DEF Under
<1>5. CASE n \in 1..(j - m)
  <2>1. flight[n] = f[n] /\ SubSeq(flight, 1, n) = SubSeq(f, 1, n)
        /\ Rest(flight, n) \in {Rest(f, n), Append(Rest(f, n), Fin)}
    <3>1. n \in 0..Len(f)
      BY <1>3, <1>5
    <3>2. /\ SubSeq(Append(f, Fin), 1, n) = SubSeq(f, 1, n)
          /\ Rest(Append(f, Fin), n) = Append(Rest(f, n), Fin) /\ Append(f, Fin)[n] = f[n]
      <4>1. n \in 1..Len(f)
        BY <1>3, <1>5
      <4>2. \A i \in 1..Len(f) : Append(f, Fin)[i] = f[i]
        BY <1>3, AppendLast
      <4> QED BY <1>3, <3>1, <4>1, <4>2, AppendFirst, AppendRest, Zenon
    <3> QED BY <1>1, <3>2
  <2>2. flight[n].k # "fin"
    BY <1>1, <1>2, <1>5, <2>1, PiecesAreNoEnd
  <2>3. n \in 0..(j - m) /\ n \in Nat
    BY <1>2, <1>5
  <2>4. Pieces(SubSeq(f, 1, n), p, r, c, m, n)
    BY <1>1, <1>2, <2>3, PiecesFirst, Zenon
  <2>5. Pieces(Rest(f, n), p, r, c, m + n, (j - m) - n)
    BY <1>1, <1>2, <2>3, PiecesRest, Zenon
  <2>6. rx' = rx \o SubSeq(f, 1, n) /\ flight' \in {Rest(f, n), Append(Rest(f, n), Fin)}
    BY <2>1, <2>2 DEF Arrives
  <2>7. Under(p, r, c, d, m + n, j)'
    BY <1>4, <2>3, <2>4, <2>5, <2>6
  <2> QED BY <2>2, <2>3, <2>7
<1>6. CASE n \notin 1..(j - m)
  <2>1. flight = Append(f, Fin) /\ n = Len(f) + 1
    BY <1>1, <1>2, <1>3, <1>6, AppendLast DEF Arrives
  <2>2. flight[n] = Fin /\ SubSeq(flight, 1, n - 1) = f /\ Rest(flight, n) = <<>>
    <3>1. n - 1 = Len(f)
      BY <1>2, <1>3, <2>1
    <3> QED BY <1>3, <2>1, <3>1, AppendLast
  <2>3. rx' = rx \o f /\ flight' = <<>>
    BY <1>3, <2>2 DEF Arrives
  <2>4. j - m \in 0..(j - m) /\ Pieces(<<>>, p, r, c, m + (j - m), (j - m) - (j - m))
    <3>1. (j - m) - (j - m) = 0
      BY <1>2
    <3> QED BY <1>2, <3>1, NoPieces
  <2>5. Under(p, r, c, d, m + (j - m), j)'
    BY <1>1, <1>4, <2>3, <2>4
  <2> QED BY <2>3, <2>4, <2>5
<1> QED BY <1>5, <1>6

(* The server gives up before it has sent the rest. *)
LEMMA UnderFails ==
  ASSUME NEW p \in Planned, NEW r \in Nat, NEW c \in BOOLEAN, NEW d, NEW m, NEW j,
         Under(p, r, c, d, m, j), \A i \in DOMAIN flight : flight[i].k # "fin",
         NEW n \in 0..Len(flight), flight' \in {SubSeq(flight, 1, n), Append(SubSeq(flight, 1, n), Fin)},
         rx' = rx
  PROVE  \E q \in m..j : Under(p, r, c, d, m, q)'
<1>1. PICK f : Pieces(f, p, r, c, m, j - m) /\ flight \in {f, Append(f, Fin)}
  BY DEF Under
<1>2. /\ d \in Nat /\ m \in Nat /\ j \in Nat /\ d <= m /\ m <= j /\ j <= Size(p)
      /\ j - m \in Nat /\ Pieces(rx, p, r, c, d, m - d) /\ Size(p) \in Nat
  BY SizeIsNat DEF Under
<1>3. f \in Seq(Token) /\ Len(f) = j - m /\ Fin \in Token /\ Fin.k = "fin"
  BY <1>1, FinIs DEF Pieces
<1>4. flight = f
  <2> SUFFICES ASSUME flight = Append(f, Fin) PROVE FALSE
    BY <1>1
  <2>1. Len(f) + 1 \in DOMAIN flight /\ flight[Len(f) + 1] = Fin
    BY <1>3, AppendLast
  <2> QED BY <1>3, <2>1
<1>5. n \in 0..(j - m) /\ n \in Nat
  BY <1>2, <1>3, <1>4
<1>6. Pieces(SubSeq(flight, 1, n), p, r, c, m, n)
  BY <1>1, <1>2, <1>4, <1>5, PiecesFirst, Zenon
<1>7. m + n \in m..j /\ (m + n) - m = n /\ m + n <= Size(p) /\ m + n \in Nat /\ m <= m + n
  BY <1>2, <1>5
<1>8. Under(p, r, c, d, m, m + n)'
  BY <1>2, <1>6, <1>7 DEF Under
<1> QED BY <1>7, <1>8

-----------------------------------------------------------------------------
(* What holds of a call and its reply *)

CallFields == {"pc", "type", "payload", "stream", "redirects", "first", "left", "total", "body",
               "raw", "result"}
HttpFields == {"at", "begun", "client", "own", "traits", "reuse", "canReuse", "size", "headers",
               "collected", "location", "framing", "code"}

IsArray(s, n) == s = [i \in 1..n |-> s[i]]
IsServed(s) ==
  /\ Len(s) \in Nat /\ IsArray(s, Len(s))
  /\ \A i \in 1..Len(s) : {"seen", "reply"} \subseteq DOMAIN s[i]

Shape ==
  /\ DOMAIN call = CallFields /\ DOMAIN http = HttpFields
  /\ DOMAIN link = {"up", "at", "open", "mute"} /\ DOMAIN used = {"calls", "faults"}
  /\ used.faults \in Nat /\ IsServed(served) /\ flight \in Seq(Token) /\ plan \in Plans

(* Once a request has been sent with an earlier reply on its way: the first *)
(* reply this happened to is s, and what is still on its way is no older.   *)
Going == {t \in ToSet(flight) : t.k # "fin"}
Mixed(s) ==
  /\ s \in 1..(Len(served) - 1) /\ \E t \in stale : t.r = s
  /\ \A t \in stale \cup Going :
       /\ t.r \in Nat /\ s <= t.r
       /\ t.r = s /\ served[s].seen = "all" => t.k = "blank" /\ served[s].reply.framing = "chunked"

LinkFits ==
  /\ link.open => link.up
  /\ ~link.open => flight = <<>> /\ owed = "none"
  /\ ~link.up => rx = <<>>

FreshCall == call.left = 0 /\ call.total = 0 /\ call.body = <<>> /\ ~call.raw

(* What the headers collected may be before those of the reply r, and after *)
NotYetCollected(r) == http.collected = 0 \/ (call.stream /\ http.collected < r)
Collected(p, r) ==
  \/ http.collected = IF p.mark THEN r ELSE 0
  \/ call.stream /\ ~p.mark /\ http.collected < r

NoFields == http.framing = "none" /\ http.size = -1
Fields(p) == http.framing = p.framing /\ http.size = IF p.framing = "length" THEN p.size ELSE -1

(* What else the fields have told by the end of the head *)
HeadTold(p, r) ==
  /\ p.location.kind # "none" => http.location = p.location
  /\ p.age # "none" /\ Accepted(p.domain, http.at.host) =>
       \A c \in jar : c.domain = Domain(p.domain, http.at.host) => c.value = r

HeadBegins(r) == FreshCall /\ call.first /\ NoFields /\ NotYetCollected(r)

(* The request is on its way, or its payload is, and none of the reply read. *)
Sending(r) ==
  /\ call.pc \in {"stream", "sent"} /\ call.body = <<>> /\ ~call.raw /\ NotYetCollected(r)
  /\ call.pc = "sent" => FreshCall /\ call.first

(* The last request has no reply yet, or there was none so far. *)
Unanswered ==
  /\ rx = <<>> /\ flight \in {<<>>, <<Fin>>} /\ (owed # "none" => flight = <<>> /\ served # <<>>)
  /\ served # <<>> => served[Len(served)].seen # "all"
  /\ call.pc \in {"idle", "begun", "request", "stream", "sent", "head", "returned"}
  /\ call.pc = "returned" => call.result \in Int /\ call.result < 0
  /\ call.pc \in {"idle", "begun", "request"} => FreshCall
  /\ call.pc \in {"stream", "sent"} => served # <<>> /\ Sending(Len(served))
  /\ call.pc = "head" => served # <<>> /\ HeadBegins(Len(served))

(* In a chunk with b bytes of the body read and l of the chunk to come, and *)
(* before the size of a chunk                                              *)
InChunk(p, d, b, l) ==
  \/ d + l = 5 /\ b + l = 1 /\ p.size >= 1
  \/ d + l = 6 + p.size /\ b + l = p.size /\ b >= 1 /\ p.size >= 2
BetweenChunks(p, d, b) ==
  \/ d = 3 /\ b = 0
  \/ d = 6 /\ b = 1 /\ p.size >= 1
  \/ d = 7 + p.size /\ b = p.size /\ p.size >= 2

InHead(p, r, d) ==
  /\ call.pc = "head" /\ FreshCall
  /\ \/ d = 0 /\ call.first /\ NoFields /\ NotYetCollected(r)
     \/ d = 1 /\ ~call.first /\ http.code = p.code /\ NoFields /\ NotYetCollected(r)
     \/ d = 2 /\ ~call.first /\ http.code = p.code /\ Fields(p) /\ Collected(p, r)
        /\ HeadTold(p, r)

IsAnswered(p, r, d) ==
  /\ call.pc = "answered" /\ FreshCall /\ call.result = p.code /\ d = 3
  /\ Fields(p) /\ Collected(p, r) /\ p.framing # "other"

InPlainBody(p, r, d, b) ==
  /\ call.pc = "block" /\ ~Chunked(p) /\ d = 3 + b
  /\ call.left = IF p.framing = "length" THEN p.size - b ELSE -1
InChunkedBody(p, r, d, b) ==
  /\ Chunked(p) /\ call.total \in Nat
  /\ \/ call.pc = "block" /\ call.left \in Nat /\ call.total = b + call.left /\ InChunk(p, d, b, call.left)
     \/ call.pc = "trailer" /\ call.total = b /\ InChunk(p, d, b, 0)
     \/ call.pc = "chunk" /\ call.total = b /\ BetweenChunks(p, d, b)
InBody(p, r, d) ==
  /\ Fields(p) /\ Collected(p, r) /\ p.framing # "other"
  /\ \E b \in Nat : /\ call.body = Body(1, b, r)
                    /\ (InPlainBody(p, r, d, b) \/ InChunkedBody(p, r, d, b))

(* Only the last empty line of a whole body may be left behind. *)
Behind(p, r, m, j) == served[r].seen = "all" => (m = j \/ (Chunked(p) /\ m + 1 >= Size(p)))

IsReturned(p, r) ==
  call.result >= 0 =>
    /\ Collected(p, r)
    /\ \/ \E b \in Nat : call.body = Body(1, b, r)
       \/ call.raw /\ p.framing \in {"chunked", "other"}
    /\ served[r].seen = "all" =>
         Len(call.body) = p.size \/ (p.framing = "none" /\ used.faults > 0)

Stage(p, r, d, m, j) ==
  \/ call.pc \in {"idle", "begun", "request"} /\ FreshCall /\ Behind(p, r, m, j)
  \/ call.pc = "returned" /\ IsReturned(p, r) /\ Behind(p, r, m, j)
  \/ /\ served[r].seen # "all" /\ (j = Size(p) \/ used.faults > 0)
     /\ (d = 0 /\ Sending(r)) \/ InHead(p, r, d) \/ IsAnswered(p, r, d) \/ InBody(p, r, d)

Answered(p, c, d, m, j) ==
  /\ Len(served) >= 1 /\ p = served[Len(served)].reply /\ p \in Planned /\ c \in BOOLEAN
  /\ owed = "none" /\ Under(p, Len(served), c, d, m, j) /\ Stage(p, Len(served), d, m, j)

Apart ==
  /\ LinkFits /\ http.collected \in 0..Len(served)
  /\ \/ Unanswered
     \/ \E p, c, d, m, j : Answered(p, c, d, m, j)

HttpInv == Shape /\ (IF stale = {} THEN Apart ELSE \E s : Mixed(s))

-----------------------------------------------------------------------------
(* What a step may change of the records *)

Framed ==
  /\ DOMAIN call' = CallFields /\ DOMAIN http' = HttpFields
  /\ DOMAIN link' = {"up", "at", "open", "mute"} /\ DOMAIN used' = {"calls", "faults"}
  /\ used'.faults \in Nat /\ used.faults <= used'.faults /\ plan' = plan

(* The connection ends or goes on as before, but for what is read of it. *)
Settled == Stop \/ UNCHANGED <<link, flight, owed>>

Quiet == Framed /\ Settled /\ stale' = stale /\ (served' = served \/ \E what : Seen(what))

Members(h) == DOMAIN h = HttpFields
SameMembers(g, h) == Members(g) /\ g.collected = h.collected

LEMMA MembersKept ==
  ASSUME NEW h, Members(h)
  PROVE  /\ SameMembers(Clear(h), h) /\ SameMembers(Ended(h), h) /\ SameMembers(Own(h), h)
         /\ SameMembers(Given(h), h) /\ \A reuse : SameMembers(SetReuse(h, reuse), h)
         /\ SameMembers([h EXCEPT !.canReuse = FALSE], h)
BY DEF Members, SameMembers, Clear, Ended, Own, Given, SetReuse, HttpFields

LEMMA UnmixedKeeps ==
  ASSUME Members(http), NEW mixed
  PROVE  SameMembers(Unmixed(mixed), http)
<1> DEFINE h == [http EXCEPT !.canReuse = FALSE]
<1>1. SameMembers(h, http) /\ SameMembers(http, http)
  BY MembersKept DEF SameMembers
<1>2. SameMembers(Ended(h), h)
  BY <1>1, MembersKept DEF SameMembers
<1>3. Unmixed(mixed) = Ended(h) \/ Unmixed(mixed) = http
  BY Zenon DEF Unmixed
<1> HIDE DEF h
<1> QED BY <1>1, <1>2, <1>3 DEF SameMembers

LEMMA BeginMembers ==
  ASSUME NEW h, SameMembers(h, http), NEW p, NEW mixed, NEW kind
  PROVE  /\ BeginInternal(h, p, mixed, kind) =>
              SameMembers(http', http) /\ (Stop \/ Keep)
         /\ BeginHost(h, p, mixed) => SameMembers(http', http) /\ (Stop \/ Keep)
<1>1. ASSUME BeginInternal(h, p, mixed, kind) PROVE SameMembers(http', http) /\ (Stop \/ Keep)
  <2>1. Stop \/ Keep
    BY <1>1, Zenon DEF BeginInternal
  <2>2. PICK can : http' = [h EXCEPT !.at = p, !.begun = kind, !.canReuse = can]
    BY <1>1 DEF BeginInternal
  <2> QED BY <2>1, <2>2 DEF SameMembers, Members, HttpFields
<1>2. ASSUME BeginHost(h, p, mixed) PROVE SameMembers(http', http) /\ (Stop \/ Keep)
  <2>1. Stop \/ Keep
    BY <1>2, Zenon DEF BeginHost
  <2>2. http' = [Clear(h) EXCEPT !.at = p, !.begun = "host"]
    BY <1>2, Zenon DEF BeginHost
  <2>3. SameMembers(Clear(h), h)
    BY MembersKept DEF SameMembers
  <2> QED BY <2>1, <2>2, <2>3 DEF SameMembers, Members, HttpFields
<1> QED BY <1>1, <1>2

LEMMA BeginIs ==
  ASSUME Shape, Begin
  PROVE  SameMembers(http', http) /\ (Stop \/ Keep) /\ call' = [Idle EXCEPT !.pc = "begun"]
         /\ UNCHANGED <<served, stale, used>>
<1>1. Members(http)
  BY DEF Shape, Members
<1>2. call' = [Idle EXCEPT !.pc = "begun"] /\ UNCHANGED <<served, stale, used>>
  BY DEF Begin
<1>3. ASSUME NEW mixed PROVE SameMembers(Own(Clear(Unmixed(mixed))), http)
      /\ SameMembers(Given(Unmixed(mixed)), http) /\ SameMembers(Own(Unmixed(mixed)), http)
  <2>1. SameMembers(Unmixed(mixed), http)
    BY <1>1, UnmixedKeeps
  <2>2. SameMembers(Clear(Unmixed(mixed)), Unmixed(mixed))
    BY <2>1, MembersKept DEF SameMembers
  <2>3. /\ SameMembers(Own(Clear(Unmixed(mixed))), Clear(Unmixed(mixed)))
        /\ SameMembers(Given(Unmixed(mixed)), Unmixed(mixed)) /\ SameMembers(Own(Unmixed(mixed)), Unmixed(mixed))
    BY <2>1, <2>2, MembersKept DEF SameMembers
  <2> QED BY <2>1, <2>2, <2>3 DEF SameMembers
<1>4. PICK p, mixed :
        \/ BeginUrl(p, mixed) \/ BeginHost(Own(Unmixed(mixed)), p, mixed)
        \/ BeginClient(p, mixed) \/ BeginHost(Given(Unmixed(mixed)), p, mixed)
  BY Zenon DEF Begin
<1>5. SameMembers(http', http) /\ (Stop \/ Keep)
  BY <1>3, <1>4, BeginMembers, Zenon DEF BeginUrl, BeginClient
<1> QED BY <1>2, <1>5

LEMMA BeginQuiet == ASSUME Shape, Begin, plan' = plan PROVE Quiet
<1>1. SameMembers(http', http) /\ (Stop \/ Keep) /\ call' = [Idle EXCEPT !.pc = "begun"]
      /\ UNCHANGED <<served, stale, used>>
  BY BeginIs
<1>2. DOMAIN link' = {"up", "at", "open", "mute"}
  BY <1>1 DEF Shape, Stop, Keep, Down
<1>3. DOMAIN call' = CallFields
  BY <1>1 DEF Idle, CallFields
<1>4. Settled
  BY <1>1 DEF Settled, Keep
<1> QED BY <1>1, <1>2, <1>3, <1>4 DEF Quiet, Framed, Shape, SameMembers, Members

LinkFields == {"up", "at", "open", "mute"}
Cut == Settled /\ rx' \in {rx, <<>>} /\ DOMAIN link' = LinkFields

LEMMA CutIs ==
  ASSUME Shape
  PROVE  /\ Stop => Cut
         /\ Keep => Cut
         /\ \A h : Disconnect(h) => Cut
         /\ \A code : Return(code) =>
               Cut /\ call' = [call EXCEPT !.pc = "returned", !.result = code]
<1>1. Stop => Cut
  BY DEF Stop, Cut, Settled, Down, LinkFields
<1>2. rx' \in {rx, <<>>} /\ UNCHANGED <<link, flight, owed>> => Cut
  BY DEF Cut, Settled, LinkFields, Shape
<1>3. Keep => Cut
  BY <1>2 DEF Keep
<1>4. ASSUME NEW h, Disconnect(h) PROVE Cut
  BY <1>1, <1>2, <1>3, <1>4, Zenon DEF Disconnect
<1>5. ASSUME NEW code, Return(code)
      PROVE  Cut /\ call' = [call EXCEPT !.pc = "returned", !.result = code]
  BY <1>1, <1>3, <1>5, Zenon DEF Return
<1> QED BY <1>1, <1>3, <1>4, <1>5

LEMMA CutQuiet ==
  ASSUME Shape, Cut \/ (UNCHANGED <<link, flight, owed>>), plan' = plan, UNCHANGED stale,
         used' = used \/ Fails, DOMAIN call' = CallFields, DOMAIN http' = HttpFields,
         served' = served \/ \E what : Seen(what)
  PROVE  Quiet
<1>1. Settled /\ DOMAIN link' = LinkFields
  BY DEF Cut, Settled, Shape, LinkFields
<1>2. DOMAIN used' = {"calls", "faults"} /\ used'.faults \in Nat /\ used.faults <= used'.faults
  BY DEF Shape, Fails
<1> QED BY <1>1, <1>2 DEF Quiet, Framed, LinkFields

LEMMA Returned2 ==
  ASSUME Shape, NEW code, Return(code), plan' = plan, UNCHANGED <<stale, served>>,
         used' = used \/ Fails, DOMAIN http' = HttpFields
  PROVE  Quiet
<1>1. Cut /\ DOMAIN call' = CallFields
  BY CutIs DEF Shape
<1> QED BY <1>1, CutQuiet

LEMMA AskQuiet == ASSUME Shape, Ask, plan' = plan PROVE Quiet
<1>1. PICK q : call' = [call EXCEPT !.pc = "request", !.type = q.type,
                               !.payload = q.payload, !.stream = q.stream]
               /\ http' = [SetReuse(http, q.reuse) EXCEPT !.headers =
                     IF q.header = "none" THEN @
                     ELSE AddHeader(@, "x-cookie", used.calls + 1, q.header = "replace")]
  BY Zenon DEF Ask
<1>2. /\ DOMAIN call' = CallFields /\ DOMAIN http' = HttpFields
      /\ used' = [used EXCEPT !.calls = @ + 1] /\ UNCHANGED <<link, flight, owed, stale, served>>
  BY <1>1 DEF Ask, Shape, SetReuse
<1> QED BY <1>2 DEF Quiet, Framed, Settled, Shape

LEMMA EndQuiet == ASSUME Shape, End, plan' = plan PROVE Quiet
<1>1. Cut
  BY CutIs DEF End
<1>2. DOMAIN http' = HttpFields /\ DOMAIN call' = CallFields
  BY MembersKept DEF End, Shape, Members, SameMembers, Idle, CallFields
<1> QED BY <1>1, <1>2, CutQuiet DEF End

(* Of what fails, only the headers and the client may be left. *)
LEMMA CannotSendIs ==
  ASSUME Shape, CannotSend
  PROVE  /\ Return(-1) /\ UNCHANGED <<stale, served, jar>> /\ (used' = used \/ Fails)
         /\ http' \in {Wiped(http), Made(Wiped(http)), Headed(http)}
         /\ DOMAIN http' = HttpFields
         /\ http'.collected = IF call.stream THEN http.collected ELSE 0
<1>1. Return(-1) /\ UNCHANGED <<stale, served, jar>> /\ (used' = used \/ Fails)
      /\ http' \in {Wiped(http), Made(Wiped(http)), Headed(http)}
  BY Zenon DEF CannotSend
<1>2. Members(Wiped(http)) /\ Wiped(http).collected = IF call.stream THEN http.collected ELSE 0
  BY DEF Shape, Members, Wiped, HttpFields
<1>3. Members(Made(Wiped(http))) /\ Made(Wiped(http)).collected = Wiped(http).collected
  BY <1>2 DEF Made, Members, HttpFields
<1>4. Members(Headed(http)) /\ Headed(http).collected = Wiped(http).collected
  BY <1>3 DEF Headed, Members, HttpFields
<1> QED BY <1>1, <1>2, <1>3, <1>4 DEF Members

LEMMA CannotSendQuiet == ASSUME Shape, CannotSend, plan' = plan PROVE Quiet
BY CannotSendIs, Returned2

LEMMA GoesQuiet ==
  ASSUME Shape, Keep, UNCHANGED <<stale, used, served>>, DOMAIN call' = CallFields, DOMAIN http' = HttpFields,
         plan' = plan
  PROVE  Quiet
BY CutQuiet DEF Keep

LEMMA BufferQuiet == ASSUME Shape, Buffer, plan' = plan PROVE Quiet
<1>1. UNCHANGED <<http, stale, served>>
  BY DEF Buffer
<1>2. CASE Fails /\ Return(-8)
  BY <1>1, <1>2, Returned2 DEF Shape
<1>3. CASE ~(Fails /\ Return(-8))
  <2>1. Keep /\ UNCHANGED used /\ DOMAIN call' = CallFields
    BY <1>3 DEF Buffer, Shape
  <2> QED BY <1>1, <2>1, GoesQuiet DEF Shape
<1> QED BY <1>2, <1>3

LEMMA StreamFailsQuiet == ASSUME Shape, StreamFails, plan' = plan PROVE Quiet
<1>1. Return(-3) /\ UNCHANGED <<http, stale, served>> /\ (used' = used \/ Fails)
  BY Zenon DEF StreamFails
<1> QED BY <1>1, Returned2 DEF Shape

(* What the end of a stream comes to *)
Streamed == call' = [call EXCEPT !.pc = "sent", !.first = TRUE, !.left = 0, !.total = 0] /\ Keep

LEMMA StreamEndsIs ==
  ASSUME StreamEnds
  PROVE  call.pc = "stream" /\ UNCHANGED <<http, jar, served, stale, used>> /\ (Return(-3) \/ Streamed)
BY Zenon DEF StreamEnds, Streamed

LEMMA StreamEndsQuiet == ASSUME Shape, StreamEnds, plan' = plan PROVE Quiet
<1>1. UNCHANGED <<http, stale, used, served>>
  BY StreamEndsIs
<1>2. CASE Return(-3)
  BY <1>1, <1>2, Returned2 DEF Shape
<1>3. CASE Streamed
  <2>1. Keep /\ DOMAIN call' = CallFields
    BY <1>3 DEF Streamed, Shape
  <2> QED BY <1>1, <2>1, GoesQuiet DEF Shape
<1> QED BY <1>2, <1>3, StreamEndsIs

(* The reply is awaited, or the connection is gone. *)
Awaits == call' = [call EXCEPT !.pc = "head"] /\ http' = Renewed(http) /\ Keep

LEMMA AwaitHeadIs ==
  ASSUME AwaitHead
  PROVE  /\ call.pc = "sent" /\ UNCHANGED <<jar, served, stale, used>>
         /\ (Return(-4) /\ UNCHANGED http) \/ Awaits
BY Zenon DEF AwaitHead, Awaits

LEMMA RenewedIs ==
  ASSUME Members(http)
  PROVE  /\ SameMembers(Renewed(http), http) /\ Renewed(http).framing = "none" /\ Renewed(http).size = -1
         /\ Renewed(http).at = http.at /\ Renewed(http).begun = http.begun
         /\ Renewed(http).headers = http.headers /\ Renewed(http).location = http.location
BY DEF Renewed, Members, SameMembers, HttpFields

LEMMA AwaitHeadQuiet == ASSUME Shape, AwaitHead, plan' = plan PROVE Quiet
<1>1. UNCHANGED <<stale, used, served>>
  BY AwaitHeadIs
<1>2. CASE Return(-4) /\ UNCHANGED http
  BY <1>1, <1>2, Returned2 DEF Shape
<1>3. CASE Awaits
  <2>1. Keep /\ DOMAIN call' = CallFields /\ DOMAIN http' = HttpFields
    BY <1>3, RenewedIs DEF Awaits, Shape, Members, SameMembers
  <2> QED BY <1>1, <2>1, GoesQuiet
<1> QED BY <1>2, <1>3, AwaitHeadIs

LEMMA HeadLineQuiet == ASSUME Shape, HeadLine, plan' = plan PROVE Quiet
<1>1. UNCHANGED <<link, flight, owed, served, stale, used>> /\ DOMAIN call' = CallFields
  BY DEF HeadLine, Shape
<1>2. PICK n : \E h \in IF call.first THEN FirstLine(n, http) ELSE {Field(n, http)} : http' = h
  BY Zenon DEF HeadLine
<1>3. DOMAIN http' = HttpFields
  BY <1>2 DEF FirstLine, Field, Shape
<1> QED BY <1>1, <1>3, CutQuiet

LEMMA GoToIs ==
  ASSUME Shape, NEW l, GoTo(l)
  PROVE  (Cut \/ (rx' = Tail(rx) /\ UNCHANGED <<link, flight, owed>>)) /\ SameMembers(http', http)
<1>1. CASE l.kind = "path"
  BY <1>1, MembersKept DEF GoTo, Shape, Members
<1>2. CASE l.kind # "path"
  <2>1. Cut
    <3>1. Stop \/ \E h : Disconnect(h)
      BY <1>2, Zenon DEF GoTo
    <3> QED BY <3>1, CutIs
  <2>2. PICK can : http' = [http EXCEPT !.at = l.at, !.canReuse = can]
    BY <1>2, Zenon DEF GoTo
  <2> QED BY <2>1, <2>2 DEF Shape, Members, SameMembers, HttpFields
<1> QED BY <1>1, <1>2

(* What the end of a head comes to *)
HeadEndsWithout == http' = http /\ \E code \in {-9, -7} : Return(code)
HeadEndsAnswered ==
  /\ call' = [call EXCEPT !.pc = "answered", !.result = http.code]
  /\ rx' = Tail(rx) /\ UNCHANGED <<http, link, flight, owed>>

LEMMA HeadEndsIs ==
  ASSUME HeadEnds
  PROVE  /\ Seen("head") /\ UNCHANGED <<jar, stale, used>>
         /\ HeadEndsWithout \/ (http.framing # "other" /\ (Redirect \/ HeadEndsAnswered))
<1>1. Seen("head") /\ UNCHANGED <<jar, stale, used>>
  BY DEF HeadEnds
<1>2. CASE http.framing = "other"
  BY <1>2 DEF HeadEnds, HeadEndsWithout
<1>3. CASE http.framing # "other" /\ http.code = 0
  BY <1>3 DEF HeadEnds, HeadEndsWithout
<1>4. CASE http.framing # "other" /\ http.code # 0
  BY <1>4, Zenon DEF HeadEnds, HeadEndsAnswered
<1> QED BY <1>1, <1>2, <1>3, <1>4

LEMMA HeadEndsQuiet == ASSUME Shape, HeadEnds, plan' = plan PROVE Quiet
<1>1. Seen("head") /\ UNCHANGED <<stale, used>>
  BY HeadEndsIs
<1>2. CASE HeadEndsWithout
  <2>1. Cut /\ DOMAIN call' = CallFields /\ DOMAIN http' = HttpFields
    BY <1>2, CutIs DEF Shape, HeadEndsWithout
  <2> QED BY <1>1, <2>1, CutQuiet
<1>3. CASE Redirect
  <2>1. /\ Cut \/ UNCHANGED <<link, flight, owed>>
        /\ DOMAIN http' = HttpFields
    BY <1>3, GoToIs DEF Redirect, SameMembers, Members
  <2>2. DOMAIN call' = CallFields
    BY <1>3 DEF Redirect, DropPayload, Shape
  <2> QED BY <1>1, <2>1, <2>2, CutQuiet
<1>4. CASE HeadEndsAnswered
  <2>1. DOMAIN call' = CallFields /\ DOMAIN http' = HttpFields /\ UNCHANGED <<link, flight, owed>>
    BY <1>4 DEF HeadEndsAnswered, Shape
  <2> QED BY <1>1, <2>1, CutQuiet
<1> QED BY <1>2, <1>3, <1>4, HeadEndsIs

LEMMA NoHeadQuiet == ASSUME Shape, NoHead, plan' = plan PROVE Quiet
<1>1. (\E code : Return(code)) /\ UNCHANGED <<stale, served, http, used>>
  BY Zenon DEF NoHead
<1> QED BY <1>1, Returned2 DEF Shape

LEMMA GetStringQuiet == ASSUME Shape, GetString, plan' = plan PROVE Quiet
<1>1. UNCHANGED <<http, stale, served>> /\ (used' = used \/ Fails)
  BY Zenon DEF GetString
<1>2. WriteToStream \/ Return(0)
  BY Zenon DEF GetString
<1>3. CASE \E code : Return(code)
  BY <1>1, <1>3, Returned2 DEF Shape
<1>4. CASE Keep /\ \E left : call' = [call EXCEPT !.pc = "chunk"] \/ call' = [call EXCEPT !.pc = "block", !.left = left]
  <2>1. DOMAIN call' = CallFields /\ DOMAIN http' = HttpFields /\ UNCHANGED <<link, flight, owed>>
    BY <1>1, <1>4 DEF Shape, Keep
  <2> QED BY <1>1, <2>1, CutQuiet
<1> QED BY <1>2, <1>3, <1>4, Zenon DEF WriteToStream

LEMMA ReadStreamQuiet == ASSUME Shape, ReadStream, plan' = plan PROVE Quiet
<1>1. DOMAIN call' = CallFields /\ DOMAIN http' = HttpFields
      /\ UNCHANGED <<link, flight, owed, stale, used, served>>
  BY DEF Shape, ReadStream
<1> QED BY <1>1, CutQuiet

LEMMA DoneIs ==
  ASSUME Shape, Done
  PROVE  /\ Cut /\ Seen("all") /\ DOMAIN call' = CallFields
         /\ call' = [call EXCEPT !.pc = "returned", !.result = Len(call.body)]
<1>1. Cut
  BY CutIs DEF Done
<1> QED BY <1>1 DEF Done, Shape

LEMMA ReadBlockQuiet == ASSUME Shape, ReadBlock, plan' = plan PROVE Quiet
<1>1. PICK n : call' = [call EXCEPT !.body = @ \o SubSeq(rx, 1, n),
                                    !.left = IF @ = -1 THEN -1 ELSE @ - n]
  BY Zenon DEF ReadBlock
<1>2. DOMAIN call' = CallFields /\ DOMAIN http' = HttpFields
      /\ UNCHANGED <<link, flight, owed, stale, used, served>>
  BY <1>1 DEF Shape, ReadBlock
<1> QED BY <1>2, CutQuiet

LEMMA BlockFailsQuiet == ASSUME Shape, BlockFails, plan' = plan PROVE Quiet
<1>1. Return(-10) /\ Fails /\ UNCHANGED <<stale, served, http>>
  BY Zenon DEF BlockFails
<1> QED BY <1>1, Returned2 DEF Shape

LEMMA BlockEndsQuiet == ASSUME Shape, BlockEnds, plan' = plan PROVE Quiet
<1>1. UNCHANGED <<http, stale, used>>
  BY DEF BlockEnds
<1>2. CASE Return(-10) /\ UNCHANGED served
  BY <1>1, <1>2, Returned2 DEF Shape
<1>3. CASE call' = [call EXCEPT !.pc = "trailer"] /\ Keep /\ UNCHANGED served
  <2>1. DOMAIN call' = CallFields /\ DOMAIN http' = HttpFields /\ UNCHANGED <<link, flight, owed>>
    BY <1>1, <1>3 DEF Shape, Keep
  <2> QED BY <1>1, <1>3, <2>1, CutQuiet
<1>4. CASE Done
  BY <1>1, <1>4, DoneIs, CutQuiet DEF Shape
<1> QED BY <1>2, <1>3, <1>4, Zenon DEF BlockEnds

LEMMA ReadChunkSizeQuiet == ASSUME Shape, ReadChunkSize, plan' = plan PROVE Quiet
<1>1. UNCHANGED <<stale, used>>
  BY DEF ReadChunkSize
<1>2. CASE \E n : /\ call' = [call EXCEPT !.pc = "block", !.left = n, !.total = @ + n]
                  /\ UNCHANGED <<link, flight, owed, http, served>>
  <2>1. DOMAIN call' = CallFields /\ DOMAIN http' = HttpFields /\ UNCHANGED <<link, flight, owed, served>>
    BY <1>2 DEF Shape
  <2> QED BY <1>1, <2>1, CutQuiet
<1>3. CASE \E size : LastChunk(size)
  <2>1. DOMAIN http' = HttpFields
    BY <1>3 DEF LastChunk, Shape
  <2>2. Done \/ (Return(-10) /\ UNCHANGED served)
    BY <1>3, Zenon DEF LastChunk
  <2>3. CASE Done
    BY <1>1, <2>1, <2>3, DoneIs, CutQuiet
  <2>4. CASE Return(-10) /\ UNCHANGED served
    BY <1>1, <2>1, <2>4, Returned2
  <2> QED BY <2>2, <2>3, <2>4
<1> QED BY <1>2, <1>3, Zenon DEF ReadChunkSize

LEMMA ReadTrailerQuiet == ASSUME Shape, ReadTrailer, plan' = plan PROVE Quiet
<1>1. UNCHANGED <<http, stale, used, served>>
  BY DEF ReadTrailer
<1>2. CASE rx[1].k = "blank"
  <2>1. DOMAIN call' = CallFields /\ DOMAIN http' = HttpFields /\ UNCHANGED <<link, flight, owed>>
    BY <1>1, <1>2 DEF Shape, ReadTrailer
  <2> QED BY <1>1, <2>1, CutQuiet
<1>3. CASE rx[1].k # "blank"
  BY <1>1, <1>3, Returned2 DEF ReadTrailer, Shape
<1> QED BY <1>2, <1>3

LEMMA NoChunkQuiet == ASSUME Shape, NoChunk, plan' = plan PROVE Quiet
<1>1. (\E code : Return(code)) /\ UNCHANGED <<stale, served, http, used>>
  BY Zenon DEF NoChunk
<1> QED BY <1>1, Returned2 DEF Shape

LEMMA CookieExpiresQuiet == ASSUME Shape, CookieExpires, plan' = plan PROVE Quiet
<1>1. UNCHANGED <<link, flight, owed, stale, served>> /\ DOMAIN call' = CallFields
      /\ DOMAIN http' = HttpFields /\ Fails
  BY DEF CookieExpires, Shape
<1> QED BY <1>1, CutQuiet

LEMMA QuietSteps ==
  ASSUME Shape, plan' = plan, Caller \/ CookieExpires \/ (Client /\ ~Send /\ ~StreamWrites)
  PROVE  Quiet
BY BeginQuiet, AskQuiet, EndQuiet, CannotSendQuiet, BufferQuiet, StreamFailsQuiet, StreamEndsQuiet,
   AwaitHeadQuiet, HeadLineQuiet, HeadEndsQuiet, NoHeadQuiet,
   GetStringQuiet, ReadStreamQuiet, ReadBlockQuiet, BlockFailsQuiet, BlockEndsQuiet,
   ReadChunkSizeQuiet, ReadTrailerQuiet, NoChunkQuiet, CookieExpiresQuiet, Zenon DEF Caller, Client

-----------------------------------------------------------------------------
(* The requests that were sent *)

(* All but the last are left as they are. *)
OthersServed == \A i \in 1..(Len(served) - 1) : served'[i] = served[i]

Replaced(t, s, n, x) ==
  /\ DOMAIN t = 1..n /\ Len(t) = n /\ IsArray(t, n)
  /\ \A i \in 1..n : t[i] = IF i = n THEN x ELSE s[i]

LEMMA ArrayIsSeq ==
  ASSUME NEW n \in Nat, NEW S, NEW t \in [1..n -> S]
  PROVE  t \in Seq(S) /\ Len(t) = n
OBVIOUS

LEMMA LastReplaced ==
  ASSUME NEW n \in Nat, NEW s, IsArray(s, n), NEW x, NEW t, t = [s EXCEPT ![n] = x]
  PROVE  Replaced(t, s, n, x)
<1> DEFINE e(i) == IF i = n THEN x ELSE s[i]
           S == {e(i) : i \in 1..n}
<1>1. t = [i \in 1..n |-> e(i)]
  BY DEF IsArray
<1>2. \A i \in 1..n : e(i) \in S
  OBVIOUS
<1> HIDE DEF e, S
<1>3. t \in [1..n -> S]
  BY <1>1, <1>2
<1>4. t \in Seq(S) /\ Len(t) = n
  BY <1>3, ArrayIsSeq, Zenon
<1> QED BY <1>1, <1>4 DEF e, Replaced, IsArray

LEMMA SeenIs ==
  ASSUME IsServed(served), NEW what, Seen(what)
  PROVE  /\ IsServed(served)' /\ Len(served') = Len(served) /\ OthersServed
         /\ Len(served) >= 1 => /\ served'[Len(served)].seen = what
                                /\ served'[Len(served)].reply = served[Len(served)].reply
<1> DEFINE n == Len(served)
           x == [served[n] EXCEPT !.seen = what]
<1>1. n \in Nat /\ IsArray(served, n)
      /\ \A i \in 1..n : {"seen", "reply"} \subseteq DOMAIN served[i]
  BY DEF IsServed
<1>2. served' = [served EXCEPT ![n] = x]
  BY DEF Seen
<1>3. n \in 1..n => x.seen = what /\ x.reply = served[n].reply /\ DOMAIN x = DOMAIN served[n]
  BY <1>1
<1> HIDE DEF n, x
<1>4. Replaced(served', served, n, x)
  BY <1>1, <1>2, LastReplaced, Zenon
<1>5. /\ DOMAIN served' = 1..n /\ Len(served') = n /\ IsArray(served', n)
      /\ \A i \in 1..n : served'[i] = IF i = n THEN x ELSE served[i]
  BY <1>4, Zenon DEF Replaced
<1>6. IsServed(served)'
  BY <1>1, <1>3, <1>5 DEF IsServed
<1>7. \A i \in 1..(n - 1) : served'[i] = served[i]
  BY <1>1, <1>5
<1>8. n >= 1 => n \in 1..n
  BY <1>1
<1> QED BY <1>3, <1>5, <1>6, <1>7, <1>8, Zenon DEF OthersServed, n

LEMMA ReplyServed ==
  ASSUME IsServed(served), NEW p, served' = [served EXCEPT ![Len(served)].reply = p]
  PROVE  /\ IsServed(served)' /\ Len(served') = Len(served) /\ OthersServed
         /\ Len(served) >= 1 => /\ served'[Len(served)].reply = p
                                /\ served'[Len(served)].seen = served[Len(served)].seen
<1> DEFINE n == Len(served)
           x == [served[n] EXCEPT !.reply = p]
<1>1. n \in Nat /\ IsArray(served, n)
      /\ \A i \in 1..n : {"seen", "reply"} \subseteq DOMAIN served[i]
  BY DEF IsServed
<1>2. served' = [served EXCEPT ![n] = x]
  OBVIOUS
<1>3. n \in 1..n => x.reply = p /\ x.seen = served[n].seen /\ DOMAIN x = DOMAIN served[n]
  BY <1>1
<1> HIDE DEF n, x
<1>4. Replaced(served', served, n, x)
  BY <1>1, <1>2, LastReplaced, Zenon
<1>5. /\ DOMAIN served' = 1..n /\ Len(served') = n /\ IsArray(served', n)
      /\ \A i \in 1..n : served'[i] = IF i = n THEN x ELSE served[i]
  BY <1>4, Zenon DEF Replaced
<1>6. IsServed(served)'
  BY <1>1, <1>3, <1>5 DEF IsServed
<1>7. \A i \in 1..(n - 1) : served'[i] = served[i]
  BY <1>1, <1>5
<1>8. n >= 1 => n \in 1..n
  BY <1>1
<1> QED BY <1>3, <1>5, <1>6, <1>7, <1>8, Zenon DEF OthersServed, n

LEMMA SentServed ==
  ASSUME IsServed(served), NEW x, {"seen", "reply"} \subseteq DOMAIN x, served' = Append(served, x)
  PROVE  /\ IsServed(served)' /\ Len(served') = Len(served) + 1
         /\ served'[Len(served) + 1] = x /\ \A i \in 1..Len(served) : served'[i] = served[i]
<1> DEFINE n == Len(served)
           S == {served[i] : i \in 1..n} \cup {x}
<1>1. n \in Nat /\ IsArray(served, n)
      /\ \A i \in 1..n : {"seen", "reply"} \subseteq DOMAIN served[i]
  BY DEF IsServed
<1>2. served \in Seq(S) /\ x \in S
  <2>1. \A i \in 1..n : served[i] \in S
    OBVIOUS
  <2> HIDE DEF n, S
  <2>2. served \in [1..n -> S]
    BY <1>1, <2>1 DEF IsArray
  <2>3. served \in Seq(S)
    BY <1>1, <2>2
  <2> QED BY <2>3 DEF S
<1> HIDE DEF n, S
<1>3. served' \in Seq(S) /\ Len(served') = n + 1 /\ served'[n + 1] = x
      /\ \A i \in 1..n : served'[i] = served[i]
  BY <1>2 DEF n
<1>4. IsArray(served', n + 1)
  BY <1>1, <1>3 DEF IsArray
<1>5. ASSUME NEW i \in 1..(n + 1) PROVE {"seen", "reply"} \subseteq DOMAIN served'[i]
  <2>1. i \in 1..n \/ i = n + 1
    BY <1>1
  <2> QED BY <1>1, <1>3, <2>1
<1> QED BY <1>1, <1>3, <1>4, <1>5 DEF IsServed, n

-----------------------------------------------------------------------------
(* The steps that are not quiet *)

SendsOn(h, x) ==
  /\ Members(h) /\ h.collected = IF call.stream THEN http.collected ELSE 0
  /\ {"seen", "reply"} \subseteq DOMAIN x /\ x.seen = "no"

LEMMA SendIs ==
  ASSUME Shape, Send
  PROVE  /\ \E x : SendsOn(http', x) /\ served' = Append(served, x)
         /\ call.pc = "request" /\ used' = used
         /\ call' = [call EXCEPT !.pc = IF call.stream THEN "stream" ELSE "sent", !.first = TRUE]
         /\ IF Connected
              THEN /\ link.open /\ rx' = <<>> /\ UNCHANGED <<link, flight>> /\ stale' = stale \cup Going
                   /\ ~ServerOpen => owed' = "none"
              ELSE /\ link' = [up |-> TRUE, at |-> http'.at, open |-> TRUE, mute |-> FALSE]
                   /\ rx' = <<>> /\ flight' = <<>> /\ stale' = stale
<1>1. PICK h, at : /\ h = Headed(http) /\ http' = h /\ served' = Append(served, Sent(h, at))
                   /\ owed' = IF Connected /\ ~ServerOpen THEN "none"
                              ELSE IF Announced(h.headers) > Sends THEN "more" ELSE "reply"
  BY Zenon DEF Send
<1>2. SendsOn(http', Sent(http', at))
  <2>1. Members(http)
    BY DEF Shape, Members
  <2>2. Members(Wiped(http)) /\ Wiped(http).collected = IF call.stream THEN http.collected ELSE 0
    BY <2>1 DEF Wiped, Members, HttpFields
  <2>3. Members(Made(Wiped(http))) /\ Made(Wiped(http)).collected = Wiped(http).collected
    BY <2>2 DEF Made, Members, HttpFields
  <2>4. Members(http') /\ http'.collected = IF call.stream THEN http.collected ELSE 0
    BY <1>1, <2>2, <2>3 DEF Headed, Members, HttpFields
  <2>5. {"seen", "reply"} \subseteq DOMAIN Sent(http', at) /\ Sent(http', at).seen = "no"
    BY DEF Sent
  <2> QED BY <2>4, <2>5 DEF SendsOn
<1>3. /\ call.pc = "request" /\ used' = used
      /\ call' = [call EXCEPT !.pc = IF call.stream THEN "stream" ELSE "sent", !.first = TRUE]
  BY DEF Send
<1>4. CASE Connected
  <2>1. link.open /\ rx' = <<>> /\ UNCHANGED <<link, flight>> /\ stale' = stale \cup Going
    BY <1>4, Zenon DEF Send, Drain, Going
  <2> QED BY <1>1, <1>2, <1>3, <1>4, <2>1
<1>5. CASE ~Connected
  <2>1. link' = [up |-> TRUE, at |-> http.at, open |-> TRUE, mute |-> FALSE]
        /\ rx' = <<>> /\ flight' = <<>> /\ stale' = stale
    BY <1>5, Zenon DEF Send
  <2>2. http'.at = http.at
    BY <1>1 DEF Headed, Made, Wiped, Shape, HttpFields
  <2> QED BY <1>1, <1>2, <1>3, <1>5, <2>1, <2>2
<1> QED BY <1>4, <1>5

(* A piece of a stream changes nothing but the count, and perhaps what the  *)
(* server awaits.                                                          *)
LEMMA StreamWritesIs ==
  ASSUME Shape, StreamWrites
  PROVE  /\ call.pc = "stream" /\ ~call.first /\ UNCHANGED <<link, rx, flight, http, jar, served, stale, used>>
         /\ owed' = owed \/ (owed = "more" /\ owed' = "reply")
         /\ DOMAIN call' = CallFields
         /\ \A o \in CallFields \ {"total", "left"} : call'[o] = call[o]
<1>1. PICK n, left : call' = [call EXCEPT !.total = @ + n, !.left = left]
  BY DEF StreamWrites
<1>2. DOMAIN call' = CallFields /\ \A o \in CallFields \ {"total", "left"} : call'[o] = call[o]
  BY <1>1 DEF Shape, CallFields
<1>3. owed' = owed \/ (owed = "more" /\ owed' = "reply")
  BY Zenon DEF StreamWrites
<1> QED BY <1>2, <1>3 DEF StreamWrites, Streaming

(* What the server sends *)
LEMMA ReplyIs ==
  ASSUME Shape, Reply, plan' = plan
  PROVE  \E p, c, s :
           /\ p \in Planned /\ c \in BOOLEAN /\ Pieces(s, p, Len(served), c, 0, Size(p))
           /\ flight' = flight \o (s \o (IF c THEN <<Fin>> ELSE <<>>))
           /\ served' = [served EXCEPT ![Len(served)].reply = p]
           /\ owed = "reply" /\ owed' = "none" /\ UNCHANGED <<link, rx, http, call, stale, used>>
<1>1. plan.replies \in Seq(Planned) /\ Len(served) \in DOMAIN plan.replies
  BY PlanAssumption DEF Shape, Reply
<1> DEFINE p == plan.replies[Len(served)]
           c == p.close \/ ~http.reuse
<1>2. p \in Planned /\ Len(served) \in Nat
  BY <1>1
<1>3. c \in BOOLEAN
  OBVIOUS
<1>4. flight' = flight \o Tokens(p, Len(served), c)
      /\ served' = [served EXCEPT ![Len(served)].reply = p]
      /\ owed = "reply" /\ owed' = "none" /\ UNCHANGED <<link, rx, http, call, stale, used>>
  BY Zenon DEF Reply
<1> HIDE DEF p, c
<1>5. PICK s : Pieces(s, p, Len(served), c, 0, Size(p))
               /\ Tokens(p, Len(served), c) = s \o (IF c THEN <<Fin>> ELSE <<>>)
  BY <1>2, <1>3, TokensAre, Zenon
<1> QED BY <1>2, <1>3, <1>4, <1>5, Zenon

LEMMA ArriveIs ==
  ASSUME Arrive
  PROVE  /\ \E n : Arrives(n) /\ link' = [link EXCEPT !.open = @ /\ flight[n].k # "fin"]
         /\ UNCHANGED <<owed, http, jar, call, served, stale, used>>
BY Zenon DEF Arrive, Arrives, Rest

LEMMA ServerFailsIs ==
  ASSUME ServerFails
  PROVE  /\ \A i \in DOMAIN flight : flight[i].k # "fin"
         /\ \E n \in 0..Len(flight) :
              /\ flight' \in {SubSeq(flight, 1, n), Append(SubSeq(flight, 1, n), Fin)}
              /\ link' = link \/ link' = [link EXCEPT !.mute = TRUE]
         /\ link.up /\ link.open /\ owed' = "none" /\ Fails
         /\ UNCHANGED <<rx, http, jar, call, served, stale>>
<1>1. \A i \in DOMAIN flight : flight[i].k # "fin"
  BY DEF ServerFails, ServerOpen
<1>2. \E n \in 0..Len(flight) :
              /\ flight' \in {SubSeq(flight, 1, n), Append(SubSeq(flight, 1, n), Fin)}
              /\ link' = link \/ link' = [link EXCEPT !.mute = TRUE]
  BY DEF ServerFails, Fin
<1> QED BY <1>1, <1>2 DEF ServerFails, ServerOpen

-----------------------------------------------------------------------------
(* The records keep their shape, and what is on its way its order. *)

(* What is on its way after a step was so before, or is of the last reply. *)
Orderly ==
  /\ flight' \in Seq(Token)
  /\ \A t \in Going' : t \in Going \/ (t.r = Len(served) /\ t.r \in Nat)

LEMMA ElementsOf ==
  ASSUME NEW s \in Seq(Token)
  PROVE  \A t : t \in ToSet(s) <=> \E i \in 1..Len(s) : t = s[i]
BY DEF ToSet

LEMMA QuietOrderly ==
  ASSUME Shape, Settled
  PROVE  Orderly
<1>1. flight' \in {flight, <<>>}
  BY DEF Settled, Stop
<1>2. flight \in Seq(Token) /\ <<>> \in Seq(Token)
  BY DEF Shape
<1>3. CASE flight' = flight
  BY <1>2, <1>3 DEF Orderly, Going
<1>4. CASE flight' = <<>>
  <2>1. ToSet(flight') = {}
    BY <1>4 DEF ToSet
  <2> QED BY <1>2, <1>4, <2>1 DEF Orderly, Going
<1> QED BY <1>1, <1>3, <1>4

LEMMA RestOf ==
  ASSUME NEW s \in Seq(Token), NEW n \in 1..Len(s)
  PROVE  /\ Rest(s, n) \in Seq(Token) /\ SubSeq(s, 1, n) \in Seq(Token)
         /\ ToSet(Rest(s, n)) \subseteq ToSet(s) /\ ToSet(SubSeq(s, 1, n)) \subseteq ToSet(s)
<1> DEFINE x == Rest(s, n)
           y == SubSeq(s, 1, n)
<1>1. x \in Seq(Token) /\ Len(x) = Len(s) - n /\ \A i \in 1..Len(x) : x[i] = s[n + i]
  BY DEF Rest
<1>2. y \in Seq(Token) /\ Len(y) = n /\ \A i \in 1..Len(y) : y[i] = s[i]
  OBVIOUS
<1> HIDE DEF x, y
<1>3. ASSUME NEW t \in ToSet(x) PROVE t \in ToSet(s)
  <2>1. PICK i \in 1..Len(x) : t = x[i]
    BY <1>1, ElementsOf
  <2>2. n + i \in 1..Len(s) /\ t = s[n + i]
    BY <1>1, <2>1
  <2> QED BY <2>2, ElementsOf
<1>4. ASSUME NEW t \in ToSet(y) PROVE t \in ToSet(s)
  <2>1. PICK i \in 1..Len(y) : t = y[i]
    BY <1>2, ElementsOf
  <2>2. i \in 1..Len(s) /\ t = s[i]
    BY <1>2, <2>1
  <2> QED BY <2>2, ElementsOf
<1> QED BY <1>1, <1>2, <1>3, <1>4 DEF x, y

LEMMA ArriveOrderly ==
  ASSUME Shape, Arrive
  PROVE  Orderly
<1>1. PICK n : Arrives(n)
  BY ArriveIs
<1>2. flight \in Seq(Token) /\ n \in 1..Len(flight) /\ flight' = Rest(flight, n)
  BY <1>1 DEF Shape, Arrives
<1>3. flight' \in Seq(Token) /\ ToSet(flight') \subseteq ToSet(flight)
  BY <1>2, RestOf, Zenon
<1> QED BY <1>3 DEF Orderly, Going

LEMMA ServerFailsOrderly ==
  ASSUME Shape, ServerFails
  PROVE  Orderly
<1>1. PICK n \in 0..Len(flight) :
         flight' \in {SubSeq(flight, 1, n), Append(SubSeq(flight, 1, n), Fin)}
  BY ServerFailsIs
<1> DEFINE x == SubSeq(flight, 1, n)
<1>2. flight \in Seq(Token)
  BY DEF Shape
<1>3. x \in Seq(Token) /\ Len(x) = n /\ \A i \in 1..n : x[i] = flight[i]
  BY <1>2
<1> HIDE DEF x
<1>4. flight' \in {x, Append(x, Fin)} /\ Fin \in Token /\ Fin.k = "fin"
  BY <1>1, FinIs DEF x
<1>5. flight' \in Seq(Token) /\ Len(flight') \in {n, n + 1}
      /\ \A i \in 1..Len(flight') : (i \in 1..n /\ flight'[i] = x[i]) \/ flight'[i] = Fin
  BY <1>3, <1>4
<1>6. ASSUME NEW t \in Going' PROVE t \in Going
  <2>1. t \in ToSet(flight') /\ t.k # "fin"
    BY <1>6 DEF Going
  <2>2. PICK i \in 1..Len(flight') : t = flight'[i]
    BY <1>5, <2>1, ElementsOf
  <2>3. i \in 1..n /\ t = flight[i]
    BY <1>3, <1>4, <1>5, <2>1, <2>2
  <2>4. i \in 1..Len(flight)
    BY <1>2, <2>3
  <2> QED BY <1>2, <2>1, <2>3, <2>4, ElementsOf DEF Going
<1> QED BY <1>5, <1>6 DEF Orderly

LEMMA SendOrderly ==
  ASSUME Shape, Send
  PROVE  Orderly
<1>1. flight' \in {flight, <<>>}
  BY SendIs
<1>2. flight \in Seq(Token) /\ <<>> \in Seq(Token)
  BY DEF Shape
<1>3. CASE flight' = flight
  BY <1>2, <1>3 DEF Orderly, Going
<1>4. CASE flight' = <<>>
  <2>1. ToSet(flight') = {}
    BY <1>4 DEF ToSet
  <2> QED BY <1>2, <1>4, <2>1 DEF Orderly, Going
<1> QED BY <1>1, <1>3, <1>4

LEMMA ReplyOrderly ==
  ASSUME Shape, Reply, plan' = plan
  PROVE  Orderly
<1>1. PICK p, c, s :
           /\ p \in Planned /\ c \in BOOLEAN /\ Pieces(s, p, Len(served), c, 0, Size(p))
           /\ flight' = flight \o (s \o (IF c THEN <<Fin>> ELSE <<>>))
  BY ReplyIs
<1> DEFINE e == IF c THEN <<Fin>> ELSE <<>>
           z == s \o e
<1>2. flight \in Seq(Token) /\ s \in Seq(Token) /\ Len(s) = Size(p) /\ Fin.k = "fin"
      /\ Len(served) \in Nat /\ Size(p) \in Nat
  BY <1>1, SizeIsNat, FinIs DEF Shape, Pieces, IsServed
<1>3. e \in Seq(Token) /\ \A i \in 1..Len(e) : e[i] = Fin
  BY FinIs
<1>4. \A i \in 1..Len(s) : s[i].r = Len(served)
  <2> SUFFICES ASSUME NEW i \in 1..Len(s) PROVE s[i].r = Len(served)
    OBVIOUS
  <2>1. s[i] = Tok(p, Len(served), c, i) /\ i \in Nat /\ Len(served) \in Nat
    BY <1>1, <1>2 DEF Pieces
  <2>2. Tok(p, Len(served), c, i).r = Len(served)
    BY <1>1, <2>1, TokenIs
  <2> QED BY <2>1, <2>2
<1> HIDE DEF e
<1>5. z \in Seq(Token) /\ \A i \in 1..Len(z) : z[i] = Fin \/ z[i].r = Len(served)
  BY <1>2, <1>3, <1>4
<1> HIDE DEF z
<1>6. flight' = flight \o z
  BY <1>1 DEF z, e
<1>7. flight' \in Seq(Token) /\ Len(flight') = Len(flight) + Len(z)
      /\ \A i \in 1..Len(flight') : \/ i \in 1..Len(flight) /\ flight'[i] = flight[i]
                                    \/ \E j \in 1..Len(z) : flight'[i] = z[j]
  BY <1>2, <1>5, <1>6
<1>8. ASSUME NEW t \in Going' PROVE t \in Going \/ t.r = Len(served)
  <2>1. t \in ToSet(flight') /\ t.k # "fin"
    BY <1>8 DEF Going
  <2>2. PICK i \in 1..Len(flight') : t = flight'[i]
    BY <1>7, <2>1, ElementsOf
  <2>3. CASE i \in 1..Len(flight) /\ flight'[i] = flight[i]
    BY <1>2, <2>1, <2>2, <2>3, ElementsOf DEF Going
  <2>4. CASE \E j \in 1..Len(z) : flight'[i] = z[j]
    BY <1>2, <1>5, <2>1, <2>2, <2>4
  <2> QED BY <1>7, <2>3, <2>4
<1> QED BY <1>2, <1>7, <1>8 DEF Orderly

LEMMA StepOrderly ==
  ASSUME Shape, Next
  PROVE  Orderly /\ Framed /\ IsServed(served)'
<1>1. plan' = plan
  BY DEF Next
<1>7. CASE StreamWrites
  <2>1. UNCHANGED <<link, rx, flight, http, served, used>> /\ DOMAIN call' = CallFields
    BY <1>7, StreamWritesIs
  <2>2. Framed
    BY <1>1, <2>1 DEF Framed, Shape
  <2>3. Orderly
    BY <2>1 DEF Orderly, Going, Shape
  <2> QED BY <2>1, <2>2, <2>3 DEF Shape, IsServed, IsArray
<1>2. CASE Caller \/ CookieExpires \/ (Client /\ ~Send /\ ~StreamWrites)
  <2>1. Quiet
    BY <1>1, <1>2, QuietSteps
  <2>2. IsServed(served)'
    BY <2>1, SeenIs DEF Quiet, Shape, IsServed, IsArray
  <2> QED BY <2>1, <2>2, QuietOrderly DEF Quiet
<1>3. CASE Send
  <2>1. Framed
    BY <1>1, <1>3, SendIs DEF Framed, Shape, SendsOn, Members
  <2>2. IsServed(served)'
    BY <1>3, SendIs, SentServed DEF Shape, SendsOn
  <2> QED BY <1>3, <2>1, <2>2, SendOrderly
<1>4. CASE Reply
  <2>1. UNCHANGED <<link, rx, http, call, stale, used>>
    BY <1>1, <1>4, ReplyIs
  <2>2. Framed
    BY <1>1, <2>1 DEF Framed, Shape
  <2>3. IsServed(served)'
    BY <1>1, <1>4, ReplyIs, ReplyServed DEF Shape
  <2> QED BY <1>1, <1>4, <2>2, <2>3, ReplyOrderly
<1>5. CASE ServerFails
  <2>1. Framed
    BY <1>1, <1>5, ServerFailsIs DEF Framed, Shape, Fails
  <2>2. IsServed(served)'
    BY <1>5, ServerFailsIs DEF Shape, IsServed, IsArray
  <2> QED BY <1>5, <2>1, <2>2, ServerFailsOrderly
<1>6. CASE Arrive
  <2>1. Framed
    BY <1>1, <1>6, ArriveIs DEF Framed, Shape
  <2>2. IsServed(served)'
    BY <1>6, ArriveIs DEF Shape, IsServed, IsArray
  <2> QED BY <1>6, <2>1, <2>2, ArriveOrderly
<1> QED BY <1>2, <1>3, <1>4, <1>5, <1>6, <1>7 DEF Next, Client

LEMMA ShapeKept == ASSUME Shape, Next PROVE Shape'
BY StepOrderly DEF Shape, Framed, Orderly

(* The requests before the last one are closed: they are as they were. *)
LEMMA OthersStay ==
  ASSUME Shape, Next
  PROVE  /\ Len(served) \in Nat /\ Len(served') \in Nat /\ Len(served') >= Len(served) /\ OthersServed
         /\ stale' = stale \/ stale' = stale \cup Going
<1>1. plan' = plan /\ IsServed(served) /\ Len(served) \in Nat
  BY DEF Next, Shape, IsServed
<1>2. UNCHANGED served => Len(served') = Len(served) /\ OthersServed
  BY DEF OthersServed
<1>8. CASE StreamWrites
  BY <1>1, <1>2, <1>8, StreamWritesIs
<1>3. CASE Caller \/ CookieExpires \/ (Client /\ ~Send /\ ~StreamWrites)
  BY <1>1, <1>2, <1>3, QuietSteps, SeenIs DEF Quiet
<1>4. CASE Send
  <2>1. Len(served') = Len(served) + 1 /\ OthersServed
    BY <1>1, <1>4, SendIs, SentServed DEF SendsOn, OthersServed
  <2>2. stale' = stale \/ stale' = stale \cup Going
    BY <1>4, SendIs
  <2> QED BY <1>1, <2>1, <2>2
<1>5. CASE Reply
  <2>1. PICK p : stale' = stale /\ served' = [served EXCEPT ![Len(served)].reply = p]
    BY <1>1, <1>5, ReplyIs
  <2>2. Len(served') = Len(served) /\ OthersServed
    BY <1>1, <2>1, ReplyServed, Zenon
  <2> QED BY <1>1, <2>1, <2>2
<1>6. CASE ServerFails
  BY <1>1, <1>2, <1>6, ServerFailsIs
<1>7. CASE Arrive
  BY <1>1, <1>2, <1>7, ArriveIs
<1> QED BY <1>3, <1>4, <1>5, <1>6, <1>7, <1>8 DEF Next, Client

LEMMA MixedKept ==
  ASSUME Shape, Next, NEW s, Mixed(s)
  PROVE  Mixed(s)'
<1>1. s \in 1..(Len(served') - 1) /\ served'[s] = served[s] /\ s < Len(served) /\ s \in Nat
  BY OthersStay DEF Mixed, OthersServed
<1>2. \A t \in stale' \cup Going' : t \in stale \cup Going \/ (t.r = Len(served) /\ t.r \in Nat)
  BY OthersStay, StepOrderly DEF Orderly
<1>3. \E t \in stale' : t.r = s
  BY OthersStay DEF Mixed
<1>4. \A t \in stale' \cup Going' :
        /\ t.r \in Nat /\ s <= t.r
        /\ t.r = s /\ served'[s].seen = "all" =>
             t.k = "blank" /\ served'[s].reply.framing = "chunked"
  <2> SUFFICES ASSUME NEW t \in stale' \cup Going'
               PROVE  /\ t.r \in Nat /\ s <= t.r
                      /\ t.r = s /\ served'[s].seen = "all" =>
                           t.k = "blank" /\ served'[s].reply.framing = "chunked"
    OBVIOUS
  <2>1. CASE t \in stale \cup Going
    BY <1>1, <2>1 DEF Mixed
  <2>2. CASE t.r = Len(served) /\ t.r \in Nat
    BY <1>1, <2>2
  <2> QED BY <1>2, <2>1, <2>2
<1> QED BY <1>1, <1>3, <1>4 DEF Mixed, Going

-----------------------------------------------------------------------------
(* A call that rests: whatever is left of its reply is not looked at again. *)

LEMMA StageBehind ==
  ASSUME NEW p, NEW r, NEW d, NEW m, NEW j, Stage(p, r, d, m, j)
  PROVE  Behind(p, r, m, j)
BY DEF Stage, Behind

LEMMA LinkQuiet ==
  ASSUME LinkFits, Settled, rx' \in {rx, <<>>} \/ rx # <<>>
  PROVE  LinkFits'
BY DEF LinkFits, Settled, Stop, Down

RepliesStay ==
  /\ Len(served') = Len(served)
  /\ Len(served) >= 1 =>
       /\ served'[Len(served)].reply = served[Len(served)].reply
       /\ served'[Len(served)].seen \in {served[Len(served)].seen, "no", "head"}

Rests ==
  /\ Cut \/ (rx # <<>> /\ rx' = Tail(rx) /\ UNCHANGED <<link, flight, owed>>)
  /\ RepliesStay /\ used'.faults \in Nat /\ used.faults <= used'.faults
  /\ call'.pc \in {"idle", "begun", "request", "returned"}
  /\ call'.pc = "returned" => call'.result \in Int /\ call'.result < 0
  /\ call'.pc # "returned" => FreshCall'
  /\ http'.collected \in 0..Len(served)

LEMMA ServedLength ==
  ASSUME Shape
  PROVE  /\ Len(served) \in Nat /\ (served # <<>> <=> Len(served) >= 1) /\ used.faults \in Nat
         /\ served = [i \in 1..Len(served) |-> served[i]]
<1>1. Len(served) \in Nat /\ served = [i \in 1..Len(served) |-> served[i]] /\ used.faults \in Nat
  BY DEF Shape, IsServed, IsArray
<1>2. Len(served) = 0 => served = <<>>
  BY <1>1
<1>3. Len(<<>>) = 0
  OBVIOUS
<1> QED BY <1>1, <1>2, <1>3

LEMMA UnansweredRests ==
  ASSUME Shape, Shape', LinkFits, Unanswered, Rests
  PROVE  Unanswered'
<1>1. Cut
  BY DEF Rests, Unanswered
<1>2. rx' = <<>> /\ flight' \in {<<>>, <<Fin>>} /\ (owed' # "none" => flight' = <<>> /\ served # <<>>)
  BY <1>1 DEF Cut, Settled, Stop, Unanswered
<1>3. (served' # <<>> <=> served # <<>>) /\ Len(served') = Len(served) /\ Len(served) \in Nat
      /\ (served # <<>> <=> Len(served) >= 1)
  BY ServedLength DEF Rests, RepliesStay, Shape, IsServed, IsArray
<1>4. served' # <<>> => served'[Len(served')].seen # "all"
  BY <1>3 DEF Rests, RepliesStay, Unanswered
<1>5. /\ call'.pc \in {"idle", "begun", "request", "returned"}
      /\ call'.pc = "returned" => call'.result \in Int /\ call'.result < 0
      /\ call'.pc # "returned" => FreshCall'
  BY DEF Rests
<1> QED BY <1>2, <1>3, <1>4, <1>5 DEF Unanswered

LEMMA AnsweredRests ==
  ASSUME Shape, Rests, NEW p, NEW c, NEW d, NEW m, NEW j, Answered(p, c, d, m, j)
  PROVE  \E d2, m2, j2 : Answered(p, c, d2, m2, j2)'
<1>0. PICK r : r = Len(served)
  OBVIOUS
<1>1. /\ r \in Nat /\ r >= 1 /\ p = served[r].reply /\ p \in Planned /\ c \in BOOLEAN
      /\ owed = "none" /\ Under(p, r, c, d, m, j) /\ Behind(p, r, m, j)
  BY <1>0, ServedLength, StageBehind DEF Answered
<1>2. Len(served') = r /\ p = served'[r].reply /\ (served'[r].seen = "all" => served[r].seen = "all")
  BY <1>0, <1>1 DEF Rests, RepliesStay
<1>3. ASSUME NEW d2, NEW m2, NEW j2, Under(p, r, c, d2, m2, j2)', Behind(p, r, m2, j2), owed' = "none"
      PROVE  Answered(p, c, d2, m2, j2)'
  <2>1. Behind(p, r, m2, j2)'
    BY <1>2, <1>3 DEF Behind
  <2>2. call'.pc = "returned" => IsReturned(p, r)'
    BY DEF Rests, IsReturned
  <2>3. Stage(p, r, d2, m2, j2)'
    BY <2>1, <2>2 DEF Rests, Stage
  <2> QED BY <1>1, <1>2, <1>3, <2>3 DEF Answered
<1>4. CASE Stop
  <2>1. Under(p, r, c, m, m, m)' /\ owed' = "none"
    BY <1>1, <1>4, UnderDrops DEF Stop
  <2>2. Behind(p, r, m, m)
    BY DEF Behind
  <2> QED BY <1>3, <2>1, <2>2
<1>5. CASE UNCHANGED <<link, flight, owed>> /\ rx' = <<>>
  <2>1. Under(p, r, c, m, m, j)' /\ owed' = "none"
    BY <1>1, <1>5, UnderDrops
  <2> QED BY <1>1, <1>3, <2>1
<1>6. CASE UNCHANGED <<link, flight, owed>> /\ rx' = rx
  <2>1. Under(p, r, c, d, m, j)' /\ owed' = "none"
    BY <1>1, <1>6, UnderStays
  <2> QED BY <1>1, <1>3, <2>1
<1>7. CASE rx # <<>> /\ rx' = Tail(rx) /\ UNCHANGED <<link, flight, owed>>
  <2>1. rx \in Seq(Token) /\ Len(rx) = m - d /\ m - d \in Nat
    BY <1>1 DEF Under, Pieces
  <2>2. 1 \in 0..(m - d)
    BY <1>7, <2>1
  <2>3. rx' = Rest(rx, 1)
    BY <1>7, <2>1, TailIsRest
  <2>4. Under(p, r, c, d + 1, m, j)' /\ owed' = "none"
    BY <1>1, <1>7, <2>2, <2>3, UnderReads
  <2> QED BY <1>1, <1>3, <2>4
<1> QED BY <1>4, <1>5, <1>6, <1>7 DEF Rests, Cut, Settled

LEMMA RestsApart ==
  ASSUME Shape, Shape', Apart, Rests
  PROVE  Apart'
<1>1. LinkFits'
  BY LinkQuiet DEF Apart, Rests, Cut, Settled
<1>2. http'.collected \in 0..Len(served')
  BY DEF Rests, RepliesStay
<1>3. CASE Unanswered
  BY <1>1, <1>2, <1>3, UnansweredRests DEF Apart
<1>4. CASE \E p, c, d, m, j : Answered(p, c, d, m, j)
  BY <1>1, <1>2, <1>4, AnsweredRests DEF Apart
<1> QED BY <1>3, <1>4 DEF Apart

LEMMA RepliesSame ==
  ASSUME Shape, served' = served \/ (\E what \in {"no", "head"} : Seen(what))
  PROVE  RepliesStay
<1>1. CASE served' = served
  BY <1>1 DEF RepliesStay
<1>2. ASSUME NEW what \in {"no", "head"}, Seen(what) PROVE RepliesStay
  BY <1>2, SeenIs DEF RepliesStay, Shape
<1> QED BY <1>1, <1>2

LEMMA CallIsFresh ==
  ASSUME Apart, call.pc \in {"idle", "begun", "request", "head", "answered"}
  PROVE  FreshCall
BY DEF Apart, Unanswered, HeadBegins, Answered, Stage, Sending, InHead, IsAnswered, InBody, InPlainBody, InChunkedBody

LEMMA ReturnRests ==
  ASSUME Shape, Apart, NEW code \in Int, code < 0, Return(code), UNCHANGED <<served, stale>>, plan' = plan,
         used' = used \/ Fails, http'.collected \in 0..Len(served), DOMAIN http' = HttpFields
  PROVE  Rests
<1>1. Cut /\ call' = [call EXCEPT !.pc = "returned", !.result = code]
  BY CutIs
<1>2. call'.pc = "returned" /\ call'.result = code
  BY <1>1 DEF Shape, CallFields
<1>3. used'.faults \in Nat /\ used.faults <= used'.faults
  BY DEF Shape, Fails
<1>4. RepliesStay
  BY RepliesSame
<1> QED BY <1>1, <1>2, <1>3, <1>4 DEF Rests

LEMMA CollectedSame ==
  ASSUME Apart, http' = http \/ SameMembers(http', http)
  PROVE  http'.collected \in 0..Len(served)
BY DEF Apart, SameMembers

LEMMA BeginRests == ASSUME Shape, Apart, Begin, plan' = plan PROVE Rests
<1>1. SameMembers(http', http) /\ (Stop \/ Keep) /\ call' = [Idle EXCEPT !.pc = "begun"]
      /\ UNCHANGED <<served, stale, used>>
  BY BeginIs
<1>2. Cut
  BY <1>1, CutIs
<1>3. call'.pc = "begun" /\ FreshCall'
  BY <1>1 DEF Idle, FreshCall
<1>4. RepliesStay /\ http'.collected \in 0..Len(served)
  BY <1>1, RepliesSame, CollectedSame
<1> QED BY <1>1, <1>2, <1>3, <1>4 DEF Rests, Shape

LEMMA AskRests == ASSUME Shape, Apart, Ask, plan' = plan PROVE Rests
<1>1. PICK q : call' = [call EXCEPT !.pc = "request", !.type = q.type,
                               !.payload = q.payload, !.stream = q.stream]
               /\ http' = [SetReuse(http, q.reuse) EXCEPT !.headers =
                     IF q.header = "none" THEN @
                     ELSE AddHeader(@, "x-cookie", used.calls + 1, q.header = "replace")]
  BY Zenon DEF Ask
<1>2. SameMembers(http', http)
  BY <1>1 DEF SetReuse, SameMembers, Members, Shape, HttpFields
<1>3. call.pc = "begun" /\ used' = [used EXCEPT !.calls = @ + 1] /\ UNCHANGED <<link, rx, flight, owed, served>>
  BY DEF Ask
<1>4. FreshCall
  BY <1>3, CallIsFresh
<1>5. call'.pc = "request" /\ FreshCall'
  BY <1>1, <1>4 DEF FreshCall, Shape, CallFields
<1>6. Cut /\ used'.faults = used.faults
  BY <1>3, CutIs DEF Shape, Keep
<1>7. RepliesStay /\ http'.collected \in 0..Len(served)
  BY <1>2, <1>3, RepliesSame, CollectedSame
<1> QED BY <1>5, <1>6, <1>7 DEF Rests, Shape

LEMMA EndRests == ASSUME Shape, Apart, End, plan' = plan PROVE Rests
<1>1. Cut
  BY CutIs DEF End
<1>2. http' = Ended(http) /\ call' = Idle /\ UNCHANGED <<served, used>>
  BY DEF End
<1>3. SameMembers(http', http) /\ call'.pc = "idle" /\ FreshCall'
  BY <1>2, MembersKept DEF Shape, Members, Idle, FreshCall
<1>4. RepliesStay /\ http'.collected \in 0..Len(served)
  BY <1>2, <1>3, RepliesSame, CollectedSame
<1> QED BY <1>1, <1>2, <1>3, <1>4 DEF Rests, Shape

LEMMA CannotSendRests == ASSUME Shape, Apart, CannotSend, plan' = plan PROVE Rests
<1>1. DOMAIN http' = HttpFields /\ http'.collected \in 0..Len(served)
  BY CannotSendIs, ServedLength DEF Apart
<1> QED BY <1>1, CannotSendIs, ReturnRests

LEMMA BufferRests == ASSUME Shape, Apart, Buffer, plan' = plan, Return(-8) PROVE Rests
<1>1. UNCHANGED <<http, stale, served>> /\ (used' = used \/ Fails)
  BY DEF Buffer
<1> QED BY <1>1, ReturnRests, CollectedSame DEF Shape

LEMMA StreamFailsRests == ASSUME Shape, Apart, StreamFails, plan' = plan PROVE Rests
<1>1. Return(-3) /\ UNCHANGED <<http, stale, served>> /\ (used' = used \/ Fails)
  BY Zenon DEF StreamFails
<1> QED BY <1>1, ReturnRests, CollectedSame DEF Shape

LEMMA StreamEndsRests == ASSUME Shape, Apart, StreamEnds, plan' = plan, Return(-3) PROVE Rests
BY StreamEndsIs, ReturnRests, CollectedSame DEF Shape

LEMMA AwaitHeadRests == ASSUME Shape, Apart, AwaitHead, plan' = plan, Return(-4), UNCHANGED http PROVE Rests
BY AwaitHeadIs, ReturnRests, CollectedSame DEF Shape

LEMMA NoHeadRests == ASSUME Shape, Apart, NoHead, plan' = plan PROVE Rests
<1>1. (\E code \in {-11, -5} : Return(code)) /\ UNCHANGED <<stale, served, http, used>>
  BY Zenon DEF NoHead
<1> QED BY <1>1, ReturnRests, CollectedSame DEF Shape

LEMMA NoChunkRests == ASSUME Shape, Apart, NoChunk, plan' = plan PROVE Rests
<1>1. (\E code \in {-11, -5} : Return(code)) /\ UNCHANGED <<stale, served, http, used>>
  BY Zenon DEF NoChunk
<1> QED BY <1>1, ReturnRests, CollectedSame DEF Shape

LEMMA BlockFailsRests == ASSUME Shape, Apart, BlockFails, plan' = plan PROVE Rests
<1>1. Return(-10) /\ Fails /\ UNCHANGED <<stale, served, http>>
  BY Zenon DEF BlockFails
<1> QED BY <1>1, ReturnRests, CollectedSame DEF Shape

LEMMA HeadEndsRests ==
  ASSUME Shape, Apart, HeadEnds, plan' = plan, ~HeadEndsAnswered
  PROVE  Rests
<1>1. Seen("head") /\ UNCHANGED <<stale, used>> /\ call.pc = "head" /\ rx # <<>>
      /\ (HeadEndsWithout \/ Redirect)
  BY HeadEndsIs DEF HeadEnds
<1>2. RepliesStay
  BY <1>1, RepliesSame
<1>3. CASE HeadEndsWithout
  <2>1. PICK code \in {-9, -7} : Return(code)
    BY <1>3 DEF HeadEndsWithout
  <2>2. Cut /\ call' = [call EXCEPT !.pc = "returned", !.result = code]
    BY <2>1, CutIs
  <2>3. call'.pc = "returned" /\ call'.result \in Int /\ call'.result < 0
    BY <2>1, <2>2 DEF Shape, CallFields
  <2>4. http'.collected \in 0..Len(served)
    BY <1>3, CollectedSame DEF HeadEndsWithout
  <2> QED BY <1>1, <1>2, <2>2, <2>3, <2>4 DEF Rests, Shape
<1>4. CASE Redirect
  <2>1. /\ Cut \/ (rx' = Tail(rx) /\ UNCHANGED <<link, flight, owed>>)
        /\ SameMembers(http', http)
    BY <1>4, GoToIs DEF Redirect
  <2>2. FreshCall
    BY <1>1, CallIsFresh
  <2>3. call'.pc = "request" /\ FreshCall'
    BY <1>4, <2>2 DEF Redirect, DropPayload, FreshCall, Shape, CallFields
  <2>4. http'.collected \in 0..Len(served)
    BY <2>1, CollectedSame
  <2> QED BY <1>1, <1>2, <2>1, <2>3, <2>4 DEF Rests, Shape
<1> QED BY <1>1, <1>3, <1>4

-----------------------------------------------------------------------------
(* A call that reads its reply *)

Reading(p, r, c, d, m, j) ==
  /\ r = Len(served) /\ r \in Nat /\ r >= 1 /\ p = served[r].reply /\ p \in Planned /\ c \in BOOLEAN
  /\ owed = "none" /\ Under(p, r, c, d, m, j)
  /\ served[r].seen # "all" /\ (j = Size(p) \/ used.faults > 0)

LEMMA ReadingIs ==
  ASSUME Shape, Apart, call.pc \in {"head", "answered", "block", "chunk", "trailer"},
         call.pc = "head" => rx # <<>>
  PROVE  \E p, r, c, d, m, j : /\ Reading(p, r, c, d, m, j)
                               /\ InHead(p, r, d) \/ IsAnswered(p, r, d) \/ InBody(p, r, d)
<1>1. PICK p, c, d, m, j : Answered(p, c, d, m, j)
  BY DEF Apart, Unanswered
<1>2. PICK r : r = Len(served)
  OBVIOUS
<1>3. /\ r \in Nat /\ r >= 1 /\ p = served[r].reply /\ p \in Planned /\ c \in BOOLEAN
      /\ owed = "none" /\ Under(p, r, c, d, m, j) /\ Stage(p, r, d, m, j)
  BY <1>1, <1>2, ServedLength DEF Answered
<1>4. /\ served[r].seen # "all" /\ (j = Size(p) \/ used.faults > 0)
      /\ InHead(p, r, d) \/ IsAnswered(p, r, d) \/ InBody(p, r, d)
  BY <1>3 DEF Stage, Sending
<1> QED BY <1>2, <1>3, <1>4 DEF Reading

(* What has arrived, as pieces of the reply *)
LEMMA RxIs ==
  ASSUME NEW p, NEW r, NEW c, NEW d, NEW m, NEW j, Reading(p, r, c, d, m, j)
  PROVE  /\ rx \in Seq(Token) /\ Len(rx) = m - d /\ d \in Nat /\ m \in Nat /\ d <= m /\ j \in Nat /\ m <= j
         /\ j <= Size(p)
         /\ \A i \in 1..(m - d) : rx[i] = Tok(p, r, c, d + i)
         /\ rx # <<>> => d < m /\ rx[1] = Tok(p, r, c, d + 1) /\ Tail(rx) = Rest(rx, 1)
<1>1. /\ rx \in Seq(Token) /\ Len(rx) = m - d /\ d \in Nat /\ m \in Nat /\ d <= m /\ j \in Nat /\ m <= j
      /\ j <= Size(p)
      /\ \A i \in 1..(m - d) : rx[i] = Tok(p, r, c, d + i)
  BY DEF Reading, Under, Pieces
<1>2. ASSUME rx # <<>> PROVE d < m /\ rx[1] = Tok(p, r, c, d + 1) /\ Tail(rx) = Rest(rx, 1)
  <2>1. Len(rx) # 0
    BY <1>1, <1>2
  <2>2. 1 \in 1..(m - d)
    BY <1>1, <2>1
  <2>3. Tail(rx) = Rest(rx, 1)
    BY <1>1, <1>2, TailIsRest
  <2> QED BY <1>1, <2>2, <2>3
<1> QED BY <1>1, <1>2

LEMMA ReadsOn ==
  ASSUME Shape, Apart, NEW p, NEW r, NEW c, NEW d, NEW m, NEW j, Reading(p, r, c, d, m, j),
         UNCHANGED <<link, flight, owed, used>>, rx' = rx \/ rx # <<>>,
         served' = served \/ (\E what \in {"no", "head"} : Seen(what)),
         NEW e, Under(p, r, c, e, m, j)', http'.collected \in 0..Len(served),
         InHead(p, r, e)' \/ IsAnswered(p, r, e)' \/ InBody(p, r, e)'
  PROVE  Apart'
<1>1. LinkFits'
  BY LinkQuiet DEF Apart, Settled
<1>2. Len(served') = r /\ p = served'[r].reply /\ served'[r].seen # "all"
  BY RepliesSame DEF RepliesStay, Reading
<1>3. Stage(p, r, e, m, j)'
  BY <1>2 DEF Stage, Reading
<1>4. Answered(p, c, e, m, j)'
  BY <1>2, <1>3 DEF Answered, Reading
<1> QED BY <1>1, <1>2, <1>4 DEF Apart, Reading

(* The call ends with a result of its own. *)
LEMMA ReadsLast ==
  ASSUME Shape, Apart, NEW p, NEW r, NEW c, NEW d, NEW m, NEW j, Reading(p, r, c, d, m, j),
         Settled, rx' \in {rx, <<>>} \/ rx # <<>>,
         IsServed(served)', Len(served') = Len(served), served'[Len(served)].reply = served[Len(served)].reply,
         NEW e, NEW x, NEW y, Under(p, r, c, e, x, y)', http'.collected \in 0..Len(served),
         call'.pc = "returned", IsReturned(p, r)', Behind(p, r, x, y)'
  PROVE  Apart'
<1>1. LinkFits' /\ owed' = "none"
  BY LinkQuiet DEF Apart, Settled, Reading, Stop
<1>2. Len(served') = r /\ p = served'[r].reply
  BY DEF Reading
<1>3. Stage(p, r, e, x, y)'
  BY DEF Stage
<1>4. Answered(p, c, e, x, y)'
  BY <1>1, <1>2, <1>3 DEF Answered, Reading
<1> QED BY <1>1, <1>2, <1>4 DEF Apart, Reading

(* A line that has arrived is read for itself. *)
LEMMA ALine ==
  ASSUME rx \in Seq(Token), rx # <<>>, IsLine(rx[1])
  PROVE  LineEnds # {} /\ LineLength = 1 /\ Text(LineLength) = [text |-> FALSE, last |-> rx[1]]
<1>1. 1 \in LineEnds /\ \A i \in LineEnds : i \in Nat /\ 1 <= i
  BY DEF LineEnds
<1>2. Min(LineEnds) = 1
  BY <1>1 DEF Min
<1>3. LineLength = 1
  BY <1>1, <1>2 DEF LineLength
<1>4. Text(1) = [text |-> FALSE, last |-> rx[1]]
  <2>1. ~(1 > 1)
    OBVIOUS
  <2>2. (1 > 1 \/ ~IsLine(rx[1])) = FALSE
    BY <2>1, Zenon
  <2> QED BY <2>2, Zenon DEF Text
<1> QED BY <1>1, <1>3, <1>4

(* The fields tell where to go on to and set the cookie of the host. *)
LEMMA FieldsTell ==
  ASSUME Shape, NEW p \in Planned, NEW r \in Nat, NEW c, rx[1] = FieldLines(p, r, c), ~call.first,
         NEW told, told = [text |-> FALSE, last |-> rx[1]], http' = Field(told, http),
         IF ~call.first /\ told.last.k = "fields" /\ told.last.cookie # NoCookie
           THEN SetCookie(told.last.cookie, http.at.host)
           ELSE UNCHANGED jar
  PROVE  HeadTold(p, r)' /\ http'.at = http.at
<1>1. /\ told.last.k = "fields" /\ told.last.location = p.location
      /\ told.last.cookie = IF p.age = "none" THEN NoCookie ELSE [value |-> r, domain |-> p.domain, age |-> p.age]
  BY DEF FieldLines
<1>2. http'.at = http.at /\ (p.location.kind # "none" => http'.location = p.location)
  BY <1>1 DEF Field, Shape, HttpFields
<1>3. ASSUME p.age # "none", Accepted(p.domain, http.at.host)
      PROVE  \A o \in jar' : o.domain = Domain(p.domain, http.at.host) => o.value = r
  <2>1. told.last.cookie = [value |-> r, domain |-> p.domain, age |-> p.age]
    BY <1>1, <1>3, Zenon
  <2>2. told.last.cookie # NoCookie
    <3>1. told.last.cookie \in [value : Nat, domain : STRING, age : Ages]
      BY <2>1 DEF Planned
    <3> QED BY <3>1, NothingAssumption
  <2>3. PICK set : set = [value |-> r, domain |-> p.domain, age |-> p.age] /\ SetCookie(set, http.at.host)
    BY <1>1, <2>1, <2>2
  <2>4. set.domain = p.domain
    BY <2>3
  <2>5. PICK put : put = [set EXCEPT !.domain = Domain(set.domain, http.at.host)] /\ PutIn(put)
    BY <1>3, <2>3, <2>4, Zenon DEF SetCookie
  <2>6. put.domain = Domain(p.domain, http.at.host) /\ put.value = r
    BY <2>3, <2>4, <2>5
  <2>7. \A o \in jar' : o = put \/ o.domain # put.domain
    BY <2>5 DEF PutIn, Added, Overwritten
  <2> QED BY <2>6, <2>7
<1> QED BY <1>2, <1>3 DEF HeadTold

LEMMA HeadLineApart ==
  ASSUME Shape, Apart, HeadLine
  PROVE  Apart'
<1>1. call.pc = "head" /\ rx # <<>>
  BY DEF HeadLine
<1>2. PICK p, r, c, d, m, j : Reading(p, r, c, d, m, j) /\ InHead(p, r, d)
  BY <1>1, ReadingIs DEF IsAnswered, InBody, InPlainBody, InChunkedBody
<1>3. rx \in Seq(Token) /\ rx[1] = Tok(p, r, c, d + 1) /\ d \in {0, 1, 2} /\ d < m /\ m \in Nat
  BY <1>1, <1>2, RxIs DEF InHead
<1>4. rx[1] = IF d = 0 THEN StatusLine(p, r) ELSE IF d = 1 THEN FieldLines(p, r, c) ELSE BlankLine(r)
  BY <1>3 DEF Tok
<1>5. IsLine(rx[1])
  BY <1>4 DEF StatusLine, FieldLines, BlankLine, IsLine
<1>6. LineLength = 1 /\ Text(LineLength) = [text |-> FALSE, last |-> rx[1]]
  BY <1>1, <1>3, <1>5, ALine
<1> DEFINE aLine == [text |-> FALSE, last |-> rx[1]]
<1>7. /\ aLine.last.k # "blank" \/ aLine.text
      /\ rx' = SubSeq(rx, 1 + 1, Len(rx))
      /\ \E h \in IF call.first THEN FirstLine(aLine, http) ELSE {Field(aLine, http)} : http' = h
      /\ IF ~call.first /\ aLine.last.k = "fields" /\ aLine.last.cookie # NoCookie
           THEN SetCookie(aLine.last.cookie, http.at.host)
           ELSE UNCHANGED jar
      /\ call' = [call EXCEPT !.first = FALSE]
      /\ UNCHANGED <<link, flight, owed, served, used>>
  BY <1>6, Zenon DEF HeadLine
<1>8. d # 2
  BY <1>4, <1>7 DEF BlankLine
<1>9. Under(p, r, c, d + 1, m, j)' /\ p \in Planned /\ r \in Nat /\ r = Len(served) /\ r >= 1
  <2>1. 1 \in 0..(m - d) /\ rx' = Rest(rx, 1) /\ flight' = flight
    BY <1>3, <1>7 DEF Rest
  <2> QED BY <1>2, <2>1, UnderReads DEF Reading
<1>10. http'.collected \in 0..Len(served) /\ InHead(p, r, d + 1)'
  <2>1. call'.pc = "head" /\ ~call'.first /\ call'.stream = call.stream /\ FreshCall'
    BY <1>1, <1>2, <1>7 DEF Shape, CallFields, InHead, FreshCall
  <2>2. CASE d = 0
    <3>1. call.first /\ NoFields /\ NotYetCollected(r)
      BY <1>2, <2>2 DEF InHead
    <3>2. rx[1].k = "status" /\ rx[1].code = p.code
      BY <1>4, <2>2 DEF StatusLine
    <3>3. http' \in FirstLine(aLine, http)
      BY <1>7, <3>1
    <3>4. Codes(aLine) = {p.code}
      BY <3>2 DEF Codes
    <3>5. /\ http'.code = p.code /\ http'.collected = http.collected
          /\ http'.framing = http.framing /\ http'.size = http.size
      BY <3>3, <3>4 DEF FirstLine, Shape, HttpFields
    <3>6. NoFields' /\ NotYetCollected(r)' /\ http'.code = p.code
      BY <2>1, <3>1, <3>5 DEF NoFields, NotYetCollected
    <3>7. http'.collected \in 0..Len(served)
      BY <3>5 DEF Apart
    <3>8. d + 1 = 1
      BY <2>2
    <3> QED BY <2>1, <3>6, <3>7, <3>8 DEF InHead
  <2>3. CASE d = 1
    <3>1. ~call.first /\ NoFields /\ NotYetCollected(r) /\ http.code = p.code
      BY <1>2, <2>3 DEF InHead
    <3>2. /\ rx[1].k = "fields" /\ rx[1].framing = p.framing /\ rx[1].n = p.size /\ rx[1].r = r
          /\ rx[1].mark = p.mark
      BY <1>4, <2>3 DEF FieldLines
    <3>3. http' = Field(aLine, http)
      BY <1>7, <3>1
    <3>4. /\ http'.code = http.code /\ http'.framing = p.framing
          /\ http'.size = IF p.framing = "length" THEN p.size ELSE http.size
          /\ http'.collected = IF p.mark THEN r ELSE http.collected
      BY <3>2, <3>3 DEF Field, Shape, HttpFields
    <3>5. Fields(p)' /\ Collected(p, r)' /\ http'.code = p.code
      BY <1>9, <2>1, <3>1, <3>4 DEF NoFields, Fields, NotYetCollected, Collected
    <3>6. http'.collected \in 0..Len(served)
      BY <1>9, <3>4 DEF Apart
    <3>7. d + 1 = 2
      BY <2>3
    <3>8. HeadTold(p, r)'
      BY <1>4, <1>7, <1>9, <2>3, <3>1, <3>3, FieldsTell
    <3> QED BY <2>1, <3>5, <3>6, <3>7, <3>8 DEF InHead
  <2> QED BY <1>3, <1>8, <2>2, <2>3
<1> QED BY <1>1, <1>2, <1>7, <1>9, <1>10, ReadsOn

LEMMA SeparateEnds ==
  ASSUME Shape, HeadEndsAnswered
  PROVE  ~HeadEndsWithout /\ ~Redirect
<1>1. call'.pc = "answered"
  BY DEF HeadEndsAnswered, Shape, CallFields
<1>2. HeadEndsWithout => call'.pc = "returned"
  BY CutIs DEF HeadEndsWithout, Shape, CallFields
<1>3. Redirect => call'.pc = "request"
  BY DEF Redirect, DropPayload, Shape, CallFields
<1> QED BY <1>1, <1>2, <1>3

LEMMA HeadEndsApart ==
  ASSUME Shape, Shape', Apart, HeadEnds, plan' = plan
  PROVE  Apart'
<1>1. CASE ~HeadEndsAnswered
  BY <1>1, HeadEndsRests, RestsApart
<1>2. CASE HeadEndsAnswered
  <2>1. call.pc = "head" /\ rx # <<>> /\ rx[1].k = "blank" /\ Seen("head") /\ UNCHANGED used
    BY HeadEndsIs DEF HeadEnds
  <2>2. PICK p, r, c, d, m, j : Reading(p, r, c, d, m, j) /\ InHead(p, r, d)
    BY <2>1, ReadingIs DEF IsAnswered, InBody, InPlainBody, InChunkedBody
  <2>3. rx \in Seq(Token) /\ rx[1] = Tok(p, r, c, d + 1) /\ d \in {0, 1, 2} /\ d < m /\ m \in Nat
        /\ Tail(rx) = Rest(rx, 1)
    BY <2>1, <2>2, RxIs DEF InHead
  <2>4. d = 2
    BY <2>1, <2>3 DEF Tok, StatusLine, FieldLines
  <2>5. http.code = p.code /\ Fields(p) /\ Collected(p, r) /\ FreshCall /\ p.framing # "other"
    <3>1. http.framing # "other"
      BY <1>2, HeadEndsIs, <2>1, SeparateEnds
    <3> QED BY <2>2, <2>4, <3>1 DEF InHead, Fields
  <2>6. http' = http /\ call' = [call EXCEPT !.pc = "answered", !.result = http.code]
        /\ rx' = Rest(rx, 1) /\ UNCHANGED <<link, flight, owed>>
    BY <1>2, <2>3 DEF HeadEndsAnswered
  <2>7. Under(p, r, c, 3, m, j)'
    <3>1. 1 \in 0..(m - d) /\ d + 1 = 3
      BY <2>3, <2>4
    <3>2. Under(p, r, c, d + 1, m, j)'
      BY <2>2, <2>6, <3>1, UnderReads DEF Reading
    <3> QED BY <3>1, <3>2
  <2>8. IsAnswered(p, r, 3)'
    <3>1. call'.pc = "answered" /\ call'.result = p.code /\ FreshCall' /\ call'.stream = call.stream
      BY <2>5, <2>6 DEF Shape, CallFields, FreshCall
    <3>2. Fields(p)' /\ Collected(p, r)'
      BY <2>5, <2>6, <3>1 DEF Fields, Collected
    <3> QED BY <2>5, <3>1, <3>2 DEF IsAnswered
  <2>9. http'.collected \in 0..Len(served)
    BY <2>6, CollectedSame
  <2> QED BY <2>1, <2>2, <2>6, <2>7, <2>8, <2>9, ReadsOn
<1> QED BY <1>1, <1>2

-----------------------------------------------------------------------------
(* Bodies *)

LEMMA BodyIs ==
  ASSUME NEW b \in Nat, NEW r
  PROVE  /\ Body(1, b, r) = [i \in 1..b |-> BodyByte(i, r)] /\ Len(Body(1, b, r)) = b
         /\ Body(1, 0, r) = <<>>
<1>1. b - 1 + 1 = b /\ \A i \in 1..b : 1 + i - 1 = i
  OBVIOUS
<1>2. Body(1, b, r) = [i \in 1..b |-> BodyByte(i, r)]
  BY <1>1 DEF Body, BodyByte
<1>3. Len([i \in 1..b |-> BodyByte(i, r)]) = b
  <2> DEFINE S == {BodyByte(i, r) : i \in 1..b}
             x == [i \in 1..b |-> BodyByte(i, r)]
  <2>1. x \in [1..b -> S]
    OBVIOUS
  <2> HIDE DEF x, S
  <2>2. Len(x) = b
    BY <2>1, ArrayIsSeq, Zenon
  <2> QED BY <2>2 DEF x
<1>4. Body(1, 0, r) = <<>>
  BY DEF Body
<1> QED BY <1>2, <1>3, <1>4

LEMMA BodyGrows ==
  ASSUME NEW b \in Nat, NEW r \in Nat, NEW n \in Nat, NEW s \in Seq(Token), Len(s) = n,
         \A i \in 1..n : s[i] = BodyByte(b + i, r),
         \A i \in 1..b : BodyByte(i, r) \in Token
  PROVE  Body(1, b, r) \o s = Body(1, b + n, r)
<1> DEFINE x == Body(1, b, r)
           y == Body(1, b + n, r)
<1>1. x = [i \in 1..b |-> BodyByte(i, r)] /\ Len(x) = b
  BY BodyIs
<1>2. b + n \in Nat
  OBVIOUS
<1>3. y = [i \in 1..(b + n) |-> BodyByte(i, r)] /\ Len(y) = b + n
  BY <1>2, BodyIs
<1> HIDE DEF x, y
<1>4. x \in Seq(Token)
  BY <1>1
<1>5. x \o s \in Seq(Token) /\ Len(x \o s) = Len(x) + Len(s)
      /\ (\A i \in 1..Len(x) : (x \o s)[i] = x[i])
      /\ \A i \in 1..Len(s) : (x \o s)[Len(x) + i] = s[i]
  BY <1>4, JoinedTokens, Zenon
<1> DEFINE z == x \o s
<1> HIDE DEF z
<1>6. z \in Seq(Token) /\ Len(z) = b + n
      /\ (\A i \in 1..b : z[i] = x[i]) /\ \A i \in 1..n : z[b + i] = s[i]
  BY <1>1, <1>5 DEF z
<1>7. \A i \in 1..(b + n) : z[i] = BodyByte(i, r)
  <2> SUFFICES ASSUME NEW i \in 1..(b + n) PROVE z[i] = BodyByte(i, r)
    OBVIOUS
  <2>1. CASE i \in 1..b
    BY <1>1, <1>6, <2>1
  <2>2. CASE i \notin 1..b
    <3>1. PICK k \in 1..n : i = b + k
      <4>1. i - b \in 1..n /\ i = b + (i - b)
        BY <2>2
      <4> QED BY <4>1
    <3> QED BY <1>6, <3>1
  <2> QED BY <2>1, <2>2
<1>8. z = y
  <2>1. z = [i \in 1..(b + n) |-> z[i]]
    BY <1>6
  <2> QED BY <1>3, <1>7, <2>1
<1> QED BY <1>8 DEF x, y, z

LEMMA BodyByteToken ==
  ASSUME NEW p \in Planned, NEW r \in Nat, NEW b \in Nat
  PROVE  \A i \in 1..b : BodyByte(i, r) \in Token
<1> SUFFICES ASSUME NEW i \in 1..b PROVE BodyByte(i, r) \in Token
  OBVIOUS
<1>6. PICK c \in BOOLEAN : TRUE
  OBVIOUS
<1> DEFINE q == [code |-> p.code, framing |-> "none", size |-> p.size, minor |-> p.minor,
                 close |-> p.close, location |-> p.location, age |-> p.age, domain |-> p.domain,
                 mark |-> p.mark]
<1>1. q \in Planned /\ q.framing = "none"
  BY DEF Planned, Framings
<1> HIDE DEF q
<1>2. i + 3 \in Nat /\ i \in Nat /\ i >= 1
  OBVIOUS
<1>3. ~Chunked(q)
  BY <1>1 DEF Chunked
<1>5. Tok(q, r, c, i + 3) = BodyByte(i, r)
  BY <1>1, <1>2, <1>3, TokPlain
<1>4. Tok(q, r, c, i + 3) \in Token
  BY <1>1, <1>2, TokenIs
<1> QED BY <1>4, <1>5

(* getString() and getStream() *)
LEMMA GetStringApart ==
  ASSUME Shape, Shape', Apart, GetString, plan' = plan
  PROVE  Apart'
<1>1. call.pc = "answered" /\ UNCHANGED <<http, stale, served>> /\ (used' = used \/ Fails)
  BY Zenon DEF GetString
<1>2. PICK p, r, c, d, m, j : Reading(p, r, c, d, m, j) /\ IsAnswered(p, r, d)
  BY <1>1, ReadingIs DEF InHead, InBody, InPlainBody, InChunkedBody
<1>3. http'.collected \in 0..Len(served)
  BY <1>1, CollectedSame
<1>4. d = 3 /\ Fields(p) /\ Collected(p, r) /\ FreshCall /\ p.framing # "other"
  BY <1>2 DEF IsAnswered
<1>5. p \in Planned /\ r \in Nat /\ Body(1, 0, r) = <<>>
  BY <1>2, BodyIs DEF Reading
<1>6. CASE Return(-4)
  BY <1>1, <1>3, <1>6, ReturnRests, RestsApart DEF Shape
<1>7. CASE Return(0)
  <2>1. Cut /\ call' = [call EXCEPT !.pc = "returned", !.result = 0]
    BY <1>7, CutIs
  <2>2. call'.pc = "returned" /\ call'.body = <<>> /\ call'.stream = call.stream
    BY <1>4, <2>1 DEF Shape, CallFields, FreshCall
  <2>3. Keep
    BY <1>7 DEF Return
  <2>4. Under(p, r, c, d, m, j)'
    BY <1>2, <2>3, UnderStays DEF Reading, Keep
  <2>5. served[r].seen # "all"
    BY <1>2 DEF Reading
  <2>6. IsReturned(p, r)' /\ Behind(p, r, m, j)'
    <3>1. Collected(p, r)'
      BY <1>1, <1>4, <2>2 DEF Collected
    <3>2. \E b \in Nat : call'.body = Body(1, b, r)
      BY <1>5, <2>2
    <3> QED BY <1>1, <2>5, <3>1, <3>2 DEF IsReturned, Behind
  <2> QED BY <1>1, <1>2, <1>3, <2>1, <2>2, <2>4, <2>6, ReadsLast DEF Cut, Shape
<1>8. CASE (http.size > 0 \/ http.size = -1) /\ UNCHANGED used /\ WriteToStream
  <2>1. CASE ~Connected
    BY <1>6, <1>8, <2>1 DEF WriteToStream
  <2>2. CASE Connected /\ http.framing = "chunked"
    <3>1. call' = [call EXCEPT !.pc = "chunk"] /\ Keep
      BY <1>8, <2>2, Zenon DEF WriteToStream
    <3>2. Under(p, r, c, d, m, j)'
      BY <1>2, <3>1, UnderStays DEF Reading, Keep
    <3>3. call'.pc = "chunk" /\ call'.body = Body(1, 0, r) /\ call'.total = 0 /\ call'.stream = call.stream
      BY <1>4, <1>5, <3>1 DEF Shape, CallFields, FreshCall
    <3>4. InBody(p, r, d)'
      <4>1. Chunked(p) /\ Fields(p)' /\ Collected(p, r)'
        BY <1>1, <1>4, <2>2, <3>3 DEF Chunked, Fields, Collected
      <4>2. InChunkedBody(p, r, d, 0)'
        BY <1>4, <3>3, <4>1 DEF InChunkedBody, BetweenChunks
      <4> QED BY <1>4, <3>3, <4>1, <4>2 DEF InBody
    <3> QED BY <1>1, <1>2, <1>3, <1>8, <3>1, <3>2, <3>4, ReadsOn DEF Keep
  <2>3. CASE Connected /\ http.framing # "chunked"
    <3>1. call' = [call EXCEPT !.pc = "block", !.left = http.size] /\ Keep
      BY <1>8, <2>3, Zenon DEF WriteToStream
    <3>2. Under(p, r, c, d, m, j)'
      BY <1>2, <3>1, UnderStays DEF Reading, Keep
    <3>3. call'.pc = "block" /\ call'.body = Body(1, 0, r) /\ call'.left = http.size /\ call'.stream = call.stream
      BY <1>4, <1>5, <3>1 DEF Shape, CallFields, FreshCall
    <3>4. InBody(p, r, d)'
      <4>1. ~Chunked(p) /\ Fields(p)' /\ Collected(p, r)'
        BY <1>1, <1>4, <2>3, <3>3 DEF Chunked, Fields, Collected
      <4>2. InPlainBody(p, r, d, 0)'
        <5>1. p.size - 0 = p.size /\ 3 + 0 = 3
          BY <1>5, SizeIsNat
        <5> QED BY <1>4, <3>3, <4>1, <5>1 DEF InPlainBody, Fields
      <4> QED BY <1>4, <3>3, <4>1, <4>2 DEF InBody
    <3> QED BY <1>1, <1>2, <1>3, <1>8, <3>1, <3>2, <3>4, ReadsOn DEF Keep
  <2> QED BY <2>1, <2>2, <2>3
<1> QED BY <1>7, <1>8, Zenon DEF GetString

LEMMA ReadStreamApart ==
  ASSUME Shape, Shape', Apart, ReadStream, plan' = plan
  PROVE  Apart'
<1>1. /\ call.pc = "answered" /\ rx # <<>>
      /\ call' = [call EXCEPT !.pc = "returned", !.result = 0, !.raw = TRUE, !.body = rx]
      /\ rx' = <<>> /\ UNCHANGED <<link, flight, owed, http, served, used>>
  BY DEF ReadStream
<1>2. PICK p, r, c, d, m, j : Reading(p, r, c, d, m, j) /\ IsAnswered(p, r, d)
  BY <1>1, ReadingIs DEF InHead, InBody, InPlainBody, InChunkedBody
<1>3. d = 3 /\ Fields(p) /\ Collected(p, r) /\ p \in Planned /\ r \in Nat /\ served[r].seen # "all"
      /\ r = Len(served)
  BY <1>2 DEF IsAnswered, Reading
<1>4. call'.pc = "returned" /\ call'.body = rx /\ call'.raw /\ call'.stream = call.stream
  BY <1>1 DEF Shape, CallFields
<1>5. Under(p, r, c, m, m, j)'
  BY <1>1, <1>2, UnderDrops DEF Reading
<1>6. /\ rx \in Seq(Token) /\ Len(rx) = m - 3 /\ m - 3 \in Nat
      /\ \A i \in 1..(m - 3) : rx[i] = Tok(p, r, c, 3 + i)
  BY <1>2, <1>3, RxIs
<1>7. CASE p.framing \in {"length", "none"}
  <2>1. PICK n \in Nat : n = m - 3
    BY <1>6
  <2>2. \A i \in 1..n : rx[i] = BodyByte(i, r)
    <3>1. ASSUME NEW i \in 1..n PROVE rx[i] = BodyByte(i, r)
      <4>1. rx[i] = Tok(p, r, c, 3 + i) /\ (3 + i) - 3 = i /\ 3 + i > 3 /\ 3 + i \in Nat
        BY <1>6, <2>1
      <4> QED BY <1>7, <4>1 DEF Tok, Chunked
    <3> QED BY <3>1
  <2>3. rx = [i \in 1..n |-> rx[i]]
    BY <1>6, <2>1
  <2>4. rx = Body(1, n, r)
    BY <2>2, <2>3, BodyIs
  <2> QED BY <1>1, <1>4, <2>4, <1>3, <1>5, <1>2, ReadsLast, CollectedSame
        DEF IsReturned, Collected, Behind, Settled, Shape
<1>8. CASE p.framing \notin {"length", "none"}
  <2>1. p.framing \in {"chunked", "other"}
    BY <1>3, <1>8 DEF Planned, Framings
  <2> QED BY <1>1, <1>4, <2>1, <1>3, <1>5, <1>2, ReadsLast, CollectedSame
        DEF IsReturned, Collected, Behind, Settled, Shape
<1> QED BY <1>7, <1>8

LEMMA ChunkMoves ==
  ASSUME NEW p \in Planned, NEW d \in Nat, NEW b \in Nat, NEW l \in Nat, NEW n \in Nat, n <= l,
         InChunk(p, d, b, l)
  PROVE  InChunk(p, d + n, b + n, l - n)
<1>1. PICK z \in Nat : z = p.size
  BY SizeIsNat
<1>2. /\ d + n + (l - n) = d + l /\ b + n + (l - n) = b + l /\ (b >= 1 => b + n >= 1)
  OBVIOUS
<1> QED BY <1>1, <1>2 DEF InChunk

LEMMA ReadBlockApart ==
  ASSUME Shape, Apart, ReadBlock
  PROVE  Apart'
<1>1. call.pc = "block" /\ call.left # 0 /\ rx # <<>> /\ UNCHANGED <<link, flight, owed, http, served, used>>
  BY DEF ReadBlock
<1>2. PICK n : /\ n = BlockReadsOn(Len(rx), call.left)
               /\ call' = [call EXCEPT !.body = @ \o SubSeq(rx, 1, n),
                                       !.left = IF @ = -1 THEN -1 ELSE @ - n]
               /\ rx' = SubSeq(rx, n + 1, Len(rx))
  BY Zenon DEF ReadBlock
<1>3. PICK p, r, c, d, m, j : Reading(p, r, c, d, m, j) /\ InBody(p, r, d)
  BY <1>1, ReadingIs DEF InHead, IsAnswered
<1>4. PICK b \in Nat : /\ call.body = Body(1, b, r)
                       /\ InPlainBody(p, r, d, b) \/ InChunkedBody(p, r, d, b)
  BY <1>3 DEF InBody
<1>5. /\ rx \in Seq(Token) /\ Len(rx) = m - d /\ d \in Nat /\ m \in Nat /\ d <= m /\ m <= Size(p)
      /\ \A i \in 1..(m - d) : rx[i] = Tok(p, r, c, d + i)
  <2>1. /\ rx \in Seq(Token) /\ Len(rx) = m - d /\ d \in Nat /\ m \in Nat /\ d <= m /\ j \in Nat
        /\ m <= j /\ j <= Size(p) /\ \A i \in 1..(m - d) : rx[i] = Tok(p, r, c, d + i)
    BY <1>3, RxIs
  <2>2. Size(p) \in Nat
    BY <1>3, SizeIsNat DEF Reading
  <2> QED BY <2>1, <2>2
<1>6. Fields(p) /\ Collected(p, r) /\ p.framing # "other" /\ p \in Planned /\ r \in Nat /\ p.size \in Nat
  BY <1>3, SizeIsNat DEF InBody, Reading
<1>7. Len(rx) # 0 /\ d < m
  BY <1>1, <1>5
<1>8. call.left \in Int
  BY <1>1, <1>4, <1>6 DEF InPlainBody, InChunkedBody
<1>9. /\ n \in 1..(m - d) \/ call.left < -1
      /\ call.left >= 0 => n <= call.left
  BY <1>1, <1>2, <1>5, <1>7, <1>8 DEF BlockReadsOn
<1>10. call.left >= -1
  <2>1. CASE InPlainBody(p, r, d, b)
    <3>1. Chunked(p) = FALSE /\ d = 3 + b
      BY <2>1 DEF InPlainBody
    <3>2. m <= p.size + 3
      BY <1>5, <3>1 DEF Size
    <3>3. p.size - b >= 0
      BY <1>5, <1>6, <1>7, <3>1, <3>2
    <3> QED BY <1>6, <2>1, <3>3 DEF InPlainBody
  <2>2. CASE InChunkedBody(p, r, d, b)
    BY <1>1, <2>2 DEF InChunkedBody
  <2> QED BY <1>4, <2>1, <2>2
<1>11. n \in Nat /\ n \in 1..(m - d) /\ n \in 0..(m - d)
  BY <1>5, <1>8, <1>9, <1>10
<1>12. Under(p, r, c, d + n, m, j)'
  BY <1>1, <1>2, <1>3, <1>11, UnderReads DEF Reading, Rest
<1>13. ASSUME \A i \in 1..n : Tok(p, r, c, d + i) = BodyByte(b + i, r)
       PROVE  call'.body = Body(1, b + n, r)
  <2> DEFINE x == SubSeq(rx, 1, n)
  <2>1. x \in Seq(Token) /\ Len(x) = n /\ \A i \in 1..n : x[i] = rx[i]
    BY <1>5, <1>11
  <2>2. \A i \in 1..n : i \in 1..(m - d)
    BY <1>5, <1>11
  <2>3. call'.body = call.body \o x
    BY <1>2 DEF Shape, CallFields
  <2> HIDE DEF x
  <2>4. \A i \in 1..n : x[i] = BodyByte(b + i, r)
    BY <1>5, <1>13, <2>1, <2>2
  <2>5. Body(1, b, r) \o x = Body(1, b + n, r)
    BY <1>6, <1>11, <2>1, <2>4, BodyByteToken, BodyGrows
  <2> QED BY <1>4, <2>3, <2>5
<1>14. /\ call'.pc = "block" /\ call'.left = (IF call.left = -1 THEN -1 ELSE call.left - n)
       /\ call'.total = call.total /\ call'.stream = call.stream
  BY <1>1, <1>2 DEF Shape, CallFields
<1>15. Fields(p)' /\ Collected(p, r)' /\ http'.collected \in 0..Len(served)
  BY <1>1, <1>6, <1>14, CollectedSame DEF Fields, Collected
<1>16. b + n \in Nat /\ (InPlainBody(p, r, d + n, b + n) \/ InChunkedBody(p, r, d + n, b + n))'
       /\ call'.body = Body(1, b + n, r)
  <2>1. CASE InPlainBody(p, r, d, b)
    <3>1. ~Chunked(p) /\ d = 3 + b /\ call.left = IF p.framing = "length" THEN p.size - b ELSE -1
      BY <2>1 DEF InPlainBody
    <3>2. \A i \in 1..n : Tok(p, r, c, d + i) = BodyByte(b + i, r)
      <4> SUFFICES ASSUME NEW i \in 1..n PROVE Tok(p, r, c, d + i) = BodyByte(b + i, r)
        OBVIOUS
      <4>1. d + i \in Nat /\ b + i \in Nat /\ b + i >= 1 /\ d + i = (b + i) + 3
        BY <1>5, <1>11, <3>1
      <4> QED BY <1>6, <3>1, <4>1, TokPlain
    <3>3. m <= p.size + 3
      BY <1>5, <3>1 DEF Size
    <3>4. d + n = 3 + (b + n) /\ p.size - b >= n
      BY <1>5, <1>6, <1>11, <3>1, <3>3
    <3>5. call'.left = IF p.framing = "length" THEN p.size - (b + n) ELSE -1
      BY <1>6, <1>11, <1>14, <3>1, <3>4
    <3>6. InPlainBody(p, r, d + n, b + n)'
      BY <1>14, <3>1, <3>4, <3>5 DEF InPlainBody
    <3> QED BY <1>11, <1>13, <3>2, <3>6
  <2>2. CASE InChunkedBody(p, r, d, b)
    <3>1. /\ Chunked(p) /\ call.left \in Nat /\ call.total = b + call.left /\ call.total \in Nat
          /\ InChunk(p, d, b, call.left) /\ n <= call.left
      BY <1>1, <1>9, <2>2 DEF InChunkedBody
    <3>2. \A i \in 1..n : Tok(p, r, c, d + i) = BodyByte(b + i, r)
      <4> SUFFICES ASSUME NEW i \in 1..n PROVE Tok(p, r, c, d + i) = BodyByte(b + i, r)
        OBVIOUS
      <4>1. PICK l \in Nat : l = call.left /\ n <= l /\ i <= l /\ i >= 1 /\ i \in Nat
        BY <1>11, <3>1
      <4>2. CASE d + l = 5 /\ b + l = 1 /\ p.size >= 1
        <5>1. d + i = 5 /\ b + i = 1
          BY <1>5, <4>1, <4>2
        <5> QED BY <1>6, <3>1, <4>2, <5>1, TokChunked
      <4>3. CASE d + l = 6 + p.size /\ b + l = p.size /\ b >= 1 /\ p.size >= 2
        <5>1. PICK k \in Nat : k = b + i
          OBVIOUS
        <5>3. d \in Nat /\ p.size \in Nat
          BY <1>5, <1>6
        <5>2. k >= 2 /\ k <= p.size /\ d + i = k + 6 /\ d + i \in Nat
          BY <4>1, <4>3, <5>1, <5>3
        <5> QED BY <1>6, <3>1, <5>1, <5>2, TokInChunk
      <4> QED BY <3>1, <4>1, <4>2, <4>3 DEF InChunk
    <3>3. /\ call'.left = call.left - n /\ call'.left \in Nat /\ call'.total = (b + n) + call'.left
          /\ InChunk(p, d + n, b + n, call'.left)
      <4>1. PICK l \in Nat : l = call.left /\ n <= l /\ InChunk(p, d, b, l)
        BY <3>1
      <4>2. l - n \in Nat /\ l # -1 /\ b + l = (b + n) + (l - n)
        BY <1>11, <4>1
      <4>3. InChunk(p, d + n, b + n, l - n)
        <5>1. d \in Nat /\ n \in Nat /\ p \in Planned
          BY <1>5, <1>6, <1>11
        <5> QED BY <4>1, <5>1, ChunkMoves
      <4> QED BY <1>14, <3>1, <4>1, <4>2, <4>3
    <3>4. InChunkedBody(p, r, d + n, b + n)'
      BY <1>14, <3>1, <3>3 DEF InChunkedBody
    <3> QED BY <1>11, <1>13, <3>2, <3>4
  <2> QED BY <1>4, <2>1, <2>2
<1>17. InBody(p, r, d + n)'
  BY <1>6, <1>15, <1>16 DEF InBody
<1> QED BY <1>1, <1>3, <1>12, <1>15, <1>17, ReadsOn

(* The end of a body, a block and a chunk *)
LEMMA CutUnder ==
  ASSUME NEW p, NEW r, NEW c, NEW d, NEW m, NEW j, Reading(p, r, c, d, m, j), Cut
  PROVE  \E e, y : Under(p, r, c, e, m, y)' /\ y \in {m, j}
<1>1. Under(p, r, c, d, m, j) /\ p \in Planned
  BY DEF Reading
<1>2. CASE Stop
  BY <1>1, <1>2, UnderDrops DEF Stop
<1>3. CASE UNCHANGED <<link, flight, owed>> /\ rx' = <<>>
  BY <1>1, <1>3, UnderDrops
<1>4. CASE UNCHANGED <<link, flight, owed>> /\ rx' = rx
  BY <1>1, <1>4, UnderStays
<1> QED BY <1>2, <1>3, <1>4 DEF Cut, Settled

LEMMA DoneApart ==
  ASSUME Shape, Apart, NEW p, NEW r, NEW c, NEW d, NEW m, NEW j, Reading(p, r, c, d, m, j), InBody(p, r, d),
         Done, used' = used, http'.collected = http.collected,
         m = j \/ (Chunked(p) /\ m + 1 >= Size(p)),
         Len(call.body) = p.size \/ (p.framing = "none" /\ used.faults > 0)
  PROVE  Apart'
<1>1. /\ Cut /\ Seen("all") /\ call' = [call EXCEPT !.pc = "returned", !.result = Len(call.body)]
  BY DoneIs
<1>2. IsServed(served)' /\ Len(served') = Len(served)
      /\ served'[Len(served)].reply = served[Len(served)].reply
  BY <1>1, SeenIs DEF Shape, Reading
<1>3. PICK e, y : Under(p, r, c, e, m, y)' /\ y \in {m, j}
  BY <1>1, CutUnder
<1>4. Behind(p, r, m, y)'
  BY <1>3 DEF Behind
<1>5. call'.pc = "returned" /\ call'.body = call.body /\ call'.stream = call.stream
  BY <1>1 DEF Shape, CallFields
<1>6. IsReturned(p, r)'
  <2>1. Collected(p, r)'
    BY <1>5 DEF InBody, Collected
  <2>2. \E b \in Nat : call'.body = Body(1, b, r)
    BY <1>5 DEF InBody
  <2> QED BY <1>5, <2>1, <2>2 DEF IsReturned
<1>7. http'.collected \in 0..Len(served)
  BY DEF Apart
<1> QED BY <1>1, <1>2, <1>3, <1>4, <1>5, <1>6, <1>7, ReadsLast DEF Cut

LEMMA BlockEndsApart ==
  ASSUME Shape, Shape', Apart, BlockEnds, plan' = plan
  PROVE  Apart'
<1>1. call.pc = "block" /\ (call.left = 0 \/ ~Connected) /\ UNCHANGED <<http, stale, used>>
  BY DEF BlockEnds
<1>2. PICK p, r, c, d, m, j : Reading(p, r, c, d, m, j) /\ InBody(p, r, d)
  BY <1>1, ReadingIs DEF InHead, IsAnswered
<1>3. PICK b \in Nat : /\ call.body = Body(1, b, r)
                       /\ InPlainBody(p, r, d, b) \/ InChunkedBody(p, r, d, b)
  BY <1>2 DEF InBody
<1>4. Fields(p) /\ Collected(p, r) /\ p.framing # "other" /\ p \in Planned /\ r \in Nat
      /\ p.size \in Nat /\ Size(p) \in Nat
  BY <1>2, SizeIsNat DEF InBody, Reading
<1>5. http'.collected \in 0..Len(served) /\ http'.collected = http.collected
  BY <1>1, CollectedSame
<1>6. CASE Return(-10) /\ UNCHANGED served
  BY <1>1, <1>5, <1>6, ReturnRests, RestsApart DEF Shape
<1>7. CASE call.left <= 0 /\ http.framing = "chunked" /\ call' = [call EXCEPT !.pc = "trailer"] /\ Keep
           /\ UNCHANGED served
  <2>1. InChunkedBody(p, r, d, b) /\ Chunked(p)
    BY <1>3, <1>4, <1>7 DEF InPlainBody, Fields, Chunked
  <2>2. call.left = 0 /\ call.total = b /\ InChunk(p, d, b, 0)
    BY <1>1, <1>7, <2>1 DEF InChunkedBody
  <2>3. call'.pc = "trailer" /\ call'.total = b /\ call'.body = call.body /\ call'.stream = call.stream
    BY <1>7, <2>2 DEF Shape, CallFields
  <2>4. InBody(p, r, d)'
    <3>1. Fields(p)' /\ Collected(p, r)'
      BY <1>1, <1>4, <2>3 DEF Fields, Collected
    <3>2. InChunkedBody(p, r, d, b)'
      BY <2>1, <2>2, <2>3 DEF InChunkedBody
    <3> QED BY <1>3, <1>4, <2>3, <3>1, <3>2 DEF InBody
  <2>5. Under(p, r, c, d, m, j)'
    BY <1>2, <1>7, UnderStays DEF Reading, Keep
  <2> QED BY <1>1, <1>2, <1>5, <1>7, <2>4, <2>5, ReadsOn DEF Keep
<1>8. CASE call.left <= 0 /\ http.framing # "chunked" /\ Done
  <2>1. ~Chunked(p) /\ d = 3 + b /\ call.left = (IF p.framing = "length" THEN p.size - b ELSE -1)
        /\ Size(p) = p.size + 3 /\ Len(call.body) = b
    <3>1. ~Chunked(p)
      BY <1>4, <1>8 DEF Fields, Chunked
    <3> QED BY <1>3, <1>4, <3>1, BodyIs DEF InPlainBody, InChunkedBody, Size
  <2>2. d \in Nat /\ m \in Nat /\ j \in Nat /\ d <= m /\ m <= j /\ j <= Size(p) /\ Len(rx) = m - d
    BY <1>2, RxIs
  <2>3. CASE p.framing = "length"
    <3>1. b >= p.size
      BY <1>4, <1>8, <2>1, <2>3
    <3>2. b = p.size /\ m = j
      BY <1>4, <2>1, <2>2, <3>1
    <3> QED BY <1>1, <1>2, <1>5, <1>8, <2>1, <3>2, DoneApart
  <2>4. CASE p.framing # "length"
    <3>1. p.framing = "none" /\ ~Connected
      BY <1>1, <1>4, <2>1, <2>4 DEF Planned, Framings, Chunked
    <3>2. rx = <<>> /\ flight = <<>>
      BY <3>1 DEF Connected, Apart, LinkFits
    <3>3. m = d
      BY <2>2, <3>2
    <3>4. m = j
      <4>1. PICK f : Pieces(f, p, r, c, m, j - m) /\ flight \in {f, Append(f, Fin)}
        BY <1>2 DEF Reading, Under
      <4>2. f \in Seq(Token) /\ Len(f) = j - m
        BY <4>1 DEF Pieces
      <4>3. f = <<>>
        BY <3>2, <4>1, <4>2, FinIs, AppendLast
      <4> QED BY <2>2, <4>2, <4>3
    <3>5. Len(call.body) = p.size \/ used.faults > 0
      BY <1>2, <1>4, <2>1, <2>2, <3>3, <3>4 DEF Reading
    <3> QED BY <1>1, <1>2, <1>5, <1>8, <3>1, <3>4, <3>5, DoneApart
  <2> QED BY <2>3, <2>4
<1>9. call.left \in Int
  BY <1>1, <1>3, <1>4 DEF InPlainBody, InChunkedBody
<1>10. \/ Return(-10) /\ UNCHANGED served
       \/ call.left <= 0 /\ http.framing = "chunked" /\ call' = [call EXCEPT !.pc = "trailer"] /\ Keep
          /\ UNCHANGED served
       \/ ~(call.left > 0) /\ ~(call.left <= 0 /\ http.framing = "chunked") /\ Done
  BY Zenon DEF BlockEnds
<1>11. ~(call.left > 0) => call.left <= 0
  BY <1>9
<1> QED BY <1>6, <1>7, <1>8, <1>10, <1>11

LEMMA ReadTrailerApart ==
  ASSUME Shape, Shape', Apart, ReadTrailer, plan' = plan
  PROVE  Apart'
<1>1. call.pc = "trailer" /\ rx # <<>> /\ UNCHANGED <<http, stale, used, served>>
  BY DEF ReadTrailer
<1>2. PICK p, r, c, d, m, j : Reading(p, r, c, d, m, j) /\ InBody(p, r, d)
  BY <1>1, ReadingIs DEF InHead, IsAnswered
<1>3. PICK b \in Nat : /\ call.body = Body(1, b, r)
                       /\ InPlainBody(p, r, d, b) \/ InChunkedBody(p, r, d, b)
  BY <1>2 DEF InBody
<1>4. Fields(p) /\ Collected(p, r) /\ p.framing # "other" /\ p \in Planned /\ p.size \in Nat
  BY <1>2, SizeIsNat DEF InBody, Reading
<1>5. Chunked(p) /\ call.total = b /\ InChunk(p, d, b, 0)
  BY <1>1, <1>3 DEF InPlainBody, InChunkedBody
<1>6. d \in Nat /\ m \in Nat /\ d < m /\ rx[1] = Tok(p, r, c, d + 1) /\ Tail(rx) = Rest(rx, 1)
  BY <1>1, <1>2, RxIs
<1>7. (d = 5 /\ b = 1 /\ p.size >= 1) \/ (d = 6 + p.size /\ b = p.size /\ b >= 1 /\ p.size >= 2)
  <2>1. d + 0 = d /\ b + 0 = b
    BY <1>6
  <2> QED BY <1>5, <2>1 DEF InChunk
<1>8. rx[1] = BlankLine(r)
  <2>1. CASE d = 5 /\ p.size >= 1
    <3>1. d + 1 = 6
      BY <2>1
    <3> QED BY <1>4, <1>5, <1>6, <2>1, <3>1, TokChunked
  <2>2. CASE d = 6 + p.size /\ p.size >= 2
    <3>1. d + 1 = p.size + 7
      BY <1>4, <2>2
    <3> QED BY <1>4, <1>5, <1>6, <2>2, <3>1, TokChunked
  <2> QED BY <1>7, <2>1, <2>2
<1>9. rx[1].k = "blank"
  BY <1>8 DEF BlankLine
<1>10. call' = [call EXCEPT !.pc = "chunk"] /\ rx' = Rest(rx, 1) /\ UNCHANGED <<link, flight, owed>>
  BY <1>6, <1>9 DEF ReadTrailer
<1>11. BetweenChunks(p, d + 1, b)
  BY <1>4, <1>7 DEF BetweenChunks
<1>12. call'.pc = "chunk" /\ call'.total = b /\ call'.body = call.body /\ call'.stream = call.stream
  BY <1>5, <1>10 DEF Shape, CallFields
<1>13. InBody(p, r, d + 1)'
  <2>1. Fields(p)' /\ Collected(p, r)'
    BY <1>1, <1>4, <1>12 DEF Fields, Collected
  <2>2. InChunkedBody(p, r, d + 1, b)'
    BY <1>5, <1>11, <1>12 DEF InChunkedBody
  <2> QED BY <1>3, <1>4, <1>12, <2>1, <2>2 DEF InBody
<1>14. Under(p, r, c, d + 1, m, j)'
  <2>1. 1 \in 0..(m - d)
    BY <1>6
  <2> QED BY <1>2, <1>10, <2>1, UnderReads DEF Reading
<1>15. http'.collected \in 0..Len(served)
  BY <1>1, CollectedSame
<1> QED BY <1>1, <1>2, <1>10, <1>13, <1>14, <1>15, ReadsOn

(* What the size of a chunk says is what follows it. *)
LEMMA NextChunk ==
  ASSUME NEW p \in Planned, Chunked(p), NEW r, NEW c, NEW d \in Nat, NEW b \in Nat, BetweenChunks(p, d, b)
  PROVE  \E n \in Nat : /\ Tok(p, r, c, d + 1) = ChunkLine(n, r)
                        /\ n > 0 => InChunk(p, d + 1, b, n)
                        /\ n = 0 => b = p.size /\ d + 2 = Size(p)
<1>1. PICK z \in Nat : z = p.size
  BY SizeIsNat
<1>2. CASE d = 3 /\ b = 0 /\ z = 0
  <2>0. d + 1 = 4 /\ d + 2 = 5
    BY <1>2
  <2>1. Tok(p, r, c, d + 1) = ChunkLine(0, r) /\ b = p.size /\ d + 2 = Size(p)
    BY <1>1, <1>2, <2>0, TokChunked
  <2> QED BY <2>1
<1>3. CASE d = 3 /\ b = 0 /\ z >= 1
  <2>0. d + 1 = 4
    BY <1>3
  <2>1. Tok(p, r, c, d + 1) = ChunkLine(1, r)
    BY <1>1, <1>3, <2>0, TokChunked
  <2>2. InChunk(p, d + 1, b, 1)
    BY <1>1, <1>3 DEF InChunk
  <2> QED BY <2>1, <2>2
<1>4. CASE d = 6 /\ b = 1 /\ z = 1
  <2>0. d + 1 = 7 /\ d + 2 = 8
    BY <1>4
  <2>1. Tok(p, r, c, d + 1) = ChunkLine(0, r) /\ b = p.size /\ d + 2 = Size(p)
    BY <1>1, <1>4, <2>0, TokChunked
  <2> QED BY <2>1
<1>5. CASE d = 6 /\ b = 1 /\ z >= 2
  <2>1. Tok(p, r, c, d + 1) = ChunkLine(z - 1, r)
    BY <1>1, <1>5, TokChunked
  <2>2. z - 1 \in Nat /\ z - 1 > 0 /\ InChunk(p, d + 1, b, z - 1)
    BY <1>1, <1>5 DEF InChunk
  <2> QED BY <2>1, <2>2
<1>6. CASE d = 7 + z /\ b = z /\ z >= 2
  <2>1. d + 1 = p.size + 8 /\ d + 2 = p.size + 9
    BY <1>1, <1>6
  <2>2. Tok(p, r, c, d + 1) = ChunkLine(0, r) /\ b = p.size /\ d + 2 = Size(p)
    BY <1>1, <1>6, <2>1, TokChunked
  <2> QED BY <2>2
<1> QED BY <1>1, <1>2, <1>3, <1>4, <1>5, <1>6 DEF BetweenChunks

LEMMA ReadChunkSizeApart ==
  ASSUME Shape, Shape', Apart, ReadChunkSize, plan' = plan
  PROVE  Apart'
<1>1. call.pc = "chunk" /\ rx # <<>> /\ UNCHANGED <<stale, used>>
  BY DEF ReadChunkSize
<1>2. PICK p, r, c, d, m, j : Reading(p, r, c, d, m, j) /\ InBody(p, r, d)
  BY <1>1, ReadingIs DEF InHead, IsAnswered
<1>3. PICK b \in Nat : /\ call.body = Body(1, b, r)
                       /\ InPlainBody(p, r, d, b) \/ InChunkedBody(p, r, d, b)
  BY <1>2 DEF InBody
<1>4. Fields(p) /\ Collected(p, r) /\ p.framing # "other" /\ p \in Planned /\ r \in Nat
      /\ p.size \in Nat /\ Size(p) \in Nat
  BY <1>2, SizeIsNat DEF InBody, Reading
<1>5. Chunked(p) /\ call.total = b /\ BetweenChunks(p, d, b)
  BY <1>1, <1>3 DEF InPlainBody, InChunkedBody
<1>6. d \in Nat /\ m \in Nat /\ j \in Nat /\ d < m /\ rx[1] = Tok(p, r, c, d + 1) /\ rx \in Seq(Token)
  BY <1>1, <1>2, RxIs
<1>7. PICK n \in Nat : /\ rx[1] = ChunkLine(n, r)
                       /\ n > 0 => InChunk(p, d + 1, b, n)
                       /\ n = 0 => b = p.size /\ d + 2 = Size(p)
  BY <1>4, <1>5, <1>6, NextChunk
<1>8. rx[1].k = "chunk" /\ rx[1].n = n
  BY <1>7 DEF ChunkLine
<1>9. LineLength = 1 /\ ChunkSize(Text(LineLength)) = n
  <2>1. IsLine(rx[1])
    BY <1>8 DEF IsLine
  <2>2. LineLength = 1 /\ Text(LineLength) = [text |-> FALSE, last |-> rx[1]]
    BY <1>1, <1>6, <2>1, ALine
  <2> QED BY <1>8, <2>2 DEF ChunkSize
<1>10. CASE n > 0
  <2>1. /\ call' = [call EXCEPT !.pc = "block", !.left = n, !.total = @ + n]
        /\ rx' = Rest(rx, 1) /\ UNCHANGED <<link, flight, owed, http, served>>
    BY <1>9, <1>10 DEF ReadChunkSize, Rest
  <2>2. call'.pc = "block" /\ call'.left = n /\ call'.total = b + n /\ call'.body = call.body
        /\ call'.stream = call.stream
    BY <1>5, <2>1 DEF Shape, CallFields
  <2>3. InBody(p, r, d + 1)'
    <3>1. Fields(p)' /\ Collected(p, r)'
      BY <1>4, <2>1, <2>2 DEF Fields, Collected
    <3>2. b + n \in Nat
      OBVIOUS
    <3>3. InChunkedBody(p, r, d + 1, b)'
      BY <1>5, <1>7, <1>10, <2>2, <3>2 DEF InChunkedBody
    <3> QED BY <1>3, <1>4, <2>2, <3>1, <3>3 DEF InBody
  <2>4. Under(p, r, c, d + 1, m, j)'
    <3>1. 1 \in 0..(m - d)
      BY <1>6
    <3> QED BY <1>2, <2>1, <3>1, UnderReads DEF Reading
  <2>5. http'.collected \in 0..Len(served)
    BY <2>1, CollectedSame
  <2> QED BY <1>1, <1>2, <2>1, <2>3, <2>4, <2>5, ReadsOn
<1>11. CASE n = 0
  <2>1. http.size = -1 /\ Len(call.body) = b
    BY <1>3, <1>4, <1>5, BodyIs DEF Fields, Chunked
  <2>2. LastChunk(call.total)
    <3>1. ~(n > 0)
      BY <1>11
    <3>2. LastChunk(IF http.size <= 0 THEN call.total ELSE http.size)
      BY <1>9, <3>1, Zenon DEF ReadChunkSize
    <3>3. http.size <= 0
      BY <2>1
    <3> QED BY <3>2, <3>3
  <2>3. Done /\ http' = [http EXCEPT !.size = call.total]
    BY <1>5, <2>1, <2>2 DEF LastChunk
  <2>4. http'.collected = http.collected
    BY <2>3 DEF Shape, HttpFields
  <2>5. m + 1 >= Size(p) /\ Len(call.body) = p.size
    BY <1>4, <1>6, <1>7, <1>11, <2>1
  <2> QED BY <1>1, <1>2, <1>5, <2>3, <2>4, <2>5, DoneApart
<1>12. n = 0 \/ n > 0
  OBVIOUS
<1> QED BY <1>10, <1>11, <1>12

-----------------------------------------------------------------------------
(* What happens meanwhile *)

(* The call is where it was, whatever has become of the rest of its reply. *)
LEMMA StageSame ==
  ASSUME NEW p, NEW r, NEW d, NEW m, NEW j, NEW x, NEW y, Stage(p, r, d, m, j),
         UNCHANGED <<call, http, served>>, jar' \subseteq jar, used.faults \in Nat, used'.faults \in Nat,
         used.faults <= used'.faults, Behind(p, r, m, j) => Behind(p, r, x, y),
         j = Size(p) => y = Size(p) \/ used'.faults > 0
  PROVE  Stage(p, r, d, x, y)'
<1>1. Behind(p, r, x, y)'
  BY StageBehind DEF Behind
<1>2. used.faults > 0 => used'.faults > 0
  OBVIOUS
<1>3. CASE call.pc \in {"idle", "begun", "request"} /\ FreshCall
  BY <1>1, <1>3 DEF Stage, FreshCall
<1>4. CASE call.pc = "returned" /\ IsReturned(p, r)
  <2>1. IsReturned(p, r)'
    BY <1>2, <1>4 DEF IsReturned, Collected
  <2> QED BY <1>1, <1>4, <2>1 DEF Stage
<1>5. CASE InHead(p, r, d) /\ served[r].seen # "all" /\ (j = Size(p) \/ used.faults > 0)
  <2>1. InHead(p, r, d)'
    BY <1>5 DEF InHead, FreshCall, NoFields, NotYetCollected, Fields, Collected, HeadTold
  <2> QED BY <1>2, <1>5, <2>1 DEF Stage
<1>8. CASE d = 0 /\ Sending(r) /\ served[r].seen # "all" /\ (j = Size(p) \/ used.faults > 0)
  <2>1. Sending(r)'
    BY <1>8 DEF Sending, FreshCall, NotYetCollected
  <2> QED BY <1>2, <1>8, <2>1 DEF Stage
<1>6. CASE IsAnswered(p, r, d) /\ served[r].seen # "all" /\ (j = Size(p) \/ used.faults > 0)
  <2>1. IsAnswered(p, r, d)'
    BY <1>6 DEF IsAnswered, FreshCall, Fields, Collected
  <2> QED BY <1>2, <1>6, <2>1 DEF Stage
<1>7. CASE InBody(p, r, d) /\ served[r].seen # "all" /\ (j = Size(p) \/ used.faults > 0)
  <2>1. InBody(p, r, d)'
    BY <1>7 DEF InBody, Fields, Collected, InPlainBody, InChunkedBody
  <2> QED BY <1>2, <1>7, <2>1 DEF Stage
<1> QED BY <1>3, <1>4, <1>5, <1>6, <1>7, <1>8 DEF Stage

LEMMA UnansweredSame ==
  ASSUME Unanswered, UNCHANGED <<call, http, served>>, rx' = <<>>, flight' \in {<<>>, <<Fin>>},
         owed' # "none" => flight' = <<>> /\ owed = owed'
  PROVE  Unanswered'
BY DEF Unanswered, FreshCall, HeadBegins, Sending, NoFields, NotYetCollected

LEMMA CookieExpiresApart ==
  ASSUME Shape, Apart, CookieExpires
  PROVE  Apart'
<1>1. UNCHANGED <<link, rx, flight, owed, http, call, served, stale>> /\ Fails /\ jar' \subseteq jar
  BY DEF CookieExpires
<1>2. used.faults \in Nat /\ used'.faults \in Nat /\ used.faults <= used'.faults
  BY <1>1 DEF Shape, Fails
<1>3. LinkFits' /\ http'.collected \in 0..Len(served')
  BY <1>1 DEF Apart, LinkFits
<1>4. CASE Unanswered
  <2>1. Unanswered'
    BY <1>1, <1>4, UnansweredSame DEF Unanswered
  <2> QED BY <1>3, <2>1 DEF Apart
<1>5. ASSUME NEW p, NEW c, NEW d, NEW m, NEW j, Answered(p, c, d, m, j) PROVE Apart'
  <2>1. PICK r : r = Len(served)
    OBVIOUS
  <2>2. Under(p, r, c, d, m, j)'
    BY <1>1, <1>5, <2>1, UnderStays DEF Answered
  <2>3. Stage(p, r, d, m, j)'
    BY <1>1, <1>2, <1>5, <2>1, StageSame DEF Answered
  <2>4. Answered(p, c, d, m, j)'
    BY <1>1, <1>5, <2>1, <2>2, <2>3 DEF Answered
  <2> QED BY <1>3, <2>4 DEF Apart
<1> QED BY <1>4, <1>5 DEF Apart

LEMMA OneToken ==
  ASSUME NEW n, n \in 1..Len(<<Fin>>)
  PROVE  n = 1 /\ SubSeq(<<Fin>>, 1, n - 1) = <<>> /\ Rest(<<Fin>>, n) = <<>> /\ <<Fin>>[n] = Fin
BY DEF Rest

LEMMA ArriveApart ==
  ASSUME Shape, Apart, Arrive
  PROVE  Apart'
<1>1. PICK n : Arrives(n) /\ link' = [link EXCEPT !.open = @ /\ flight[n].k # "fin"]
  BY ArriveIs
<1>2. UNCHANGED <<owed, http, jar, call, served, stale, used>> /\ used.faults \in Nat
  BY ArriveIs DEF Shape
<1>3. flight # <<>> /\ link.open /\ link.up
  BY <1>1 DEF Arrives, Apart, LinkFits
<1>4. owed = "none"
  BY <1>3 DEF Apart, Unanswered, Answered
<1>5. (flight[n].k = "fin" => flight' = <<>>) => LinkFits'
  BY <1>1, <1>2, <1>3, <1>4 DEF LinkFits, Shape
<1>6. http'.collected \in 0..Len(served')
  BY <1>2 DEF Apart
<1>7. CASE Unanswered
  <2>1. rx = <<>> /\ flight = <<Fin>>
    BY <1>3, <1>7 DEF Unanswered
  <2>2. n = 1 /\ SubSeq(<<Fin>>, 1, n - 1) = <<>> /\ Rest(<<Fin>>, n) = <<>> /\ <<Fin>>[n] = Fin
    BY <1>1, <2>1, OneToken DEF Arrives
  <2>3. rx' = <<>> \o <<>> /\ flight' = <<>>
    BY <1>1, <2>1, <2>2, FinIs DEF Arrives
  <2>4. Unanswered'
    BY <1>2, <1>4, <1>7, <2>3, UnansweredSame
  <2> QED BY <1>5, <1>6, <2>3, <2>4 DEF Apart
<1>8. ASSUME NEW p, NEW c, NEW d, NEW m, NEW j, Answered(p, c, d, m, j) PROVE Apart'
  <2>1. PICK r : r = Len(served)
    OBVIOUS
  <2>2. /\ p \in Planned /\ r \in Nat /\ c \in BOOLEAN /\ Under(p, r, c, d, m, j)
        /\ Stage(p, r, d, m, j)
    BY <1>8, <2>1, ServedLength DEF Answered
  <2>3. PICK q \in 0..(j - m) : /\ Under(p, r, c, d, m + q, j)'
                                /\ flight[n].k = "fin" => flight' = <<>>
    BY <1>1, <2>2, UnderArrives
  <2>4. m \in Nat /\ j \in Nat /\ m <= j /\ Size(p) \in Nat
    BY <2>2, SizeIsNat DEF Under
  <2>5. Behind(p, r, m, j) => Behind(p, r, m + q, j)
    <3>1. m = j => m + q = j
      BY <2>3, <2>4
    <3>2. m + 1 >= Size(p) => (m + q) + 1 >= Size(p)
      BY <2>3, <2>4
    <3> QED BY <3>1, <3>2 DEF Behind
  <2>6. Stage(p, r, d, m + q, j)'
    <3>1. used.faults <= used.faults
      BY <1>2
    <3> QED BY <1>2, <2>2, <2>5, <3>1, StageSame
  <2>7. Answered(p, c, d, m + q, j)'
    BY <1>2, <1>8, <2>1, <2>3, <2>6 DEF Answered
  <2> QED BY <1>5, <1>6, <2>3, <2>7 DEF Apart
<1> QED BY <1>7, <1>8 DEF Apart

LEMMA ServerFailsApart ==
  ASSUME Shape, Apart, ServerFails
  PROVE  Apart'
<1>1. PICK n \in 0..Len(flight) :
         /\ flight' \in {SubSeq(flight, 1, n), Append(SubSeq(flight, 1, n), Fin)}
         /\ link' = link \/ link' = [link EXCEPT !.mute = TRUE]
  BY ServerFailsIs
<1>2. /\ \A i \in DOMAIN flight : flight[i].k # "fin"
      /\ link.up /\ link.open /\ owed' = "none" /\ Fails /\ UNCHANGED <<rx, http, jar, call, served, stale>>
  BY ServerFailsIs
<1>3. used.faults \in Nat /\ used'.faults \in Nat /\ used.faults <= used'.faults /\ used'.faults > 0
  BY <1>2 DEF Shape, Fails
<1>4. LinkFits' /\ http'.collected \in 0..Len(served')
  BY <1>1, <1>2 DEF Apart, LinkFits, Shape
<1>5. CASE Unanswered
  <2>1. rx = <<>> /\ flight = <<>>
    <3>1. flight # <<Fin>>
      <4> SUFFICES ASSUME flight = <<Fin>> PROVE FALSE
        OBVIOUS
      <4>1. 1 \in DOMAIN flight /\ flight[1] = Fin
        OBVIOUS
      <4> QED BY <1>2, <4>1, FinIs
    <3> QED BY <1>5, <3>1 DEF Unanswered
  <2>2. SubSeq(flight, 1, n) = <<>>
    <3>1. Len(<<>>) = 0 /\ SubSeq(<<>>, 1, 0) = <<>>
      OBVIOUS
    <3>2. n = 0
      BY <1>1, <2>1, <3>1
    <3> QED BY <2>1, <3>1, <3>2
  <2>3. flight' \in {<<>>, <<Fin>>}
    <3>1. Append(<<>>, Fin) = <<Fin>>
      OBVIOUS
    <3> QED BY <1>1, <2>2, <3>1, Zenon
  <2>4. Unanswered'
    BY <1>2, <1>5, <2>1, <2>3, UnansweredSame
  <2> QED BY <1>4, <2>4 DEF Apart
<1>6. ASSUME NEW p, NEW c, NEW d, NEW m, NEW j, Answered(p, c, d, m, j) PROVE Apart'
  <2>1. PICK r : r = Len(served)
    OBVIOUS
  <2>2. /\ p \in Planned /\ r \in Nat /\ c \in BOOLEAN /\ Under(p, r, c, d, m, j)
        /\ Stage(p, r, d, m, j)
    BY <1>6, <2>1, ServedLength DEF Answered
  <2>3. PICK q \in m..j : Under(p, r, c, d, m, q)'
    BY <1>1, <1>2, <2>2, UnderFails
  <2>4. m \in Nat /\ j \in Nat
    BY <2>2 DEF Under
  <2>5. Behind(p, r, m, j) => Behind(p, r, m, q)
    BY <2>3, <2>4 DEF Behind
  <2>6. Stage(p, r, d, m, q)'
    BY <1>2, <1>3, <2>2, <2>5, StageSame
  <2>7. Answered(p, c, d, m, q)'
    BY <1>2, <1>6, <2>1, <2>3, <2>6 DEF Answered
  <2> QED BY <1>4, <2>7 DEF Apart
<1> QED BY <1>5, <1>6 DEF Apart

LEMMA ReplyApart ==
  ASSUME Shape, Apart, Reply, plan' = plan
  PROVE  Apart'
<1>1. PICK r : r = Len(served)
  OBVIOUS
<1>2. PICK p, c, s :
         /\ p \in Planned /\ c \in BOOLEAN /\ Pieces(s, p, r, c, 0, Size(p))
         /\ flight' = flight \o (s \o (IF c THEN <<Fin>> ELSE <<>>))
         /\ served' = [served EXCEPT ![Len(served)].reply = p]
         /\ owed = "reply" /\ owed' = "none" /\ UNCHANGED <<link, rx, http, call, stale, used>>
  BY <1>1, ReplyIs
<1>3. Unanswered
  BY <1>2 DEF Apart, Answered
<1>4. rx = <<>> /\ flight = <<>> /\ served # <<>> /\ served[r].seen # "all" /\ r \in Nat /\ r >= 1
  BY <1>1, <1>2, <1>3, ServedLength DEF Unanswered
<1>5. Len(served') = r /\ served'[r].reply = p /\ served'[r].seen # "all"
  BY <1>1, <1>2, <1>4, ReplyServed, Zenon DEF Shape
<1>6. flight' \in {s, Append(s, Fin)}
  <2>1. s \in Seq(Token)
    BY <1>2 DEF Pieces
  <2>2. s \o <<Fin>> = Append(s, Fin) /\ s \o <<>> = s
    BY <2>1, FinIs
  <2>3. <<>> \o s = s /\ <<>> \o Append(s, Fin) = Append(s, Fin)
    BY <2>1, FinIs
  <2> QED BY <1>2, <1>4, <2>2, <2>3
<1>7. Under(p, r, c, 0, 0, Size(p))'
  <2>1. Size(p) \in Nat /\ Size(p) - 0 = Size(p) /\ 0 <= Size(p) /\ 0 <= 0 /\ 0 - 0 = 0 /\ 0 \in Nat
        /\ Size(p) <= Size(p)
    BY <1>2, SizeIsNat
  <2>2. Pieces(<<>>, p, r, c, 0, 0) /\ rx' = <<>>
    BY <1>2, <1>4, <2>1, NoPieces
  <2> QED BY <1>2, <1>6, <2>1, <2>2 DEF Under
<1>8. Stage(p, r, 0, 0, Size(p))'
  <2>1. Behind(p, r, 0, Size(p))'
    BY <1>5 DEF Behind
  <2>2. CASE call.pc \in {"idle", "begun", "request"}
    BY <1>2, <1>3, <2>1, <2>2 DEF Stage, Unanswered, FreshCall
  <2>3. CASE call.pc = "returned"
    <3>1. call'.pc = "returned" /\ ~(call'.result >= 0)
      BY <1>2, <1>3, <2>3 DEF Unanswered
    <3> QED BY <2>1, <3>1 DEF Stage, IsReturned
  <2>4. CASE call.pc = "head"
    <3>1. InHead(p, r, 0)'
      BY <1>1, <1>2, <1>3, <2>4 DEF Unanswered, HeadBegins, InHead, FreshCall, NoFields, NotYetCollected
    <3> QED BY <1>5, <3>1 DEF Stage
  <2>5. CASE call.pc \in {"stream", "sent"}
    <3>1. Sending(r)'
      BY <1>1, <1>2, <1>3, <2>5 DEF Unanswered, Sending, FreshCall, NotYetCollected
    <3> QED BY <1>5, <3>1 DEF Stage
  <2> QED BY <1>3, <2>2, <2>3, <2>4, <2>5 DEF Unanswered
<1>9. Answered(p, c, 0, 0, Size(p))'
  BY <1>2, <1>4, <1>5, <1>7, <1>8 DEF Answered
<1>10. LinkFits' /\ http'.collected \in 0..Len(served')
  BY <1>1, <1>2, <1>4, <1>5 DEF Apart, LinkFits
<1> QED BY <1>9, <1>10 DEF Apart

LEMMA LastPiece ==
  ASSUME NEW p \in Planned, Chunked(p), NEW r, NEW c
  PROVE  Tok(p, r, c, Size(p)) = BlankLine(r)
<1>1. Size(p) \in Nat /\ Size(p) >= 5
  BY SizeIsNat
<1>2. ~(Size(p) = 1) /\ ~(Size(p) = 2) /\ ~(Size(p) = 3)
  BY <1>1
<1> QED BY <1>2, Zenon DEF Tok

(* What a reply that comes to rest leaves on its way *)
LEMMA LeftGoing ==
  ASSUME NEW p \in Planned, NEW r \in Nat, NEW c \in BOOLEAN, NEW d, NEW m, NEW j,
         Under(p, r, c, d, m, j), Behind(p, r, m, j)
  PROVE  /\ \A t \in Going : t.r = r /\ (served[r].seen = "all" => t.k = "blank" /\ Chunked(p))
         /\ Going = {} => flight \in {<<>>, <<Fin>>}
<1>1. PICK f : Pieces(f, p, r, c, m, j - m) /\ flight \in {f, Append(f, Fin)}
  BY DEF Under
<1>2. m \in Nat /\ j \in Nat /\ m <= j /\ j <= Size(p) /\ j - m \in Nat /\ Size(p) \in Nat
  BY SizeIsNat DEF Under
<1>3. f \in Seq(Token) /\ Len(f) = j - m /\ Fin \in Token /\ Fin.k = "fin"
      /\ \A i \in 1..(j - m) : f[i] = Tok(p, r, c, m + i)
  BY <1>1, FinIs DEF Pieces
<1>4. /\ Append(f, Fin) \in Seq(Token) /\ Len(Append(f, Fin)) = Len(f) + 1
      /\ Append(f, Fin)[Len(f) + 1] = Fin /\ \A i \in 1..Len(f) : Append(f, Fin)[i] = f[i]
  BY <1>3, AppendLast
<1>5. flight \in Seq(Token) /\ \A i \in 1..Len(flight) : (i \in 1..(j - m) /\ flight[i] = f[i]) \/ flight[i] = Fin
  <2>1. CASE flight = f
    BY <1>3, <2>1
  <2>2. CASE flight = Append(f, Fin)
    <3>1. ASSUME NEW i \in 1..Len(flight)
          PROVE  (i \in 1..(j - m) /\ flight[i] = f[i]) \/ flight[i] = Fin
      <4>1. i \in 1..(j - m) \/ i = Len(f) + 1
        BY <1>2, <1>3, <1>4, <2>2, <3>1
      <4> QED BY <1>3, <1>4, <2>2, <4>1
    <3> QED BY <1>4, <2>2, <3>1
  <2> QED BY <1>1, <2>1, <2>2
<1>6. ASSUME NEW t \in Going
      PROVE  t.r = r /\ (served[r].seen = "all" => t.k = "blank" /\ Chunked(p))
  <2>1. PICK i \in 1..(j - m) : t = f[i]
    BY <1>3, <1>5, <1>6, ElementsOf DEF Going
  <2>2. t.r = r
    BY <1>1, <1>2, <2>1, PiecesAreNoEnd
  <2>3. ASSUME served[r].seen = "all" PROVE t.k = "blank" /\ Chunked(p)
    <3>1. Chunked(p) /\ m + 1 >= Size(p)
      BY <1>2, <2>1, <2>3 DEF Behind
    <3>2. m + i = Size(p)
      BY <1>2, <2>1, <3>1
    <3>3. t = BlankLine(r)
      BY <1>3, <2>1, <3>1, <3>2, LastPiece
    <3> QED BY <3>1, <3>3 DEF BlankLine
  <2> QED BY <2>2, <2>3
<1>7. ASSUME Going = {} PROVE flight \in {<<>>, <<Fin>>}
  <2>1. f = <<>>
    <3> SUFFICES ASSUME f # <<>> PROVE FALSE
      OBVIOUS
    <3>1. 1 \in 1..(j - m) /\ 1 \in 1..Len(flight) /\ flight[1] = f[1]
      <4>1. Len(f) # 0
        BY <1>3
      <4>2. 1 \in 1..Len(f)
        BY <1>2, <1>3, <4>1
      <4> QED BY <1>1, <1>2, <1>3, <1>4, <4>2
    <3>2. flight[1].k # "fin"
      BY <1>1, <1>2, <3>1, PiecesAreNoEnd
    <3>3. flight[1] \in Going
      BY <1>5, <3>1, <3>2, ElementsOf DEF Going
    <3> QED BY <1>7, <3>3
  <2>2. Append(<<>>, Fin) = <<Fin>>
    OBVIOUS
  <2> QED BY <1>1, <2>1, <2>2, Zenon
<1> QED BY <1>6, <1>7

LEMMA NothingGoing ==
  ASSUME flight \in {<<>>, <<Fin>>}
  PROVE  Going = {}
<1>1. \A i \in DOMAIN flight : flight[i] = Fin
  OBVIOUS
<1>2. ToSet(flight) \subseteq {Fin}
  BY <1>1 DEF ToSet
<1> QED BY <1>2, FinIs DEF Going

(* The next request, over a new connection or a kept one *)
LEMMA SendApart ==
  ASSUME Shape, stale = {}, Apart, Send
  PROVE  IF stale' = {} THEN Apart' ELSE \E s : Mixed(s)'
<1>1. PICK n \in Nat : n = Len(served)
  BY ServedLength
<1>2. PICK x : SendsOn(http', x) /\ served' = Append(served, x)
  BY SendIs
<1>3. /\ call.pc = "request" /\ used' = used
      /\ call' = [call EXCEPT !.pc = IF call.stream THEN "stream" ELSE "sent", !.first = TRUE]
  BY SendIs
<1>4. Len(served') = n + 1 /\ served'[n + 1].seen = "no" /\ \A i \in 1..n : served'[i] = served[i]
  BY <1>1, <1>2, SentServed DEF Shape, SendsOn
<1>5. served' # <<>> /\ Len(served') \in Nat
  <2>1. Len(<<>>) = 0
    OBVIOUS
  <2> QED BY <1>1, <1>4, <2>1
<1>6. call'.pc \in {"stream", "sent"} /\ call'.first /\ call'.stream = call.stream /\ FreshCall'
  <2>1. FreshCall
    BY <1>3, CallIsFresh
  <2> QED BY <1>3, <2>1 DEF Shape, CallFields, FreshCall
<1>7. NotYetCollected(n + 1)' /\ http'.collected \in 0..Len(served')
  <2>1. http.collected \in 0..n
    BY <1>1 DEF Apart
  <2>2. http'.collected = IF call.stream THEN http.collected ELSE 0
    BY <1>2 DEF SendsOn
  <2>4. http.collected < n + 1
    BY <2>1
  <2> QED BY <1>4, <1>6, <2>1, <2>2, <2>4 DEF NotYetCollected
<1>8. ASSUME rx' = <<>>, flight' \in {<<>>, <<Fin>>}, owed' # "none" => flight' = <<>>
      PROVE  Unanswered'
  <2>1. Sending(n + 1)'
    BY <1>6, <1>7 DEF Sending, FreshCall
  <2> QED BY <1>4, <1>5, <1>6, <1>8, <2>1 DEF Unanswered
<1>9. CASE ~Connected
  <2>1. rx' = <<>> /\ flight' = <<>> /\ stale' = stale
        /\ link' = [up |-> TRUE, at |-> http'.at, open |-> TRUE, mute |-> FALSE]
    BY <1>9, SendIs
  <2>2. LinkFits'
    BY <2>1 DEF LinkFits
  <2> QED BY <1>7, <1>8, <2>1, <2>2 DEF Apart
<1>10. CASE Connected
  <2>1. link.open /\ rx' = <<>> /\ UNCHANGED <<link, flight>> /\ stale' = Going
        /\ (~ServerOpen => owed' = "none")
    <3>1. stale' = stale \cup Going
      BY <1>10, SendIs
    <3>2. {} \cup Going = Going
      OBVIOUS
    <3> QED BY <1>10, <3>1, <3>2, SendIs
  <2>2. LinkFits'
    BY <2>1 DEF LinkFits, Apart
  <2>3. flight = <<Fin>> => owed' = "none"
    <3> SUFFICES ASSUME flight = <<Fin>> PROVE owed' = "none"
      OBVIOUS
    <3>1. 1 \in DOMAIN flight /\ flight[1].k = "fin"
      BY FinIs
    <3>2. ~ServerOpen
      BY <3>1, Zenon DEF ServerOpen
    <3> QED BY <2>1, <3>2
  <2>4. CASE flight \in {<<>>, <<Fin>>}
    <3>1. stale' = {}
      BY <2>1, <2>4, NothingGoing
    <3>2. Unanswered'
      BY <1>8, <2>1, <2>3, <2>4
    <3> QED BY <1>7, <2>2, <3>1, <3>2 DEF Apart
  <2>5. CASE flight \notin {<<>>, <<Fin>>}
    <3>1. PICK p, c, d, m, j : Answered(p, c, d, m, j)
      BY <2>5 DEF Apart, Unanswered
    <3>2. /\ n >= 1 /\ p = served[n].reply /\ p \in Planned /\ c \in BOOLEAN
          /\ Under(p, n, c, d, m, j) /\ Behind(p, n, m, j)
      BY <1>1, <3>1, StageBehind DEF Answered
    <3>3. /\ \A t \in Going : t.r = n /\ (served[n].seen = "all" => t.k = "blank" /\ Chunked(p))
          /\ Going # {}
      BY <2>5, <3>2, LeftGoing
    <3>4. stale' \cup Going' = Going /\ stale' # {}
      BY <2>1, <3>3 DEF Going
    <3>5. n \in 1..(Len(served') - 1) /\ served'[n] = served[n] /\ n <= n
      BY <1>4, <3>2
    <3>6. \E t \in stale' : t.r = n
      BY <2>1, <3>3
    <3>7. \A t \in stale' \cup Going' :
             /\ t.r \in Nat /\ n <= t.r
             /\ t.r = n /\ served'[n].seen = "all" => t.k = "blank" /\ served'[n].reply.framing = "chunked"
      BY <3>2, <3>3, <3>4, <3>5 DEF Chunked
    <3>8. Mixed(n)'
      BY <3>5, <3>6, <3>7 DEF Mixed, Going
    <3> QED BY <3>4, <3>8
  <2> QED BY <2>4, <2>5
<1> QED BY <1>9, <1>10

(* The payload goes out, and then its end: the reply may be on its way.     *)
LEMMA SendingApart ==
  ASSUME Shape, Apart, call.pc \in {"stream", "sent"}, UNCHANGED <<link, rx, flight, served, used>>,
         owed' = owed \/ (owed # "none" /\ owed' # "none"), http'.collected = http.collected,
         call'.pc \in {"stream", "sent", "head"},
         \A r : Sending(r) => IF call'.pc = "head" THEN HeadBegins(r)' ELSE Sending(r)'
  PROVE  Apart'
<1>1. LinkFits' /\ http'.collected \in 0..Len(served')
  BY DEF Apart, LinkFits
<1>2. CASE Unanswered
  <2>1. PICK r : r = Len(served)
    OBVIOUS
  <2>2. served # <<>> /\ IF call'.pc = "head" THEN HeadBegins(r)' ELSE Sending(r)'
    BY <1>2, <2>1 DEF Unanswered
  <2>3. Unanswered'
    BY <1>2, <2>1, <2>2 DEF Unanswered, Sending, HeadBegins, NotYetCollected
  <2> QED BY <1>1, <2>3 DEF Apart
<1>3. ASSUME NEW p, NEW c, NEW d, NEW m, NEW j, Answered(p, c, d, m, j) PROVE Apart'
  <2>1. PICK r : r = Len(served)
    OBVIOUS
  <2>2. Stage(p, r, d, m, j) /\ owed = "none" /\ Under(p, r, c, d, m, j) /\ p \in Planned
    BY <1>3, <2>1 DEF Answered
  <2>3. ~InHead(p, r, d) /\ ~IsAnswered(p, r, d) /\ ~InBody(p, r, d)
    BY DEF InHead, IsAnswered, InBody, InPlainBody, InChunkedBody
  <2>4. call.pc \notin {"idle", "begun", "request"} /\ call.pc # "returned"
    OBVIOUS
  <2>5. d = 0 /\ Sending(r) /\ served[r].seen # "all" /\ (j = Size(p) \/ used.faults > 0)
    BY <2>2, <2>3, <2>4, Zenon DEF Stage
  <2>6. Under(p, r, c, d, m, j)'
    BY <2>2, UnderStays
  <2>7. Sending(r)' \/ InHead(p, r, d)'
    BY <2>5 DEF InHead, HeadBegins
  <2>8. Stage(p, r, d, m, j)'
    BY <2>5, <2>7 DEF Stage
  <2>9. Answered(p, c, d, m, j)'
    BY <1>3, <2>1, <2>2, <2>6, <2>8 DEF Answered
  <2> QED BY <1>1, <2>9 DEF Apart
<1> QED BY <1>2, <1>3 DEF Apart

LEMMA BufferApart ==
  ASSUME Shape, Shape', Apart, Buffer, plan' = plan
  PROVE  Apart'
<1>1. CASE Return(-8)
  BY <1>1, BufferRests, RestsApart
<1>2. CASE ~Return(-8)
  <2>1. PICK left : call.pc = "stream" /\ call' = [call EXCEPT !.first = FALSE, !.left = left]
    BY <1>2 DEF Buffer
  <2>2. UNCHANGED <<link, rx, flight, owed, served, used, http>>
    BY <1>2 DEF Buffer, Keep
  <2>3. call'.pc = "stream" /\ call'.body = call.body /\ call'.raw = call.raw /\ call'.stream = call.stream
    BY <2>1 DEF Shape, CallFields
  <2>4. \A r : Sending(r) => Sending(r)'
    BY <2>2, <2>3 DEF Sending, NotYetCollected
  <2> QED BY <2>1, <2>2, <2>3, <2>4, SendingApart
<1> QED BY <1>1, <1>2

LEMMA StreamWritesApart ==
  ASSUME Shape, Apart, StreamWrites
  PROVE  Apart'
<1>1. /\ call.pc = "stream" /\ UNCHANGED <<link, rx, flight, http, served, used>>
      /\ owed' = owed \/ (owed = "more" /\ owed' = "reply")
      /\ \A o \in CallFields \ {"total", "left"} : call'[o] = call[o]
  BY StreamWritesIs
<1>2. call'.pc = "stream" /\ call'.body = call.body /\ call'.raw = call.raw /\ call'.stream = call.stream
  BY <1>1 DEF CallFields
<1>3. \A r : Sending(r) => Sending(r)'
  BY <1>1, <1>2 DEF Sending, NotYetCollected
<1> QED BY <1>1, <1>2, <1>3, SendingApart

LEMMA StreamEndsApart ==
  ASSUME Shape, Shape', Apart, StreamEnds, plan' = plan
  PROVE  Apart'
<1>1. CASE Return(-3)
  BY <1>1, StreamEndsRests, RestsApart
<1>2. CASE Streamed
  <2>1. call.pc = "stream" /\ UNCHANGED <<link, rx, flight, owed, served, used, http>>
    BY <1>2, StreamEndsIs DEF Streamed, Keep
  <2>2. /\ call'.pc = "sent" /\ call'.first /\ call'.left = 0 /\ call'.total = 0
        /\ call'.body = call.body /\ call'.raw = call.raw /\ call'.stream = call.stream
    BY <1>2 DEF Streamed, Shape, CallFields
  <2>3. \A r : Sending(r) => Sending(r)'
    BY <2>1, <2>2 DEF Sending, NotYetCollected, FreshCall
  <2> QED BY <2>1, <2>2, <2>3, SendingApart
<1> QED BY <1>1, <1>2, StreamEndsIs

LEMMA AwaitHeadApart ==
  ASSUME Shape, Shape', Apart, AwaitHead, plan' = plan
  PROVE  Apart'
<1>1. CASE Return(-4) /\ UNCHANGED http
  BY <1>1, AwaitHeadRests, RestsApart
<1>2. CASE Awaits
  <2>1. /\ call.pc = "sent" /\ UNCHANGED <<link, rx, flight, owed, served, used>>
        /\ http' = Renewed(http) /\ call' = [call EXCEPT !.pc = "head"]
    BY <1>2, AwaitHeadIs DEF Awaits, Keep
  <2>2. /\ call'.pc = "head" /\ call'.first = call.first /\ call'.left = call.left /\ call'.total = call.total
        /\ call'.body = call.body /\ call'.raw = call.raw /\ call'.stream = call.stream
    BY <2>1 DEF Shape, CallFields
  <2>3. http'.collected = http.collected /\ NoFields'
    BY <2>1, RenewedIs DEF Shape, Members, SameMembers, NoFields
  <2>4. \A r : Sending(r) => HeadBegins(r)'
    BY <2>1, <2>2, <2>3 DEF Sending, HeadBegins, NotYetCollected, FreshCall
  <2> QED BY <2>1, <2>2, <2>3, <2>4, SendingApart
<1> QED BY <1>1, <1>2, AwaitHeadIs

-----------------------------------------------------------------------------
(* Every step *)

LEMMA StepApart ==
  ASSUME Shape, Shape', stale = {}, Apart, Next
  PROVE  IF stale' = {} THEN Apart' ELSE \E s : Mixed(s)'
<1>1. plan' = plan
  BY DEF Next
<1>2. CASE Send
  BY <1>2, SendApart
<1>3. CASE ~Send
  <2>1. stale' = {}
    <3>1. Caller \/ CookieExpires \/ (Client /\ ~Send) => stale' = stale
      BY <1>1, QuietSteps, StreamWritesIs DEF Quiet
    <3>2. Reply \/ ServerFails \/ Arrive => stale' = stale
      BY DEF Reply, ServerFails, Arrive
    <3> QED BY <1>3, <3>1, <3>2 DEF Next
  <2>2. CASE Begin \/ Ask \/ End \/ CannotSend \/ StreamFails \/ NoHead \/ NoChunk \/ BlockFails
    <3>1. Rests
      BY <1>1, <2>2, BeginRests, AskRests, EndRests, CannotSendRests, StreamFailsRests, NoHeadRests, NoChunkRests, BlockFailsRests
    <3> QED BY <2>1, <3>1, RestsApart
  <2>3. CASE GetString \/ ReadStream \/ HeadLine \/ HeadEnds \/ ReadBlock \/ BlockEnds \/ ReadChunkSize
             \/ ReadTrailer
    BY <1>1, <2>1, <2>3, GetStringApart, ReadStreamApart, HeadLineApart, HeadEndsApart, ReadBlockApart,
       BlockEndsApart, ReadChunkSizeApart, ReadTrailerApart
  <2>5. CASE Buffer \/ StreamWrites \/ StreamEnds \/ AwaitHead
    BY <1>1, <2>1, <2>5, BufferApart, StreamWritesApart, StreamEndsApart, AwaitHeadApart
  <2>4. CASE CookieExpires \/ Reply \/ ServerFails \/ Arrive
    BY <1>1, <2>1, <2>4, CookieExpiresApart, ReplyApart, ServerFailsApart, ArriveApart
  <2> QED BY <1>3, <2>2, <2>3, <2>4, <2>5 DEF Next, Caller, Client
<1> QED BY <1>2, <1>3

LEMMA HttpInitially == ASSUME Init PROVE HttpInv
<1>1. Shape
  <2>1. IsServed(<<>>) /\ <<>> \in Seq(Token)
    BY DEF IsServed, IsArray
  <2> QED BY <2>1 DEF Init, Shape, CallFields, HttpFields, Down, Idle
<1>2. LinkFits /\ http.collected \in 0..Len(served)
  BY DEF Init, LinkFits, Down
<1>3. Unanswered
  BY DEF Init, Unanswered, Idle, FreshCall
<1>4. stale = {}
  BY DEF Init
<1> QED BY <1>1, <1>2, <1>3, <1>4 DEF HttpInv, Apart

LEMMA HttpStutters ==
  ASSUME HttpInv, UNCHANGED vars
  PROVE  HttpInv'
BY DEF HttpInv, vars, Shape, IsServed, IsArray, Mixed, Going, Apart, LinkFits, Unanswered, FreshCall, HeadBegins,
       Sending, NoFields, NotYetCollected, Answered, Under, Stage, Behind, IsReturned, Collected, InHead, IsAnswered,
       HeadTold, Fields, InBody, InPlainBody, InChunkedBody

LEMMA HttpSteps ==
  ASSUME HttpInv, [Next]_vars
  PROVE  HttpInv'
<1>1. CASE Next
  <2>1. Shape /\ Shape'
    BY <1>1, ShapeKept DEF HttpInv
  <2>2. CASE stale = {}
    BY <1>1, <2>1, <2>2, StepApart DEF HttpInv
  <2>3. CASE stale # {}
    <3>1. PICK s : Mixed(s)
      BY <2>3 DEF HttpInv
    <3>2. Mixed(s)'
      BY <1>1, <2>1, <3>1, MixedKept
    <3>3. stale' # {}
      BY <3>2 DEF Mixed
    <3> QED BY <2>1, <3>2, <3>3 DEF HttpInv
  <2> QED BY <2>2, <2>3
<1>2. CASE UNCHANGED vars
  BY <1>2, HttpStutters
<1> QED BY <1>1, <1>2

LEMMA HttpInvKeepsApart ==
  ASSUME HttpInv
  PROVE  RepliesKeptApart
<1>1. ASSUME NEW t \in stale, \A u \in stale : t.r <= u.r, served[t.r].seen = "all"
      PROVE  t.k = "blank" /\ served[t.r].reply.framing = "chunked"
  <2>1. PICK s : Mixed(s)
    BY <1>1 DEF HttpInv
  <2>2. PICK u \in stale : u.r = s
    BY <2>1 DEF Mixed
  <2>3. t.r \in Nat /\ s \in Nat /\ s <= t.r /\ t.r <= s
    BY <1>1, <2>1, <2>2 DEF Mixed
  <2>4. t.r = s
    BY <2>3
  <2> QED BY <1>1, <2>1, <2>4 DEF Mixed
<1>2. ASSUME stale = {}, call.pc \in {"answered", "returned"}, call.result >= 0, served # <<>>,
             NEW r, r = Len(served), NEW p, p = served[r].reply
      PROVE  /\ call.pc = "answered" => call.result = p.code
             /\ \/ http.collected = IF p.mark THEN r ELSE 0
                \/ call.stream /\ ~p.mark /\ http.collected < r
             /\ call.body = Body(1, Len(call.body), r)
                \/ (call.raw /\ p.framing \in {"chunked", "other"})
             /\ served[r].seen = "all" =>
                  Len(call.body) = p.size \/ (p.framing = "none" /\ used.faults > 0)
  <2>1. ~Unanswered
    BY <1>2 DEF Unanswered
  <2>2. PICK c, d, m, j : Stage(p, r, d, m, j)
    BY <1>2, <2>1 DEF HttpInv, Apart, Answered
  <2>3. CASE call.pc = "answered"
    <3>1. IsAnswered(p, r, d) /\ served[r].seen # "all"
      BY <2>2, <2>3 DEF Stage, Sending, InHead, InBody, InPlainBody, InChunkedBody
    <3>2. call.body = <<>> /\ Len(<<>>) = 0 /\ Body(1, 0, r) = <<>>
      BY <3>1, BodyIs DEF IsAnswered, FreshCall
    <3> QED BY <3>1, <3>2 DEF IsAnswered, Collected
  <2>4. CASE call.pc = "returned"
    <3>1. IsReturned(p, r)
      BY <2>2, <2>4 DEF Stage, Sending, InHead, IsAnswered, InBody, InPlainBody, InChunkedBody
    <3>2. /\ Collected(p, r)
          /\ \/ \E b \in Nat : call.body = Body(1, b, r)
             \/ call.raw /\ p.framing \in {"chunked", "other"}
          /\ served[r].seen = "all" =>
               Len(call.body) = p.size \/ (p.framing = "none" /\ used.faults > 0)
      BY <1>2, <3>1 DEF IsReturned
    <3>3. \/ call.body = Body(1, Len(call.body), r)
          \/ call.raw /\ p.framing \in {"chunked", "other"}
      BY <3>2, BodyIs
    <3> QED BY <2>4, <3>2, <3>3 DEF Collected
  <2> QED BY <1>2, <2>3, <2>4
<1> QED BY <1>1, <1>2 DEF RepliesKeptApart

(* What is under way is of one reply, read as far as the call has come, or   *)
(* of replies that were left behind in their order.                        *)
THEOREM HttpInvariant == Spec => []HttpInv
<1>1. Spec => []HttpInv
  BY HttpInitially, HttpSteps, PTL DEF Spec
<1> QED BY <1>1

(* Every call of HTTPClient returns the code, the header and the body of   *)
(* the reply to its own request, and a body that counts as whole is whole. *)
THEOREM RepliesAreKeptApart == Spec => []RepliesKeptApart
BY HttpInvariant, HttpInvKeepsApart, PTL

(* So they do beside WiFiManager, with which they take turns.               *)
THEOREM LoopKeepsRepliesApart == LoopSpec => []RepliesKeptApart
<1>1. LoopInit => Init
  BY DEF LoopInit
<1>2. [LoopNext]_loopVars => [Next]_vars
  BY DEF LoopNext, loopVars
<1> QED BY <1>1, <1>2, HttpInitially, HttpSteps, HttpInvKeepsApart, PTL DEF LoopSpec

-----------------------------------------------------------------------------
(* What is asked *)

(* A header is a line of a name and a value, of a cookie those of all that  *)
(* are sent in it.                                                         *)
Values == Nat \cup SUBSET Nat
HeaderLine == [name : {"length", "cookie", "x-cookie"}, value : Values]

(* No name stands twice among them, but for the two ways in which it may. *)
HeadersFit(hs, begun, calls) ==
  /\ hs \in Seq(HeaderLine) /\ OnlyOne(hs, "length")
  /\ OnlyOne(hs, "cookie") \/ Lines(hs, "x-cookie") # {}
  /\ OnlyOne(hs, "x-cookie") \/ (begun = "client" /\ \E c \in 1..calls : plan.calls[c].header = "add")

(* Each cookie in the jar is of the last reply that set one for its domain. *)
JarFits ==
  \A c \in jar :
    /\ c.value \in 1..Len(served) /\ DomainOf(c.value) = c.domain /\ served[c.value].reply # NoReply
    /\ \A k \in (c.value + 1)..Len(served) : Sets(k) => DomainOf(k) # c.domain

(* _location is what the latest reply that told a place told, or nothing.   *)
LocationFits ==
  \/ http.location.kind = "none" /\ \A k \in 1..Len(served) : served[k].seen # "no" => ~Tells(k)
  \/ \E j \in Latest(Len(served) + 1) : http.location = served[j].reply.location

(* A connection is that of the last request, and to the host to be asked    *)
(* next, unless the last one was misled or begin(host, port, uri) has just  *)
(* named another.                                                          *)
Misled == served[Len(served)].at.host # served[Len(served)].wanted.host
LinkFitsHost ==
  Connected =>
    /\ served # <<>> /\ link.at = served[Len(served)].at /\ http.at \in Place
    /\ \/ link.at.host = http.at.host \/ Misled
       \/ http.begun = "host" /\ call.pc \in {"begun", "request"} /\ call.redirects = 0

(* The requests that were sent, whether or not they have been replied to    *)
ServedFields == {"at", "wanted", "begun", "type", "payload", "headers", "redirect", "call", "reply", "seen"}
ServedFit ==
  /\ \A i \in 1..Len(served) :
       /\ DOMAIN served[i] = ServedFields /\ served[i].wanted \in Place
       /\ served[i].reply \in Planned \cup {NoReply}
       /\ served[i].reply = NoReply => served[i].seen = "no"
  /\ owed # "none" => served # <<>> /\ served[Len(served)].reply = NoReply

(* A call is ready to send what its caller asked for, or, of a redirect to  *)
(* l, what this comes to.                                                  *)
Asking ==
  LET q == plan.calls[used.calls]
      marked == q.header # "none"
  IN  /\ http.at = q.at /\ call.type = q.type /\ call.payload = q.payload
      /\ http.begun # "client" =>
           \A o : Named(http.headers, o) = IF o = "x-cookie" /\ marked THEN {used.calls} ELSE {}
      /\ marked => used.calls \in Named(http.headers, "x-cookie")

Moving(l) ==
  LET b == served[Len(served)]
  IN  /\ http.at = IF l.kind = "url" THEN l.at ELSE b.wanted
      /\ http.headers = IF l.kind = "url" THEN b.headers ELSE <<>>
      /\ \/ b.reply.code \in {302, 303} /\ call.type = "GET" /\ call.payload = 0
         \/ b.reply.code \in {301, 307} /\ call.type = b.type /\ call.payload = b.payload

(* While the reply is awaited the client still holds what it sent.          *)
HeadFits ==
  LET b == served[Len(served)]
  IN  /\ http.at = b.wanted /\ http.headers = b.headers /\ http.begun = b.begun
      /\ call.type = b.type /\ call.payload = b.payload /\ used.calls = b.call

(* Where the call stands, and what is due then *)
CallFits ==
  /\ call.redirects \in Nat /\ used.calls \in Nat
  /\ call.pc = "begun" =>
       /\ call.redirects = 0 /\ used.calls < Len(plan.calls) /\ http.at = plan.calls[used.calls + 1].at
       /\ http.begun \in {"host", "url", "client"} /\ (http.begun # "client" => http.headers = <<>>)
  /\ call.pc \in {"request", "stream", "sent", "head"} =>
       used.calls \in 1..Len(plan.calls) /\ call.payload \in Nat
  /\ call.pc = "request" /\ call.redirects = 0 => Asking
  /\ call.pc = "request" /\ call.redirects > 0 =>
       served # <<>> /\ \E j \in Latest(Len(served) + 1) : Moving(served[j].reply.location)
  /\ call.pc \in {"stream", "sent", "head"} => served # <<>> /\ HeadFits
  /\ call.pc \in {"answered", "block", "chunk", "trailer"} =>
       served # <<>> /\ served[Len(served)].seen # "no"

(* All of it, as long as no reply is under way when a later request is made *)
Asks ==
  /\ HeadersFit(http.headers, http.begun, used.calls) /\ JarFits /\ LocationFits /\ LinkFitsHost
  /\ ServedFit /\ CallFits /\ \A i \in 1..Len(served) : RequestFits(i)

AskedInv == stale = {} => Asks

(* Sequences of anything *)
LEMMA AppendIs ==
  ASSUME NEW S, NEW s \in Seq(S), NEW c \in S
  PROVE  /\ Append(s, c) \in Seq(S) /\ Len(Append(s, c)) = Len(s) + 1 /\ Append(s, c)[Len(s) + 1] = c
         /\ \A k \in 1..Len(s) : Append(s, c)[k] = s[k]
OBVIOUS

LEMMA JoinIs ==
  ASSUME NEW S, NEW s \in Seq(S), NEW t \in Seq(S)
  PROVE  /\ s \o t \in Seq(S) /\ Len(s \o t) = Len(s) + Len(t)
         /\ \A i \in 1..Len(s) : (s \o t)[i] = s[i]
OBVIOUS

LEMMA FirstAndRest ==
  ASSUME NEW S, NEW s \in Seq(S), s # <<>>
  PROVE  Head(s) \in S /\ Tail(s) \in Seq(S) /\ Len(Tail(s)) = Len(s) - 1 /\ Len(s) >= 1
OBVIOUS

-----------------------------------------------------------------------------
(* Headers *)

(* The community modules' Min, of numbers *)
LEMMA Smallest ==
  ASSUME NEW S \in SUBSET Nat, S # {}
  PROVE  Min(S) \in S /\ \A y \in S : Min(S) <= y
<1> DEFINE R == OpToRel(<, Nat)
<1>1. IsWellFoundedOn(R, Nat)
  BY NatLessThanWellFounded, Zenon
<1>2. PICK x \in S : \A y \in S : <<y, x>> \notin R
  <2> HIDE DEF R
  <2> QED BY <1>1, WFMin
<1>3. \A y \in S : ~(y < x)
  BY <1>2 DEF OpToRel
<1>4. \A y \in S : x <= y
  BY <1>3
<1> QED BY <1>4 DEF Min

Names == {"length", "cookie", "x-cookie"}

(* RemoveAt, line by line *)
LEMMA Removed ==
  ASSUME NEW hs \in Seq(HeaderLine), NEW m \in 1..Len(hs)
  PROVE  /\ RemoveAt(hs, m) \in Seq(HeaderLine) /\ Len(RemoveAt(hs, m)) = Len(hs) - 1
         /\ \A i \in 1..(Len(hs) - 1) : RemoveAt(hs, m)[i] = IF i < m THEN hs[i] ELSE hs[i + 1]
<1> DEFINE a == SubSeq(hs, 1, m - 1)
           b == SubSeq(hs, m + 1, Len(hs))
<1>1. a \in Seq(HeaderLine) /\ Len(a) = m - 1 /\ \A i \in 1..(m - 1) : a[i] = hs[i]
  OBVIOUS
<1>2. b \in Seq(HeaderLine) /\ Len(b) = Len(hs) - m /\ \A i \in 1..(Len(hs) - m) : b[i] = hs[m + i]
  OBVIOUS
<1>3. /\ a \o b \in Seq(HeaderLine) /\ Len(a \o b) = Len(hs) - 1
      /\ \A i \in 1..(Len(hs) - 1) : (a \o b)[i] = IF i < m THEN a[i] ELSE b[i - (m - 1)]
  <2> HIDE DEF a, b
  <2>1. a \o b \in Seq(HeaderLine) /\ Len(a \o b) = Len(a) + Len(b)
    BY <1>1, <1>2, JoinIs
  <2>2. ASSUME NEW i \in 1..(Len(a) + Len(b))
        PROVE  (a \o b)[i] = IF i <= Len(a) THEN a[i] ELSE b[i - Len(a)]
    BY <1>1, <1>2, <2>2
  <2> QED BY <1>1, <1>2, <2>1, <2>2
<1>4. RemoveAt(hs, m) = a \o b
  BY DEF RemoveAt
<1>5. ASSUME NEW i \in 1..(Len(hs) - 1), ~(i < m) PROVE b[i - (m - 1)] = hs[i + 1]
  <2>1. i - (m - 1) \in 1..(Len(hs) - m) /\ m + (i - (m - 1)) = i + 1
    BY <1>5
  <2> QED BY <1>2, <2>1
<1> HIDE DEF a, b
<1> QED BY <1>1, <1>3, <1>4, <1>5

(* The list without at most one line, which has the name *)
Without(rest, hs, name) ==
  \/ rest = hs
  \/ \E m \in 1..Len(hs) : hs[m].name = name /\ rest = RemoveAt(hs, m)

(* Other names lose nothing, and a single line stays single. *)
LEMMA WithoutKeeps ==
  ASSUME NEW hs \in Seq(HeaderLine), NEW rest, NEW name, Without(rest, hs, name)
  PROVE  /\ rest \in Seq(HeaderLine)
         /\ \A o : o # name => Named(rest, o) = Named(hs, o)
         /\ \A o : OnlyOne(hs, o) => OnlyOne(rest, o)
<1>1. CASE rest = hs
  BY <1>1
<1>2. ASSUME NEW m \in 1..Len(hs), hs[m].name = name, rest = RemoveAt(hs, m)
      PROVE  /\ rest \in Seq(HeaderLine)
             /\ \A o : o # name => Named(rest, o) = Named(hs, o)
             /\ \A o : OnlyOne(hs, o) => OnlyOne(rest, o)
  <2>1. /\ rest \in Seq(HeaderLine) /\ Len(rest) = Len(hs) - 1
        /\ \A i \in 1..(Len(hs) - 1) : rest[i] = IF i < m THEN hs[i] ELSE hs[i + 1]
    BY <1>2, Removed
  <2>2. DOMAIN rest = 1..(Len(hs) - 1) /\ DOMAIN hs = 1..Len(hs) /\ Len(hs) \in Nat
    BY <2>1
  <2>3. ASSUME NEW o, o # name PROVE Named(rest, o) = Named(hs, o)
    <3>1. ASSUME NEW i \in 1..(Len(hs) - 1) PROVE \E k \in 1..Len(hs) : rest[i] = hs[k]
      BY <2>1
    <3>2. ASSUME NEW k \in 1..Len(hs), k # m PROVE \E i \in 1..(Len(hs) - 1) : rest[i] = hs[k]
      <4>1. CASE k < m
        BY <2>1, <3>2, <4>1
      <4>2. CASE k > m
        <5>1. k - 1 \in 1..(Len(hs) - 1) /\ ~(k - 1 < m) /\ (k - 1) + 1 = k
          BY <4>2
        <5>2. rest[k - 1] = hs[k]
          BY <2>1, <5>1
        <5> QED BY <5>1, <5>2
      <4> QED BY <3>2, <4>1, <4>2
    <3>3. ASSUME NEW v \in Named(rest, o) PROVE v \in Named(hs, o)
      <4>1. PICK i \in DOMAIN rest : rest[i].name = o /\ v = rest[i].value
        BY <3>3 DEF Named, Lines
      <4>2. PICK k \in DOMAIN hs : rest[i] = hs[k]
        BY <2>2, <3>1, <4>1
      <4> QED BY <4>1, <4>2 DEF Named, Lines
    <3>4. ASSUME NEW v \in Named(hs, o) PROVE v \in Named(rest, o)
      <4>1. PICK k \in DOMAIN hs : hs[k].name = o /\ v = hs[k].value
        BY <3>4 DEF Named, Lines
      <4>2. k # m
        BY <1>2, <2>3, <4>1
      <4>3. PICK i \in DOMAIN rest : rest[i] = hs[k]
        BY <2>2, <3>2, <4>2
      <4> QED BY <4>1, <4>3 DEF Named, Lines
    <3> QED BY <3>3, <3>4
  <2>4. ASSUME NEW o, OnlyOne(hs, o) PROVE OnlyOne(rest, o)
    <3>1. SUFFICES ASSUME NEW i \in Lines(rest, o), NEW k \in Lines(rest, o) PROVE i = k
      BY DEF OnlyOne
    <3> DEFINE f(x) == IF x < m THEN x ELSE x + 1
    <3>2. i \in 1..(Len(hs) - 1) /\ k \in 1..(Len(hs) - 1) /\ rest[i].name = o /\ rest[k].name = o
      BY <2>2 DEF Lines
    <3>3. f(i) \in 1..Len(hs) /\ f(k) \in 1..Len(hs) /\ rest[i] = hs[f(i)] /\ rest[k] = hs[f(k)]
      BY <2>1, <3>2
    <3>4. f(i) \in Lines(hs, o) /\ f(k) \in Lines(hs, o)
      BY <2>2, <3>2, <3>3 DEF Lines
    <3>5. f(i) = f(k)
      <4> HIDE DEF f
      <4> QED BY <2>4, <3>4 DEF OnlyOne
    <3> QED BY <3>2, <3>5
  <2> QED BY <2>1, <2>3, <2>4
<1> QED BY <1>1, <1>2 DEF Without

(* A line added at the end *)
LEMMA Joins ==
  ASSUME NEW rest \in Seq(HeaderLine), NEW added \in HeaderLine
  PROVE  /\ Append(rest, added) \in Seq(HeaderLine)
         /\ \A o : o # added.name =>
              /\ Lines(Append(rest, added), o) = Lines(rest, o)
              /\ Named(Append(rest, added), o) = Named(rest, o)
              /\ OnlyOne(rest, o) => OnlyOne(Append(rest, added), o)
         /\ Lines(Append(rest, added), added.name) = Lines(rest, added.name) \cup {Len(rest) + 1}
         /\ Named(Append(rest, added), added.name) = Named(rest, added.name) \cup {added.value}
         /\ LastOf(Append(rest, added), added.name, added.value)
<1> DEFINE new == Append(rest, added)
           n == Len(rest)
<1>1. /\ new \in Seq(HeaderLine) /\ n \in Nat /\ DOMAIN new = 1..(n + 1) /\ DOMAIN rest = 1..n
      /\ new[n + 1] = added /\ \A i \in 1..n : new[i] = rest[i]
  OBVIOUS
<1> HIDE DEF new
<1>2. ASSUME NEW o, o # added.name
      PROVE  Lines(new, o) = Lines(rest, o) /\ Named(new, o) = Named(rest, o)
             /\ (OnlyOne(rest, o) => OnlyOne(new, o))
  <2>1. Lines(new, o) = Lines(rest, o)
    BY <1>1, <1>2 DEF Lines
  <2>2. \A i \in Lines(rest, o) : new[i] = rest[i]
    BY <1>1 DEF Lines
  <2>3. Named(new, o) = Named(rest, o)
    BY <2>1, <2>2 DEF Named
  <2> QED BY <2>1, <2>3 DEF OnlyOne
<1>3. Lines(new, added.name) = Lines(rest, added.name) \cup {n + 1}
  BY <1>1 DEF Lines
<1>4. Named(new, added.name) = Named(rest, added.name) \cup {added.value}
  <2>1. \A i \in Lines(rest, added.name) : new[i] = rest[i]
    BY <1>1 DEF Lines
  <2> QED BY <1>1, <1>3, <2>1 DEF Named
<1>5. LastOf(new, added.name, added.value)
  <2>1. \A j \in Lines(new, added.name) : j <= n + 1
    BY <1>1 DEF Lines
  <2>2. n + 1 \in Lines(new, added.name) /\ new[n + 1].value = added.value
    BY <1>1, <1>3
  <2> QED BY <2>1, <2>2 DEF LastOf
<1> QED BY <1>1, <1>2, <1>3, <1>4, <1>5 DEF new

(* addHeader() puts a line at the end, and of the same name takes at most   *)
(* one away; with a single one that no longer name hides, it takes that.   *)
LEMMA AddIs ==
  ASSUME NEW hs \in Seq(HeaderLine), NEW name \in Names, NEW v, NEW replace \in BOOLEAN
  PROVE  \E rest :
           /\ Without(rest, hs, name)
           /\ AddHeader(hs, name, v, replace) = Append(rest, [name |-> name, value |-> v])
           /\ replace /\ OnlyOne(hs, name) /\ (name = "cookie" => Lines(hs, "x-cookie") = {}) =>
                Lines(rest, name) = {}
<1> DEFINE found == {i \in DOMAIN hs : EndsWith(hs[i].name, name)}
           takes == replace /\ found # {} /\ hs[Min(found)].name = name
<1>1. found \in SUBSET Nat /\ DOMAIN hs = 1..Len(hs) /\ found \subseteq 1..Len(hs)
  OBVIOUS
<1>2. AddHeader(hs, name, v, replace) =
        Append(IF takes THEN RemoveAt(hs, Min(found)) ELSE hs, [name |-> name, value |-> v])
  BY Zenon DEF AddHeader
<1>3. Lines(hs, name) \subseteq found
  BY DEF Lines, EndsWith
<1>4. (name = "cookie" => Lines(hs, "x-cookie") = {}) => found = Lines(hs, name)
  BY <1>1 DEF Lines, EndsWith
<1>5. CASE takes
  <2>1. PICK m : m = Min(found)
    OBVIOUS
  <2>2. m \in 1..Len(hs) /\ hs[m].name = name
    <3> HIDE DEF found
    <3> QED BY <1>1, <1>5, <2>1, Smallest
  <2>3. PICK rest : rest = RemoveAt(hs, m)
    OBVIOUS
  <2>4. ASSUME OnlyOne(hs, name) PROVE Lines(rest, name) = {}
    <3>1. \A i \in Lines(hs, name) : i = m
      BY <2>2, <2>4 DEF OnlyOne, Lines
    <3>2. SUFFICES ASSUME NEW i \in Lines(rest, name) PROVE FALSE
      OBVIOUS
    <3>3. /\ rest \in Seq(HeaderLine) /\ Len(rest) = Len(hs) - 1
          /\ \A k \in 1..(Len(hs) - 1) : rest[k] = IF k < m THEN hs[k] ELSE hs[k + 1]
      BY <2>2, <2>3, Removed
    <3>4. i \in 1..(Len(hs) - 1) /\ rest[i].name = name
      BY <3>3 DEF Lines
    <3>5. (IF i < m THEN i ELSE i + 1) \in 1..Len(hs) /\ (IF i < m THEN i ELSE i + 1) # m
      BY <2>2, <3>4
    <3>6. rest[i] = hs[IF i < m THEN i ELSE i + 1]
      BY <3>3, <3>4
    <3>7. (IF i < m THEN i ELSE i + 1) \in Lines(hs, name)
      BY <3>4, <3>5, <3>6 DEF Lines
    <3> QED BY <3>1, <3>5, <3>7
  <2>5. Without(rest, hs, name)
    BY <2>2, <2>3 DEF Without
  <2>6. AddHeader(hs, name, v, replace) = Append(rest, [name |-> name, value |-> v])
    <3> HIDE DEF found
    <3> QED BY <1>2, <1>5, <2>1, <2>3
  <2> QED BY <2>4, <2>5, <2>6
<1>6. CASE ~takes
  <2>1. AddHeader(hs, name, v, replace) = Append(hs, [name |-> name, value |-> v])
    <3> HIDE DEF takes
    <3> QED BY <1>2, <1>6
  <2>2. ASSUME replace, name = "cookie" => Lines(hs, "x-cookie") = {} PROVE Lines(hs, name) = {}
    <3>1. found = Lines(hs, name)
      BY <1>4, <2>2
    <3>2. Lines(hs, name) # {} => Min(Lines(hs, name)) \in Lines(hs, name)
      BY <1>1, <3>1, Smallest
    <3>3. \A i \in Lines(hs, name) : hs[i].name = name
      BY DEF Lines
    <3> HIDE DEF found
    <3> QED BY <1>6, <2>2, <3>1, <3>2, <3>3
  <2> QED BY <2>1, <2>2 DEF Without
<1> QED BY <1>5, <1>6

(* What adding does to the lines *)
Adds(new, hs, name, v) ==
  /\ new \in Seq(HeaderLine) /\ LastOf(new, name, v) /\ v \in Named(new, name)
  /\ \A o : o # name => Named(new, o) = Named(hs, o) /\ (OnlyOne(hs, o) => OnlyOne(new, o))
Sole(hs, name, v) == OnlyOne(hs, name) /\ Named(hs, name) = {v}

LEMMA JoinAdds ==
  ASSUME NEW hs \in Seq(HeaderLine), NEW name \in Names, NEW v \in Values, NEW rest, Without(rest, hs, name),
         NEW new, new = Append(rest, [name |-> name, value |-> v])
  PROVE  Adds(new, hs, name, v) /\ (Lines(rest, name) = {} => Sole(new, name, v))
<1>2. /\ rest \in Seq(HeaderLine)
      /\ \A o : o # name => Named(rest, o) = Named(hs, o)
      /\ \A o : OnlyOne(hs, o) => OnlyOne(rest, o)
  BY WithoutKeeps
<1>3. PICK added : added = [name |-> name, value |-> v]
  OBVIOUS
<1>4. added \in HeaderLine /\ added.name = name /\ added.value = v
  BY <1>3 DEF HeaderLine, Names
<1>5. /\ Append(rest, added) \in Seq(HeaderLine)
      /\ \A o : o # added.name =>
           /\ Named(Append(rest, added), o) = Named(rest, o)
           /\ OnlyOne(rest, o) => OnlyOne(Append(rest, added), o)
      /\ Lines(Append(rest, added), added.name) = Lines(rest, added.name) \cup {Len(rest) + 1}
      /\ Named(Append(rest, added), added.name) = Named(rest, added.name) \cup {added.value}
      /\ LastOf(Append(rest, added), added.name, added.value)
  BY <1>2, <1>4, Joins
<1>6. /\ new \in Seq(HeaderLine)
      /\ \A o : o # name => Named(new, o) = Named(rest, o) /\ (OnlyOne(rest, o) => OnlyOne(new, o))
      /\ Lines(new, name) = Lines(rest, name) \cup {Len(rest) + 1}
      /\ Named(new, name) = Named(rest, name) \cup {v}
      /\ LastOf(new, name, v)
  BY <1>3, <1>4, <1>5
<1>7. Lines(rest, name) = {} => Sole(new, name, v)
  <2>1. Lines(rest, name) = {} => Named(rest, name) = {}
    BY DEF Named
  <2> QED BY <1>6, <2>1 DEF OnlyOne, Sole
<1>8. Adds(new, hs, name, v)
  BY <1>2, <1>6 DEF Adds
<1> QED BY <1>7, <1>8

(* addHeader() in its three uses: at all, to replace the only line of the   *)
(* name, and as the first one                                              *)
LEMMA AddKeeps ==
  ASSUME NEW hs \in Seq(HeaderLine), NEW name \in Names, NEW v \in Values, NEW replace \in BOOLEAN
  PROVE  Adds(AddHeader(hs, name, v, replace), hs, name, v)
<1>1. PICK rest :
         /\ Without(rest, hs, name)
         /\ AddHeader(hs, name, v, replace) = Append(rest, [name |-> name, value |-> v])
  BY AddIs
<1> QED BY <1>1, JoinAdds

LEMMA ReplaceSole ==
  ASSUME NEW hs \in Seq(HeaderLine), NEW name \in Names, NEW v \in Values, OnlyOne(hs, name),
         name = "cookie" => Lines(hs, "x-cookie") = {}, NEW replace \in BOOLEAN, replace
  PROVE  Sole(AddHeader(hs, name, v, replace), name, v)
BY AddIs, JoinAdds, Zenon

LEMMA FirstSole ==
  ASSUME NEW hs \in Seq(HeaderLine), NEW name \in Names, NEW v \in Values, Lines(hs, name) = {},
         NEW replace \in BOOLEAN
  PROVE  Sole(AddHeader(hs, name, v, replace), name, v)
<1>1. PICK rest :
         /\ Without(rest, hs, name)
         /\ AddHeader(hs, name, v, replace) = Append(rest, [name |-> name, value |-> v])
  BY AddIs
<1>2. Lines(rest, name) = {}
  BY <1>1 DEF Without, Lines
<1> QED BY <1>1, <1>2, JoinAdds

LEMMA ReplaceKeeps ==
  ASSUME NEW hs \in Seq(HeaderLine), NEW name \in Names, NEW v \in Values
  PROVE  /\ Adds(AddHeader(hs, name, v, TRUE), hs, name, v)
         /\ OnlyOne(hs, name) /\ (name = "cookie" => Lines(hs, "x-cookie") = {}) =>
              Sole(AddHeader(hs, name, v, TRUE), name, v)
<1>1. TRUE \in BOOLEAN
  OBVIOUS
<1> QED BY <1>1, AddKeeps, ReplaceSole, Zenon

LEMMA NumbersAre == Nat \subseteq Values /\ SUBSET Nat \subseteq Values
BY DEF Values

LEMMA NamedLines ==
  ASSUME NEW hs, NEW o
  PROVE  Named(hs, o) = {} <=> Lines(hs, o) = {}
BY DEF Named

(* Content-Length and Cookie keep the headers in order. *)
LEMMA AddFits ==
  ASSUME NEW hs, NEW begun, NEW calls, HeadersFit(hs, begun, calls), NEW v \in Values,
         NEW name \in {"length", "cookie"}
  PROVE  HeadersFit(AddHeader(hs, name, v, TRUE), begun, calls)
<1>1. PICK new : new = AddHeader(hs, name, v, TRUE)
  OBVIOUS
<1>2. /\ new \in Seq(HeaderLine)
      /\ \A o : o # name => Named(new, o) = Named(hs, o) /\ (OnlyOne(hs, o) => OnlyOne(new, o))
      /\ OnlyOne(hs, name) /\ (name = "cookie" => Lines(hs, "x-cookie") = {}) =>
           OnlyOne(new, name)
  <2>1. hs \in Seq(HeaderLine) /\ name \in Names
    BY DEF HeadersFit, Names
  <2>2. /\ Adds(new, hs, name, v)
        /\ OnlyOne(hs, name) /\ (name = "cookie" => Lines(hs, "x-cookie") = {}) => Sole(new, name, v)
    BY <1>1, <2>1, ReplaceKeeps
  <2> QED BY <2>2 DEF Adds, Sole
<1>3. Lines(new, "x-cookie") = {} <=> Lines(hs, "x-cookie") = {}
  BY <1>2, NamedLines
<1> QED BY <1>1, <1>2, <1>3 DEF HeadersFit

(* The headers as sent: with the length of the payload, the cookies for the *)
(* host, and whatever else there was                                       *)
LEMMA HeadedIs ==
  ASSUME DOMAIN http = HttpFields, NEW hs, hs = http.headers, NEW g, g = Headed(http),
         HeadersFit(hs, http.begun, used.calls), call.payload \in Nat,
         NEW cookies \in SUBSET Nat, cookies = CookiesFor(http)
  PROVE  /\ g.at = http.at /\ g.begun = http.begun /\ g.location = http.location
         /\ HeadersFit(g.headers, g.begun, used.calls)
         /\ Named(g.headers, "x-cookie") = Named(hs, "x-cookie")
         /\ Named(g.headers, "length") = IF call.payload > 0 THEN {call.payload} ELSE Named(hs, "length")
         /\ IF cookies = {} THEN Named(g.headers, "cookie") = Named(hs, "cookie")
            ELSE LastOf(g.headers, "cookie", cookies)
<1>1. PICK w : w = Wiped(http)
  OBVIOUS
<1>2. Members(w) /\ w.at = http.at /\ w.begun = http.begun /\ w.location = http.location /\ w.headers = hs
  BY <1>1 DEF Wiped, Members, HttpFields
<1>3. PICK m : m = Made(w)
  OBVIOUS
<1>4. Members(m) /\ m.at = http.at /\ m.begun = http.begun /\ m.location = http.location /\ m.headers = hs
  BY <1>2, <1>3 DEF Made, Members, HttpFields
<1>5. PICK long : long = WithLength(hs)
  OBVIOUS
<1>7. /\ Members(g) /\ g.at = http.at /\ g.begun = http.begun /\ g.location = http.location
      /\ g.headers = WithCookies(long, cookies)
  <2>1. g = [m EXCEPT !.headers = WithCookies(WithLength(@), cookies)]
    BY <1>1, <1>3 DEF Headed
  <2> QED BY <1>4, <1>5, <2>1 DEF Members, HttpFields
<1>9. /\ HeadersFit(long, http.begun, used.calls)
      /\ Named(long, "x-cookie") = Named(hs, "x-cookie") /\ Named(long, "cookie") = Named(hs, "cookie")
      /\ Named(long, "length") = IF call.payload > 0 THEN {call.payload} ELSE Named(hs, "length")
  <2>1. CASE call.payload > 0
    <3>1. long = AddHeader(hs, "length", call.payload, TRUE)
      BY <1>5, <2>1 DEF WithLength
    <3>2. HeadersFit(long, http.begun, used.calls)
      BY <3>1, AddFits, NumbersAre
    <3>3. /\ \A o : o # "length" => Named(long, o) = Named(hs, o)
          /\ OnlyOne(hs, "length") => Named(long, "length") = {call.payload}
      <4>1. hs \in Seq(HeaderLine) /\ "length" \in Names
        BY DEF HeadersFit, Names
      <4>2. /\ Adds(long, hs, "length", call.payload)
            /\ OnlyOne(hs, "length") => Sole(long, "length", call.payload)
        BY <3>1, <4>1, ReplaceKeeps, NumbersAre
      <4> QED BY <4>2 DEF Adds, Sole
    <3> QED BY <2>1, <3>2, <3>3 DEF HeadersFit
  <2>2. CASE ~(call.payload > 0)
    <3>1. long = hs
      BY <1>5, <2>2 DEF WithLength
    <3> QED BY <2>2, <3>1
  <2> QED BY <2>1, <2>2
<1>10. CASE cookies = {}
  <2>1. g.headers = long
    BY <1>7, <1>10 DEF WithCookies
  <2> QED BY <1>7, <1>9, <1>10, <2>1
<1>11. CASE cookies # {}
  <2>1. g.headers = AddHeader(long, "cookie", cookies, TRUE) /\ cookies \in Values
    BY <1>7, <1>11, NumbersAre DEF WithCookies
  <2>2. HeadersFit(g.headers, http.begun, used.calls)
    BY <1>9, <2>1, AddFits
  <2>3. /\ \A o : o # "cookie" => Named(g.headers, o) = Named(long, o)
        /\ LastOf(g.headers, "cookie", cookies)
    <3>1. long \in Seq(HeaderLine) /\ "cookie" \in Names
      BY <1>9 DEF HeadersFit, Names
    <3>2. Adds(g.headers, long, "cookie", cookies)
      BY <2>1, <3>1, ReplaceKeeps
    <3> QED BY <3>2 DEF Adds
  <2> QED BY <1>7, <1>9, <1>11, <2>2, <2>3
<1> QED BY <1>10, <1>11

-----------------------------------------------------------------------------
(* What a step leaves as it was *)

(* A request that was made does not change, but for the reply to it. *)
Fixed(t, s) ==
  /\ t.at = s.at /\ t.wanted = s.wanted /\ t.begun = s.begun /\ t.type = s.type /\ t.payload = s.payload
  /\ t.headers = s.headers /\ t.redirect = s.redirect /\ t.call = s.call

(* What a request could be led on by does not depend on later ones. *)
LEMMA LatestSame ==
  ASSUME NEW i \in Nat, \A j \in 1..(i - 1) : served'[j] = served[j]
  PROVE  Latest(i)' = Latest(i)
BY DEF Latest, Tells

(* Nor what the cookies are that were set *)
LEMMA SetsSame ==
  ASSUME NEW j, served'[j].wanted = served[j].wanted, served'[j].reply = served[j].reply
  PROVE  /\ DomainOf(j)' = DomainOf(j)
         /\ (served'[j].seen = "no" <=> served[j].seen = "no") => (Sets(j)' <=> Sets(j))
BY DEF DomainOf, Sets, Domain, Accepted

LEMMA NewestSame ==
  ASSUME NEW i \in Nat, \A j \in 1..(i - 1) : served'[j] = served[j],
         NEW s, NEW t, t.wanted = s.wanted, NEW c, Newest(i, s, c)
  PROVE  Newest(i, t, c)'
<1>1. /\ c \in 1..(i - 1) /\ DomainOf(c) \in Parts[s.wanted.host]
      /\ \A j \in (c + 1)..(i - 1) : Sets(j) => DomainOf(j) # DomainOf(c)
  BY DEF Newest
<1>2. \A j \in 1..(i - 1) : DomainOf(j)' = DomainOf(j) /\ (Sets(j)' <=> Sets(j))
  BY SetsSame
<1>3. \A j \in (c + 1)..(i - 1) : j \in 1..(i - 1)
  BY <1>1
<1> QED BY <1>1, <1>2, <1>3 DEF Newest

(* What was asked as it should be stays so, whatever is read of the reply   *)
(* to it.                                                                  *)
LEMMA FitsStay ==
  ASSUME NEW i \in Nat, i >= 1, \A j \in 1..(i - 1) : served'[j] = served[j],
         Fixed(served'[i], served[i]), plan' = plan, RequestFits(i)
  PROVE  RequestFits(i)'
<1>1. PICK s, t, b, d : s = served[i] /\ t = served'[i] /\ b = served[i - 1] /\ d = served'[i - 1]
  OBVIOUS
<1>2. Fixed(t, s) /\ (i > 1 => d = b)
  <2>1. i > 1 => i - 1 \in 1..(i - 1)
    OBVIOUS
  <2> QED BY <1>1, <2>1
<1>3. /\ Addressed(i, s, b) /\ (~s.redirect => AskedFor(s, plan.calls[s.call]))
      /\ \E l \in IF s.redirect THEN {served[j].reply.location : j \in Latest(i)} ELSE {[kind |-> "none"]} :
           /\ s.redirect => i > 1 /\ Redirected(s, b, l)
           /\ LengthFits(s, b, l) /\ MarkFits(s, b, l) /\ CookieFits(i, s, b, l)
  BY <1>1, Zenon DEF RequestFits
<1>4. PICK l \in IF s.redirect THEN {served[j].reply.location : j \in Latest(i)} ELSE {[kind |-> "none"]} :
           /\ s.redirect => i > 1 /\ Redirected(s, b, l)
           /\ LengthFits(s, b, l) /\ MarkFits(s, b, l) /\ CookieFits(i, s, b, l)
  BY <1>3
<1>5. l \in IF t.redirect THEN {served'[j].reply.location : j \in Latest(i)'} ELSE {[kind |-> "none"]}
  <2>1. t.redirect = s.redirect
    BY <1>2 DEF Fixed
  <2>2. {served'[j].reply.location : j \in Latest(i)'} = {served[j].reply.location : j \in Latest(i)}
    <3>1. Latest(i)' = Latest(i) /\ Latest(i) \subseteq 1..(i - 1)
      BY LatestSame DEF Latest
    <3> QED BY <3>1
  <2> QED BY <1>4, <2>1, <2>2
<1>6. Addressed(i, t, d) /\ (~t.redirect => AskedFor(t, plan.calls[t.call]))
  BY <1>2, <1>3 DEF Addressed, AskedFor, Fixed
<1>7. s.redirect => d = b
  BY <1>2, <1>4
<1>8. t.redirect => i > 1 /\ Redirected(t, d, l)
  BY <1>2, <1>4, <1>7 DEF Redirected, Fixed
<1>9. LengthFits(t, d, l)
  BY <1>2, <1>4, <1>7 DEF LengthFits, Carried, Left, Fixed
<1>10. MarkFits(t, d, l)
  BY <1>2, <1>4, <1>7 DEF MarkFits, Carried, Left, Fixed
<1>11. MarkFits(t, d, l)'
  BY <1>10 DEF MarkFits
<1>12. CookieFits(i, t, d, l)'
  <2>1. OnlyOne(t.headers, "cookie") \/ Named(t.headers, "x-cookie") # {}
    BY <1>2, <1>4 DEF CookieFits, Fixed
  <2>2. \/ Named(s.headers, "cookie") = {} \/ Left(s)
        \/ Carried(s, l) /\ Named(s.headers, "cookie") = Named(b.headers, "cookie")
        \/ \E v \in SUBSET (1..(i - 1)) :
             v # {} /\ LastOf(s.headers, "cookie", v) /\ \A c \in v : Newest(i, s, c)
    BY <1>4 DEF CookieFits
  <2>3. ASSUME NEW c, Newest(i, s, c) PROVE Newest(i, t, c)'
    BY <1>2, <2>3, NewestSame DEF Fixed
  <2>4. t.headers = s.headers /\ (Left(s) => Left(t)) /\ (Carried(s, l) => Carried(t, l) /\ d = b)
    BY <1>2, <1>7 DEF Fixed, Left, Carried
  <2>5. \/ Named(t.headers, "cookie") = {} \/ Left(t)
        \/ Carried(t, l) /\ Named(t.headers, "cookie") = Named(d.headers, "cookie")
        \/ \E v \in SUBSET (1..(i - 1)) :
             v # {} /\ LastOf(t.headers, "cookie", v) /\ \A c \in v : Newest(i, t, c)'
    BY <2>2, <2>3, <2>4
  <2> QED BY <2>1, <2>5 DEF CookieFits
<1> QED BY <1>1, <1>5, <1>6, <1>8, <1>9, <1>11, <1>12, Zenon DEF RequestFits

(* Of the requests that were made, only the last may change, and of it only *)
(* how far its reply has been read.                                        *)
Rereads ==
  /\ Len(served') = Len(served)
  /\ \A i \in 1..Len(served) :
       /\ Fixed(served'[i], served[i]) /\ DOMAIN served'[i] = DOMAIN served[i]
       /\ i < Len(served) => served'[i] = served[i]

(* That its head has been read is not news. *)
RereadsBody ==
  /\ Rereads
  /\ \A i \in 1..Len(served) :
       /\ served'[i].reply = served[i].reply /\ (served'[i].seen = "no" <=> served[i].seen = "no")

(* Both ways in which the last request changes *)
LEMMA LastChanged ==
  ASSUME IsServed(served), ServedFit, served # <<>>, NEW x, NEW s, s = served[Len(served)],
         (\E v : x = [s EXCEPT !.seen = v]) \/ (\E v : x = [s EXCEPT !.reply = v]),
         served' = [served EXCEPT ![Len(served)] = x]
  PROVE  Rereads /\ Len(served) >= 1 /\ served'[Len(served)] = x
<1>1. Len(served) \in Nat /\ IsArray(served, Len(served)) /\ DOMAIN served = 1..Len(served)
  BY DEF IsServed, IsArray
<1>2. Len(served) >= 1
  <2> SUFFICES ASSUME Len(served) = 0 PROVE FALSE
    BY <1>1
  <2>1. served = [i \in 1..0 |-> served[i]]
    BY <1>1 DEF IsArray
  <2> QED BY <2>1
<1>3. Replaced(served', served, Len(served), x)
  BY <1>1, LastReplaced
<1>4. DOMAIN s = ServedFields
  BY <1>1, <1>2 DEF ServedFit
<1>5. Fixed(x, s) /\ DOMAIN x = DOMAIN s
  BY <1>4 DEF Fixed, ServedFields
<1>6. \A i \in 1..Len(served) : served'[i] = IF i = Len(served) THEN x ELSE served[i]
  BY <1>3 DEF Replaced
<1>7. Len(served') = Len(served)
  BY <1>3 DEF Replaced
<1>8. ASSUME NEW i \in 1..Len(served)
      PROVE  /\ Fixed(served'[i], served[i]) /\ DOMAIN served'[i] = DOMAIN served[i]
             /\ i < Len(served) => served'[i] = served[i]
  <2>1. CASE i = Len(served)
    BY <1>1, <1>5, <1>6, <2>1
  <2>2. CASE i # Len(served)
    BY <1>6, <2>2 DEF Fixed
  <2> QED BY <2>1, <2>2
<1> QED BY <1>1, <1>2, <1>6, <1>7, <1>8 DEF Rereads

LEMMA SeenRereads ==
  ASSUME IsServed(served), ServedFit, served # <<>>, NEW what, Seen(what)
  PROVE  /\ Rereads /\ Len(served) >= 1
         /\ served'[Len(served)].seen = what /\ served'[Len(served)].reply = served[Len(served)].reply
<1> DEFINE n == Len(served)
<1>1. PICK s, x : s = served[n] /\ x = [s EXCEPT !.seen = what]
  OBVIOUS
<1>2. served' = [served EXCEPT ![n] = x]
  BY <1>1 DEF Seen
<1>3. Rereads /\ n >= 1 /\ served'[n] = x
  BY <1>1, <1>2, LastChanged
<1>4. DOMAIN s = ServedFields
  <2>1. n \in 1..n
    BY <1>3 DEF IsServed
  <2> QED BY <1>1, <2>1 DEF ServedFit
<1>5. x.seen = what /\ x.reply = s.reply
  BY <1>1, <1>4 DEF ServedFields
<1> QED BY <1>1, <1>3, <1>5

LEMMA SeenBody ==
  ASSUME IsServed(served), ServedFit, served # <<>>, NEW what, what # "no", Seen(what),
         served[Len(served)].seen # "no"
  PROVE  RereadsBody
<1>1. /\ Rereads /\ Len(served) >= 1
      /\ served'[Len(served)].seen = what /\ served'[Len(served)].reply = served[Len(served)].reply
  BY SeenRereads
<1>2. ASSUME NEW i \in 1..Len(served)
      PROVE  served'[i].reply = served[i].reply /\ (served'[i].seen = "no" <=> served[i].seen = "no")
  <2>1. CASE i = Len(served)
    BY <1>1, <2>1
  <2>2. CASE i # Len(served)
    <3>1. served'[i] = served[i]
      BY <1>1, <2>2 DEF Rereads, IsServed
    <3> QED BY <3>1
  <2> QED BY <2>1, <2>2
<1> QED BY <1>1, <1>2 DEF RereadsBody

LEMMA UnchangedBody == ASSUME served' = served PROVE RereadsBody
BY DEF RereadsBody, Rereads, Fixed

(* Each part of the invariant, when the requests only have more of their    *)
(* replies read                                                            *)
LEMMA AllFitStay ==
  ASSUME IsServed(served), Rereads, plan' = plan, \A i \in 1..Len(served) : RequestFits(i)
  PROVE  \A i \in 1..Len(served') : RequestFits(i)'
<1> SUFFICES ASSUME NEW i \in 1..Len(served) PROVE RequestFits(i)'
  BY DEF Rereads
<1>1. i \in Nat /\ i >= 1 /\ Len(served) \in Nat
  BY DEF IsServed
<1>2. \A j \in 1..(i - 1) : served'[j] = served[j]
  BY <1>1 DEF Rereads
<1> QED BY <1>1, <1>2, FitsStay DEF Rereads

LEMMA JarStays ==
  ASSUME IsServed(served), JarFits, RereadsBody, jar' \subseteq jar
  PROVE  JarFits'
<1>1. \A k \in 1..Len(served) : served'[k].wanted = served[k].wanted
  BY DEF RereadsBody, Rereads, Fixed
<1>2. \A k \in 1..Len(served) : DomainOf(k)' = DomainOf(k) /\ (Sets(k)' <=> Sets(k))
  BY <1>1, SetsSame DEF RereadsBody
<1> SUFFICES ASSUME NEW c \in jar
             PROVE  /\ c.value \in 1..Len(served) /\ DomainOf(c.value)' = c.domain
                    /\ served'[c.value].reply # NoReply
                    /\ \A k \in (c.value + 1)..Len(served) : Sets(k)' => DomainOf(k)' # c.domain
  BY DEF JarFits, RereadsBody, Rereads
<1>3. /\ c.value \in 1..Len(served) /\ DomainOf(c.value) = c.domain /\ served[c.value].reply # NoReply
      /\ \A k \in (c.value + 1)..Len(served) : Sets(k) => DomainOf(k) # c.domain
  BY DEF JarFits
<1>4. \A k \in (c.value + 1)..Len(served) : k \in 1..Len(served)
  BY <1>3 DEF IsServed
<1> QED BY <1>2, <1>3, <1>4 DEF RereadsBody

LEMMA LatestStays ==
  ASSUME IsServed(served), RereadsBody
  PROVE  /\ Len(served') = Len(served) /\ Latest(Len(served) + 1)' = Latest(Len(served) + 1)
         /\ \A j \in 1..Len(served) : Tells(j)' <=> Tells(j)
         /\ \A j \in Latest(Len(served) + 1) : j \in 1..Len(served) /\ served'[j].reply = served[j].reply
<1>1. Len(served) \in Nat /\ Len(served') = Len(served) /\ (Len(served) + 1) - 1 = Len(served)
  BY DEF IsServed, RereadsBody, Rereads
<1>2. \A j \in 1..Len(served) : Tells(j)' <=> Tells(j)
  BY DEF Tells, RereadsBody
<1>3. \A j \in 1..Len(served) : \A k \in (j + 1)..Len(served) : k \in 1..Len(served)
  BY <1>1
<1>4. \A j \in 1..Len(served) : served'[j].seen = "no" <=> served[j].seen = "no"
  BY DEF RereadsBody
<1>5. Latest(Len(served) + 1)' = Latest(Len(served) + 1)
  <2>1. Latest(Len(served) + 1) = {j \in 1..Len(served) :
          Tells(j) /\ \A k \in (j + 1)..Len(served) : served[k].seen # "no" => ~Tells(k)}
    BY <1>1 DEF Latest
  <2>2. Latest(Len(served) + 1)' = {j \in 1..Len(served) :
          Tells(j)' /\ \A k \in (j + 1)..Len(served) : served'[k].seen # "no" => ~Tells(k)'}
    BY <1>1 DEF Latest
  <2>3. ASSUME NEW j \in 1..Len(served)
        PROVE  (Tells(j)' /\ \A k \in (j + 1)..Len(served) : served'[k].seen # "no" => ~Tells(k)')
               <=> (Tells(j) /\ \A k \in (j + 1)..Len(served) : served[k].seen # "no" => ~Tells(k))
    <3>1. \A k \in (j + 1)..Len(served) : (Tells(k)' <=> Tells(k)) /\ (served'[k].seen = "no" <=> served[k].seen = "no")
      BY <1>2, <1>3, <1>4
    <3> QED BY <1>2, <3>1, Zenon
  <2> QED BY <2>1, <2>2, <2>3, Zenon
<1>6. \A j \in Latest(Len(served) + 1) : j \in 1..Len(served) /\ served'[j].reply = served[j].reply
  <2> SUFFICES ASSUME NEW j \in Latest(Len(served) + 1) PROVE j \in 1..Len(served)
    BY DEF RereadsBody
  <2> QED BY <1>1 DEF Latest
<1> QED BY <1>1, <1>2, <1>5, <1>6, Zenon

LEMMA LocationStays ==
  ASSUME IsServed(served), LocationFits, RereadsBody, http'.location = http.location
  PROVE  LocationFits'
<1>1. /\ Len(served') = Len(served) /\ Latest(Len(served) + 1)' = Latest(Len(served) + 1)
      /\ \A j \in 1..Len(served) : Tells(j)' <=> Tells(j)
      /\ \A j \in Latest(Len(served) + 1) : j \in 1..Len(served) /\ served'[j].reply = served[j].reply
  BY LatestStays
<1>2. \A j \in 1..Len(served) : served'[j].seen = "no" <=> served[j].seen = "no"
  BY DEF RereadsBody
<1>3. CASE http.location.kind = "none" /\ \A k \in 1..Len(served) : served[k].seen # "no" => ~Tells(k)
  <2>1. \A k \in 1..Len(served') : served'[k].seen # "no" => ~Tells(k)'
    BY <1>1, <1>2, <1>3
  <2> QED BY <1>3, <2>1 DEF LocationFits
<1>4. ASSUME NEW j \in Latest(Len(served) + 1), http.location = served[j].reply.location PROVE LocationFits'
  <2>1. j \in Latest(Len(served) + 1)'
    BY <1>1, <1>4
  <2>2. http'.location = served'[j].reply.location
    BY <1>1, <1>4
  <2> QED BY <2>1, <2>2 DEF LocationFits
<1> QED BY <1>3, <1>4 DEF LocationFits

LEMMA ServedStays ==
  ASSUME IsServed(served), ServedFit, RereadsBody, owed' # "none" => owed # "none"
  PROVE  ServedFit'
<1>1. \A i \in 1..Len(served') : /\ DOMAIN served'[i] = ServedFields /\ served'[i].wanted \in Place
                                 /\ served'[i].reply \in Planned \cup {NoReply}
                                 /\ served'[i].reply = NoReply => served'[i].seen = "no"
  BY DEF RereadsBody, Rereads, ServedFit, Fixed
<1>2. ASSUME owed' # "none" PROVE served' # <<>> /\ served'[Len(served')].reply = NoReply
  <2>1. owed # "none" /\ served # <<>> /\ served[Len(served)].reply = NoReply
    BY <1>2 DEF ServedFit
  <2>2. Len(served) \in 1..Len(served) /\ Len(served') = Len(served)
    <3>1. Len(served) # 0
      <4> SUFFICES ASSUME Len(served) = 0 PROVE FALSE
        OBVIOUS
      <4>1. served = [i \in 1..0 |-> served[i]]
        BY DEF IsServed, IsArray
      <4> QED BY <2>1, <4>1
    <3> QED BY <3>1 DEF IsServed, RereadsBody, Rereads
  <2> QED BY <2>1, <2>2 DEF RereadsBody
<1> QED BY <1>1, <1>2 DEF ServedFit

(* A reply that is still to come is none that was planned. *)
LEMMA NoReplyIs == NoReply \notin Planned /\ NoReply.code = 0
<1> SUFFICES ASSUME NoReply \in Planned PROVE FALSE
  BY DEF NoReply
<1>1. DOMAIN NoReply = {"code"}
  BY DEF NoReply
<1>2. "size" \in DOMAIN NoReply
  BY DEF Planned
<1> QED BY <1>1, <1>2

(* A connection that there is after a step was there before it. *)
Stands == Connected' => Connected /\ link'.at = link.at

LEMMA CutStands ==
  ASSUME LinkFits, Stop \/ (link' = link /\ (rx' \in {rx, <<>>} \/ rx # <<>>))
  PROVE  Stands
<1>1. CASE Stop
  BY <1>1 DEF Stop, Down, Connected, Stands
<1>2. CASE link' = link /\ (rx' \in {rx, <<>>} \/ rx # <<>>)
  BY <1>2 DEF Connected, Stands, LinkFits
<1> QED BY <1>1, <1>2

LEMMA WaysToStand ==
  ASSUME LinkFits
  PROVE  /\ Stop => Stands
         /\ Keep => Stands
         /\ \A h : Disconnect(h) => Stands
         /\ \A code : Return(code) => Stands
<1>1. Stop => Stands
  BY CutStands
<1>2. link' = link /\ rx' \in {rx, <<>>} => Stands
  BY CutStands
<1>3. Keep => Stands
  BY <1>2 DEF Keep
<1>4. ASSUME NEW h, Disconnect(h) PROVE Stands
  BY <1>1, <1>2, <1>3, <1>4, Zenon DEF Disconnect
<1>5. ASSUME NEW code, Return(code) PROVE Stands
  BY <1>1, <1>3, <1>5, Zenon DEF Return
<1> QED BY <1>1, <1>3, <1>4, <1>5

LEMMA LastIs ==
  ASSUME IsServed(served), served # <<>>
  PROVE  /\ Len(served) \in Nat /\ Len(served) >= 1 /\ Len(served) \in 1..Len(served)
         /\ Rereads => served' # <<>>
<1>1. Len(served) # 0
  <2> SUFFICES ASSUME Len(served) = 0 PROVE FALSE
    OBVIOUS
  <2>1. served = [i \in 1..0 |-> served[i]]
    BY DEF IsServed, IsArray
  <2> QED BY <2>1
<1> QED BY <1>1 DEF IsServed, Rereads

(* What a request is made of *)
SameRequest == http'.at = http.at /\ http'.begun = http.begun /\ http'.headers = http.headers

LEMMA LinkHolds ==
  ASSUME IsServed(served), Rereads, LinkFitsHost, Stands, http'.at = http.at, http'.begun = http.begun,
         call.pc \notin {"begun", "request"} \/
           (call'.pc \in {"begun", "request"} /\ call'.redirects = call.redirects)
  PROVE  LinkFitsHost'
<1> SUFFICES ASSUME Connected' PROVE
       /\ served' # <<>> /\ link'.at = served'[Len(served')].at /\ http'.at \in Place
       /\ \/ link'.at.host = http'.at.host \/ Misled'
          \/ http'.begun = "host" /\ call'.pc \in {"begun", "request"} /\ call'.redirects = 0
  BY DEF LinkFitsHost
<1>1. Connected /\ link'.at = link.at
  BY DEF Stands
<1>2. /\ served # <<>> /\ link.at = served[Len(served)].at /\ http.at \in Place
      /\ \/ link.at.host = http.at.host \/ Misled
         \/ http.begun = "host" /\ call.pc \in {"begun", "request"} /\ call.redirects = 0
  BY <1>1 DEF LinkFitsHost
<1>3. Len(served) \in 1..Len(served) /\ served' # <<>>
  BY <1>2, LastIs
<1>4. Fixed(served'[Len(served)], served[Len(served)]) /\ Len(served') = Len(served)
  BY <1>3 DEF Rereads
<1>5. Misled' <=> Misled
  BY <1>4 DEF Fixed, Misled
<1> QED BY <1>1, <1>2, <1>3, <1>4, <1>5 DEF Fixed

(* A step that goes on with the reply, or leaves it *)
ReadsOnly ==
  /\ RereadsBody /\ plan' = plan /\ jar' \subseteq jar /\ SameRequest /\ http'.location = http.location
  /\ used'.calls = used.calls /\ (owed' # "none" => owed # "none") /\ Stands

LEMMA OnlyReads ==
  ASSUME Shape, Asks, ReadsOnly, CallFits',
         call.pc \notin {"begun", "request"} \/
           (call'.pc \in {"begun", "request"} /\ call'.redirects = call.redirects)
  PROVE  Asks'
<1>1. IsServed(served) /\ Rereads
  BY DEF Shape, ReadsOnly, RereadsBody
<1>2. HeadersFit(http.headers, http.begun, used.calls)'
  BY DEF Asks, ReadsOnly, SameRequest, HeadersFit
<1>3. JarFits'
  BY <1>1, JarStays DEF Asks, ReadsOnly
<1>4. LocationFits'
  BY <1>1, LocationStays DEF Asks, ReadsOnly
<1>5. LinkFitsHost'
  BY <1>1, LinkHolds DEF Asks, ReadsOnly, SameRequest
<1>6. ServedFit'
  BY <1>1, ServedStays DEF Asks, ReadsOnly
<1>7. \A i \in 1..Len(served') : RequestFits(i)'
  BY <1>1, AllFitStay DEF Asks, ReadsOnly
<1> QED BY <1>2, <1>3, <1>4, <1>5, <1>6, <1>7 DEF Asks

LEMMA CallStays ==
  ASSUME Shape, CallFits, ReadsOnly, call' = call
  PROVE  CallFits'
<1>1. IsServed(served) /\ Rereads /\ used'.calls = used.calls /\ http'.at = http.at
      /\ http'.begun = http.begun /\ http'.headers = http.headers /\ plan' = plan
  BY DEF Shape, ReadsOnly, RereadsBody, SameRequest
<1>2. ASSUME served # <<>>
      PROVE  /\ served' # <<>> /\ Len(served) \in 1..Len(served)
             /\ Len(served') = Len(served) /\ Fixed(served'[Len(served)], served[Len(served)])
             /\ served'[Len(served)].reply = served[Len(served)].reply
             /\ (served'[Len(served)].seen = "no" <=> served[Len(served)].seen = "no")
  BY <1>1, <1>2, LastIs DEF Rereads, RereadsBody, ReadsOnly
<1>3. /\ call'.redirects \in Nat /\ used'.calls \in Nat
      /\ call'.pc = "begun" =>
           /\ call'.redirects = 0 /\ used'.calls < Len(plan'.calls) /\ http'.at = plan'.calls[used'.calls + 1].at
           /\ http'.begun \in {"host", "url", "client"} /\ (http'.begun # "client" => http'.headers = <<>>)
      /\ call'.pc \in {"request", "stream", "sent", "head"} =>
           used'.calls \in 1..Len(plan'.calls) /\ call'.payload \in Nat
  BY <1>1 DEF CallFits
<1>4. ASSUME call.pc = "request", call.redirects = 0 PROVE Asking'
  <2>1. Asking
    BY <1>4 DEF CallFits
  <2> QED BY <1>1, <2>1 DEF Asking
<1>5. ASSUME call.pc = "request", call.redirects > 0
      PROVE served' # <<>> /\ \E j \in Latest(Len(served) + 1)' : Moving(served[j].reply.location)'
  <2>1. PICK j \in Latest(Len(served) + 1) : Moving(served[j].reply.location) /\ served # <<>>
    BY <1>5 DEF CallFits
  <2>2. j \in Latest(Len(served) + 1)' /\ served'[j].reply = served[j].reply
    BY <1>1, LatestStays DEF ReadsOnly
  <2>3. Moving(served[j].reply.location)'
    BY <1>1, <1>2, <2>1, <2>2 DEF Moving, Fixed
  <2> QED BY <1>2, <2>1, <2>2, <2>3
<1>6. ASSUME call.pc \in {"stream", "sent", "head"} PROVE served' # <<>> /\ HeadFits'
  <2>1. served # <<>> /\ HeadFits
    BY <1>6 DEF CallFits
  <2> QED BY <1>1, <1>2, <2>1 DEF HeadFits, Fixed
<1>7. ASSUME call.pc \in {"answered", "block", "chunk", "trailer"}
      PROVE  served' # <<>> /\ served'[Len(served')].seen # "no"
  BY <1>2, <1>7 DEF CallFits
<1>8. Len(served') = Len(served)
  BY <1>1 DEF Rereads
<1> QED BY <1>3, <1>4, <1>5, <1>6, <1>7, <1>8, Zenon DEF CallFits

(* The call goes on with the body, or ends. *)
LEMMA CallReads ==
  ASSUME Shape, CallFits, RereadsBody, call'.redirects \in Nat, used'.calls = used.calls,
         \/ /\ call.pc \in {"answered", "block", "chunk", "trailer"}
            /\ call'.pc \in {"answered", "block", "chunk", "trailer"}
         \/ call'.pc \in {"idle", "returned"}
  PROVE  CallFits'
<1>1. ASSUME call'.pc \in {"answered", "block", "chunk", "trailer"}
      PROVE  served' # <<>> /\ served'[Len(served')].seen # "no"
  <2>1. served # <<>> /\ served[Len(served)].seen # "no"
    BY <1>1 DEF CallFits
  <2> QED BY <2>1, LastIs DEF Shape, RereadsBody, Rereads
<1> QED BY <1>1 DEF CallFits

-----------------------------------------------------------------------------
(* The steps *)

(* The call reads its body, or is over. *)
LEMMA BodyAsks ==
  ASSUME Shape, Apart, Asks, ReadsOnly, call'.redirects \in Nat,
         \/ /\ call.pc \in {"answered", "block", "chunk", "trailer"}
            /\ call'.pc \in {"answered", "block", "chunk", "trailer", "returned"}
         \/ call.pc \notin {"begun", "request"} /\ call'.pc \in {"idle", "returned"}
  PROVE  Asks'
<1>1. CallFits'
  BY CallReads DEF Asks, ReadsOnly
<1> QED BY <1>1, OnlyReads

(* What does not change at all *)
LEMMA StillReads ==
  ASSUME Shape, plan' = plan, UNCHANGED <<http, jar>>, used'.calls = used.calls,
         owed' \in {owed, "none"}, Stands, RereadsBody
  PROVE  ReadsOnly
BY DEF ReadsOnly, SameRequest

LEMMA UsedCalls ==
  ASSUME Shape, used' = used \/ Fails
  PROVE  used'.calls = used.calls
BY DEF Shape, Fails

LEMMA OwedIs ==
  ASSUME TRUE
  PROVE  /\ Stop => owed' = "none"
         /\ Keep => owed' = owed
         /\ \A h : Disconnect(h) => owed' \in {owed, "none"}
         /\ \A code : Return(code) => owed' \in {owed, "none"}
<1>1. Stop => owed' = "none"
  BY DEF Stop
<1>2. Keep => owed' = owed
  BY DEF Keep
<1>3. ASSUME NEW h, Disconnect(h) PROVE owed' \in {owed, "none"}
  BY <1>1, <1>2, <1>3 DEF Disconnect
<1>4. ASSUME NEW code, Return(code) PROVE owed' \in {owed, "none"}
  <2>1. Stop \/ Keep
    BY <1>4, Zenon DEF Return
  <2> QED BY <1>1, <1>2, <2>1
<1> QED BY <1>1, <1>2, <1>3, <1>4

(* The call returns. *)
LEMMA ReturnAsks ==
  ASSUME Shape, Apart, Asks, NEW code, Return(code), call.pc \notin {"begun", "request"},
         plan' = plan, UNCHANGED <<http, jar, served>>, used' = used \/ Fails
  PROVE  Asks'
<1>1. Stands /\ owed' \in {owed, "none"} /\ used'.calls = used.calls /\ RereadsBody
  BY WaysToStand, OwedIs, UsedCalls, UnchangedBody DEF Apart
<1>2. call'.pc = "returned" /\ call'.redirects = call.redirects
  BY DEF Return, Shape, CallFields
<1>3. ReadsOnly
  BY <1>1, StillReads
<1>4. call'.redirects \in Nat
  BY <1>2 DEF Asks, CallFits
<1> QED BY <1>2, <1>3, <1>4, BodyAsks

LEMMA DoneAsks ==
  ASSUME Shape, Apart, Asks, Done, call.pc \in {"block", "chunk"}, plan' = plan, SameRequest,
         http'.location = http.location, UNCHANGED <<jar, used>>
  PROVE  Asks'
<1>1. Stands /\ owed' \in {owed, "none"}
  BY WaysToStand, OwedIs DEF Done, Apart
<1>2. call'.pc = "returned" /\ call'.redirects = call.redirects
  BY DEF Done, Shape, CallFields
<1>3. served # <<>> /\ served[Len(served)].seen # "no"
  BY DEF Asks, CallFits
<1>4. RereadsBody
  BY <1>3, SeenBody DEF Shape, Asks, Done
<1>5. ReadsOnly
  BY <1>1, <1>4 DEF ReadsOnly
<1>6. call'.redirects \in Nat
  BY <1>2 DEF Asks, CallFits
<1> QED BY <1>2, <1>5, <1>6, BodyAsks

(* The call goes on reading. *)
LEMMA GoesOnAsks ==
  ASSUME Shape, Apart, Asks, link' = link, rx' \in {rx, <<>>} \/ rx # <<>>, owed' = owed, plan' = plan,
         UNCHANGED <<http, jar, served, used>>, call'.redirects = call.redirects,
         call.pc \in {"answered", "block", "chunk", "trailer"},
         call'.pc \in {"answered", "block", "chunk", "trailer", "returned"}
  PROVE  Asks'
<1>1. Stands /\ RereadsBody
  BY CutStands, UnchangedBody DEF Apart
<1>2. ReadsOnly
  BY <1>1, StillReads
<1>3. call'.redirects \in Nat
  BY DEF Asks, CallFits
<1> QED BY <1>2, <1>3, BodyAsks

(* The steps one by one: those that read a body or find that there is none  *)
LEMMA GetStringAsks == ASSUME Shape, Apart, Asks, GetString, plan' = plan PROVE Asks'
<1>1. call.pc = "answered" /\ UNCHANGED <<http, jar, served>> /\ (used' = used \/ Fails)
  BY Zenon DEF GetString
<1>2. (WriteToStream /\ used' = used) \/ Return(0)
  BY Zenon DEF GetString
<1>3. CASE \E code : Return(code)
  BY <1>1, <1>3, ReturnAsks
<1>4. CASE Keep /\ used' = used
           /\ \E left : call' = [call EXCEPT !.pc = "chunk"] \/ call' = [call EXCEPT !.pc = "block", !.left = left]
  <2>1. call'.redirects = call.redirects /\ call'.pc \in {"chunk", "block"}
    BY <1>4 DEF Shape, CallFields
  <2> QED BY <1>1, <1>4, <2>1, GoesOnAsks DEF Keep
<1> QED BY <1>2, <1>3, <1>4, Zenon DEF WriteToStream

LEMMA ReadStreamAsks == ASSUME Shape, Apart, Asks, ReadStream, plan' = plan PROVE Asks'
<1>1. call'.redirects = call.redirects /\ call'.pc = "returned"
  BY DEF ReadStream, Shape, CallFields
<1> QED BY <1>1, GoesOnAsks DEF ReadStream

LEMMA ReadBlockAsks == ASSUME Shape, Apart, Asks, ReadBlock, plan' = plan PROVE Asks'
<1>1. PICK n : call' = [call EXCEPT !.body = @ \o SubSeq(rx, 1, n),
                                    !.left = IF @ = -1 THEN -1 ELSE @ - n]
  BY Zenon DEF ReadBlock
<1>2. call'.redirects = call.redirects /\ call'.pc = call.pc
  BY <1>1 DEF Shape, CallFields
<1> QED BY <1>2, GoesOnAsks DEF ReadBlock

LEMMA BlockFailsAsks == ASSUME Shape, Apart, Asks, BlockFails, plan' = plan PROVE Asks'
BY ReturnAsks DEF BlockFails

LEMMA BlockEndsAsks == ASSUME Shape, Apart, Asks, BlockEnds, plan' = plan PROVE Asks'
<1>1. UNCHANGED <<http, jar, used>> /\ call.pc = "block"
  BY DEF BlockEnds
<1>2. CASE Return(-10) /\ UNCHANGED served
  BY <1>1, <1>2, ReturnAsks
<1>3. CASE call' = [call EXCEPT !.pc = "trailer"] /\ Keep /\ UNCHANGED served
  <2>1. call'.redirects = call.redirects /\ call'.pc = "trailer"
    BY <1>3 DEF Shape, CallFields
  <2> QED BY <1>1, <1>3, <2>1, GoesOnAsks DEF Keep
<1>4. CASE Done
  BY <1>1, <1>4, DoneAsks DEF SameRequest
<1> QED BY <1>2, <1>3, <1>4, Zenon DEF BlockEnds

LEMMA ReadChunkSizeAsks == ASSUME Shape, Apart, Asks, ReadChunkSize, plan' = plan PROVE Asks'
<1>1. UNCHANGED <<jar, used>> /\ call.pc = "chunk" /\ rx # <<>>
  BY DEF ReadChunkSize
<1>2. CASE \E n : /\ call' = [call EXCEPT !.pc = "block", !.left = n, !.total = @ + n]
                  /\ UNCHANGED <<link, flight, owed, http, served>>
  <2>1. call'.redirects = call.redirects /\ call'.pc = "block"
    BY <1>2 DEF Shape, CallFields
  <2> QED BY <1>1, <1>2, <2>1, GoesOnAsks
<1>3. CASE \E size : LastChunk(size)
  <2>1. SameRequest /\ http'.location = http.location
    BY <1>3 DEF LastChunk, Shape, HttpFields, SameRequest
  <2>2. Done \/ (Return(-10) /\ UNCHANGED served)
    BY <1>3, Zenon DEF LastChunk
  <2>3. CASE Done
    BY <1>1, <2>1, <2>3, DoneAsks
  <2>4. CASE Return(-10) /\ UNCHANGED served
    <3>1. Stands /\ owed' \in {owed, "none"} /\ RereadsBody
      BY <2>4, WaysToStand, OwedIs, UnchangedBody DEF Apart
    <3>2. ReadsOnly
      BY <1>1, <2>1, <3>1 DEF ReadsOnly
    <3>3. call'.pc = "returned" /\ call'.redirects = call.redirects
      BY <2>4 DEF Return, Shape, CallFields
    <3>4. call'.redirects \in Nat
      BY <3>3 DEF Asks, CallFits
    <3> QED BY <1>1, <3>2, <3>3, <3>4, BodyAsks
  <2> QED BY <2>2, <2>3, <2>4
<1> QED BY <1>2, <1>3, Zenon DEF ReadChunkSize

LEMMA ReadTrailerAsks == ASSUME Shape, Apart, Asks, ReadTrailer, plan' = plan PROVE Asks'
<1>1. UNCHANGED <<http, jar, served, used>> /\ call.pc = "trailer" /\ rx # <<>>
  BY DEF ReadTrailer
<1>2. CASE rx[1].k = "blank"
  <2>1. /\ call'.redirects = call.redirects /\ call'.pc = "chunk"
        /\ link' = link /\ owed' = owed
    BY <1>2 DEF ReadTrailer, Shape, CallFields
  <2> QED BY <1>1, <2>1, GoesOnAsks
<1>3. CASE rx[1].k # "blank"
  BY <1>1, <1>3, ReturnAsks DEF ReadTrailer
<1> QED BY <1>2, <1>3

LEMMA NoChunkAsks == ASSUME Shape, Apart, Asks, NoChunk, plan' = plan PROVE Asks'
<1>1. (\E code : Return(code)) /\ UNCHANGED <<http, jar, served, used>> /\ call.pc \in {"chunk", "trailer"}
  BY Zenon DEF NoChunk
<1> QED BY <1>1, ReturnAsks

LEMMA NoHeadAsks == ASSUME Shape, Apart, Asks, NoHead, plan' = plan PROVE Asks'
<1>1. (\E code : Return(code)) /\ UNCHANGED <<http, jar, served, used>> /\ call.pc = "head"
  BY Zenon DEF NoHead
<1> QED BY <1>1, ReturnAsks

(* The request is on its way: what was asked for stays what it was.         *)
LEMMA SendingAsks ==
  ASSUME Shape, Apart, Asks, call.pc \in {"stream", "sent"}, call'.pc \in {"stream", "sent", "head"},
         call'.redirects = call.redirects, call'.type = call.type, call'.payload = call.payload,
         SameRequest, http'.location = http.location, plan' = plan,
         UNCHANGED <<link, rx, jar, served, used>>, owed' # "none" => owed # "none"
  PROVE  Asks'
<1>1. Stands /\ RereadsBody
  BY CutStands, UnchangedBody DEF Apart
<1>2. ReadsOnly
  BY <1>1 DEF ReadsOnly
<1>3. HeadFits' /\ served # <<>>
  BY DEF Asks, CallFits, HeadFits, SameRequest
<1>4. /\ call'.redirects \in Nat /\ used'.calls \in Nat /\ used'.calls \in 1..Len(plan'.calls)
      /\ call'.payload \in Nat /\ served' # <<>>
  BY <1>3 DEF Asks, CallFits
<1>5. CallFits'
  BY <1>3, <1>4 DEF CallFits
<1> QED BY <1>2, <1>5, OnlyReads

LEMMA BufferAsks == ASSUME Shape, Apart, Asks, Buffer, plan' = plan PROVE Asks'
<1>1. call.pc = "stream" /\ UNCHANGED <<http, jar, served>>
  BY DEF Buffer
<1>2. CASE Return(-8) /\ Fails
  BY <1>1, <1>2, ReturnAsks
<1>3. CASE /\ \E left : call' = [call EXCEPT !.first = FALSE, !.left = left]
           /\ Keep /\ UNCHANGED used
  <2>1. /\ call'.pc = "stream" /\ call'.redirects = call.redirects
        /\ call'.type = call.type /\ call'.payload = call.payload
    BY <1>1, <1>3 DEF Shape, CallFields
  <2> QED BY <1>1, <1>3, <2>1, SendingAsks DEF Keep, SameRequest
<1> QED BY <1>2, <1>3, Zenon DEF Buffer

LEMMA StreamWritesAsks == ASSUME Shape, Apart, Asks, StreamWrites, plan' = plan PROVE Asks'
<1>1. /\ call.pc = "stream" /\ UNCHANGED <<link, rx, flight, http, served, used>>
      /\ owed' = owed \/ (owed = "more" /\ owed' = "reply")
      /\ \A o \in CallFields \ {"total", "left"} : call'[o] = call[o]
  BY StreamWritesIs
<1>2. /\ call'.pc = "stream" /\ call'.redirects = call.redirects
      /\ call'.type = call.type /\ call'.payload = call.payload
  BY <1>1 DEF CallFields
<1>3. jar' = jar
  BY DEF StreamWrites
<1> QED BY <1>1, <1>2, <1>3, SendingAsks DEF SameRequest

LEMMA StreamFailsAsks == ASSUME Shape, Apart, Asks, StreamFails, plan' = plan PROVE Asks'
<1>1. call.pc = "stream" /\ UNCHANGED <<http, jar, served>> /\ Return(-3)
  BY DEF StreamFails, Streaming
<1>2. used' = used \/ Fails
  BY Zenon DEF StreamFails
<1> QED BY <1>1, <1>2, ReturnAsks

LEMMA StreamEndsAsks == ASSUME Shape, Apart, Asks, StreamEnds, plan' = plan PROVE Asks'
<1>1. call.pc = "stream" /\ UNCHANGED <<http, jar, served, used>>
  BY DEF StreamEnds
<1>2. CASE Return(-3)
  BY <1>1, <1>2, ReturnAsks
<1>3. CASE call' = [call EXCEPT !.pc = "sent", !.first = TRUE, !.left = 0, !.total = 0] /\ Keep
  <2>1. /\ call'.pc = "sent" /\ call'.redirects = call.redirects
        /\ call'.type = call.type /\ call'.payload = call.payload
    BY <1>3 DEF Shape, CallFields
  <2> QED BY <1>1, <1>3, <2>1, SendingAsks DEF Keep, SameRequest
<1> QED BY <1>2, <1>3, Zenon DEF StreamEnds

LEMMA AwaitHeadAsks == ASSUME Shape, Apart, Asks, AwaitHead, plan' = plan PROVE Asks'
<1>1. call.pc = "sent" /\ UNCHANGED <<jar, served, used>>
  BY DEF AwaitHead
<1>2. CASE Return(-4) /\ UNCHANGED http
  BY <1>1, <1>2, ReturnAsks
<1>3. CASE call' = [call EXCEPT !.pc = "head"] /\ http' = Renewed(http) /\ Keep
  <2>1. /\ call'.pc = "head" /\ call'.redirects = call.redirects
        /\ call'.type = call.type /\ call'.payload = call.payload
    BY <1>3 DEF Shape, CallFields
  <2>2. SameRequest /\ http'.location = http.location
    BY <1>3 DEF Renewed, Shape, HttpFields, SameRequest
  <2> QED BY <1>1, <1>3, <2>1, <2>2, SendingAsks DEF Keep
<1> QED BY <1>2, <1>3, Zenon DEF AwaitHead

(* The steps beside the call: time passes, the server fails, bytes arrive   *)
LEMMA SameCallAsks ==
  ASSUME Shape, Asks, ReadsOnly, call' = call
  PROVE  Asks'
<1>1. CallFits'
  BY CallStays DEF Asks
<1>2. call.pc \notin {"begun", "request"} \/ (call'.pc \in {"begun", "request"} /\ call'.redirects = call.redirects)
  OBVIOUS
<1> QED BY <1>1, <1>2, OnlyReads

LEMMA CookieExpiresAsks == ASSUME Shape, Apart, Asks, CookieExpires, plan' = plan PROVE Asks'
<1>1. /\ UNCHANGED <<link, rx, flight, owed, http, call, served>> /\ Fails
      /\ jar' \subseteq jar
  BY DEF CookieExpires
<1>2. Stands /\ RereadsBody /\ used'.calls = used.calls
  BY <1>1, CutStands, UsedCalls, UnchangedBody DEF Apart
<1>3. ReadsOnly
  BY <1>1, <1>2 DEF ReadsOnly, SameRequest
<1> QED BY <1>1, <1>3, SameCallAsks

LEMMA ServerFailsAsks == ASSUME Shape, Apart, Asks, ServerFails, plan' = plan PROVE Asks'
<1>1. /\ link.up /\ link.open /\ owed' = "none" /\ Fails
      /\ UNCHANGED <<rx, http, jar, call, served>>
      /\ link' = link \/ link' = [link EXCEPT !.mute = TRUE]
  BY ServerFailsIs
<1>2. Stands
  BY <1>1 DEF Stands, Connected, Shape
<1>3. RereadsBody /\ used'.calls = used.calls
  BY <1>1, UsedCalls, UnchangedBody
<1>4. ReadsOnly
  BY <1>1, <1>2, <1>3 DEF ReadsOnly, SameRequest
<1> QED BY <1>1, <1>4, SameCallAsks

LEMMA ArriveAsks == ASSUME Shape, Apart, Asks, Arrive, plan' = plan PROVE Asks'
<1>1. PICK n : link' = [link EXCEPT !.open = @ /\ flight[n].k # "fin"]
  BY Zenon DEF Arrive
<1>2. flight # <<>> /\ UNCHANGED <<owed, http, jar, call, served, used>>
  BY Zenon DEF Arrive
<1>3. link.up /\ link.open
  BY <1>2 DEF Apart, LinkFits
<1>4. Stands
  BY <1>1, <1>3 DEF Stands, Connected, Shape
<1>5. ReadsOnly
  BY <1>2, <1>4, UnchangedBody DEF ReadsOnly, SameRequest
<1> QED BY <1>2, <1>5, SameCallAsks

(* Where the request goes and what was told stays; the headers may be gone. *)
SameAim(g, h) == /\ Members(g) /\ Members(h) /\ g.at = h.at /\ g.begun = h.begun /\ g.location = h.location
                 /\ g.headers \in {h.headers, <<>>}

LEMMA AimKept ==
  ASSUME NEW h, Members(h)
  PROVE  /\ SameAim(Clear(h), h) /\ Clear(h).headers = <<>>
         /\ SameAim(Ended(h), h) /\ Ended(h).headers = <<>>
         /\ SameAim(Own(h), h) /\ Own(h).headers = h.headers
         /\ SameAim(Given(h), h) /\ SameAim([h EXCEPT !.canReuse = FALSE], h)
BY DEF Members, SameAim, Clear, Ended, Own, Given, HttpFields

LEMMA UnmixedAim ==
  ASSUME Members(http), NEW mixed
  PROVE  SameAim(Unmixed(mixed), http)
<1> DEFINE h == [http EXCEPT !.canReuse = FALSE]
<1>1. SameAim(h, http) /\ SameAim(http, http)
  BY AimKept DEF SameAim
<1>2. SameAim(Ended(h), h)
  BY <1>1, AimKept DEF SameAim
<1>3. Unmixed(mixed) = Ended(h) \/ Unmixed(mixed) = http
  BY Zenon DEF Unmixed
<1> HIDE DEF h
<1> QED BY <1>1, <1>2, <1>3 DEF SameAim

LEMMA NoHeaders ==
  ASSUME NEW begun, NEW calls
  PROVE  HeadersFit(<<>>, begun, calls) /\ \A o : Named(<<>>, o) = {}
BY DEF HeadersFit, OnlyOne, Lines, Named

LEMMA PlanIs ==
  ASSUME Shape
  PROVE  plan.calls \in Seq(Asked) /\ plan.replies \in Seq(Planned)
BY PlanAssumption DEF Shape

(* What a begin() comes to *)
BeginsAt(p) ==
  /\ http'.at = p /\ http'.location = http.location /\ http'.headers \in {http.headers, <<>>}
  /\ http'.begun \in {"host", "url", "client"} /\ (http'.begun # "client" => http'.headers = <<>>)
  /\ Stop \/ (Keep /\ (http'.begun = "host" \/ ~OtherHost(http, p)))

LEMMA BeginHostIs ==
  ASSUME NEW h, SameAim(h, http), NEW p, NEW mixed, BeginHost(h, p, mixed)
  PROVE  BeginsAt(p)
<1>1. Stop \/ Keep
  BY Zenon DEF BeginHost
<1>2. http' = [Clear(h) EXCEPT !.at = p, !.begun = "host"]
  BY Zenon DEF BeginHost
<1>3. SameAim(Clear(h), h) /\ Clear(h).headers = <<>>
  BY AimKept DEF SameAim
<1>4. /\ http'.at = p /\ http'.location = http.location /\ http'.headers = <<>> /\ http'.begun = "host"
  BY <1>2, <1>3 DEF SameAim, Members, HttpFields
<1> QED BY <1>1, <1>4 DEF BeginsAt

LEMMA BeginInternalIs ==
  ASSUME NEW h, SameAim(h, http), NEW p, NEW mixed, NEW kind \in {"url", "client"},
         kind = "url" => h.headers = <<>>, BeginInternal(h, p, mixed, kind)
  PROVE  BeginsAt(p)
<1>1. OtherHost(h, p) = OtherHost(http, p)
  BY DEF OtherHost, SameAim
<1>2. Stop \/ (Keep /\ ~OtherHost(http, p))
  BY <1>1 DEF BeginInternal
<1>3. PICK can : http' = [h EXCEPT !.at = p, !.begun = kind, !.canReuse = can]
  BY DEF BeginInternal
<1>4. http'.at = p /\ http'.location = http.location /\ http'.headers = h.headers /\ http'.begun = kind
  BY <1>3 DEF SameAim, Members, HttpFields
<1> QED BY <1>2, <1>4 DEF BeginsAt, SameAim

(* Every kind of begin() *)
LEMMA BeginAim ==
  ASSUME Shape, Begin
  PROVE  /\ BeginsAt(plan.calls[used.calls + 1].at) /\ used.calls < Len(plan.calls)
         /\ call.pc \in {"idle", "answered", "returned"} /\ call' = [Idle EXCEPT !.pc = "begun"]
         /\ UNCHANGED <<jar, served, stale, used>>
<1>1. Members(http)
  BY DEF Shape, Members
<1>2. /\ used.calls < Len(plan.calls) /\ call.pc \in {"idle", "answered", "returned"}
      /\ call' = [Idle EXCEPT !.pc = "begun"] /\ UNCHANGED <<jar, served, stale, used>>
  BY Zenon DEF Begin
<1>3. ASSUME NEW mixed
      PROVE  /\ SameAim(Own(Clear(Unmixed(mixed))), http) /\ Own(Clear(Unmixed(mixed))).headers = <<>>
             /\ SameAim(Given(Unmixed(mixed)), http) /\ SameAim(Own(Unmixed(mixed)), http)
  <2>1. SameAim(Unmixed(mixed), http)
    BY <1>1, UnmixedAim
  <2>2. SameAim(Clear(Unmixed(mixed)), Unmixed(mixed)) /\ Clear(Unmixed(mixed)).headers = <<>>
    BY <2>1, AimKept DEF SameAim
  <2>3. /\ SameAim(Own(Clear(Unmixed(mixed))), Clear(Unmixed(mixed)))
        /\ Own(Clear(Unmixed(mixed))).headers = Clear(Unmixed(mixed)).headers
        /\ SameAim(Given(Unmixed(mixed)), Unmixed(mixed)) /\ SameAim(Own(Unmixed(mixed)), Unmixed(mixed))
    BY <2>1, <2>2, AimKept DEF SameAim
  <2> QED BY <2>1, <2>2, <2>3 DEF SameAim
<1>4. PICK p, mixed : p = plan.calls[used.calls + 1].at /\
        (\/ BeginUrl(p, mixed) \/ BeginHost(Own(Unmixed(mixed)), p, mixed)
         \/ BeginClient(p, mixed) \/ BeginHost(Given(Unmixed(mixed)), p, mixed))
  BY Zenon DEF Begin
<1>5. ASSUME BeginUrl(p, mixed) PROVE BeginsAt(p)
  <2>1. PICK h : h = Own(Clear(Unmixed(mixed)))
    OBVIOUS
  <2>2. SameAim(h, http) /\ h.headers = <<>> /\ BeginInternal(h, p, mixed, "url")
    BY <1>3, <1>5, <2>1 DEF BeginUrl
  <2> QED BY <2>2, BeginInternalIs
<1>6. ASSUME BeginClient(p, mixed) PROVE BeginsAt(p)
  <2>1. PICK h : h = Given(Unmixed(mixed))
    OBVIOUS
  <2>2. SameAim(h, http) /\ BeginInternal(h, p, mixed, "client")
    BY <1>3, <1>6, <2>1 DEF BeginClient
  <2> QED BY <2>2, BeginInternalIs
<1>7. ASSUME BeginHost(Own(Unmixed(mixed)), p, mixed) \/ BeginHost(Given(Unmixed(mixed)), p, mixed)
      PROVE  BeginsAt(p)
  <2>1. PICK h : h \in {Own(Unmixed(mixed)), Given(Unmixed(mixed))} /\ BeginHost(h, p, mixed)
    BY <1>7
  <2>2. SameAim(h, http)
    BY <1>3, <2>1
  <2> QED BY <2>1, <2>2, BeginHostIs
<1>8. BeginsAt(p)
  BY <1>4, <1>5, <1>6, <1>7
<1> QED BY <1>2, <1>4, <1>8

(* A connection that a begin() leaves is to the host it names, unless it is *)
(* begin(host, port, uri).                                                 *)
LEMMA BeginAsks == ASSUME Shape, Apart, Asks, Begin, plan' = plan PROVE Asks'
<1>1. PICK p : p = plan.calls[used.calls + 1].at
  OBVIOUS
<1>2. /\ BeginsAt(p) /\ used.calls < Len(plan.calls) /\ call.pc \in {"idle", "answered", "returned"}
      /\ call' = [Idle EXCEPT !.pc = "begun"] /\ UNCHANGED <<jar, served, stale, used>>
  BY <1>1, BeginAim
<1>3. p \in Place
  <2>1. used.calls \in Nat
    BY DEF Asks, CallFits
  <2>2. used.calls + 1 \in 1..Len(plan.calls)
    BY <1>2, <2>1, PlanIs
  <2>3. plan.calls[used.calls + 1] \in Asked
    BY <2>2, PlanIs
  <2> QED BY <1>1, <2>3 DEF Asked
<1>4. call'.pc = "begun" /\ call'.redirects = 0
  BY <1>2 DEF Idle
<1>5. RereadsBody /\ IsServed(served)
  BY <1>2, UnchangedBody DEF Shape
<1>6. HeadersFit(http.headers, http.begun, used.calls)'
  <2>1. CASE http'.headers = <<>>
    <3>1. HeadersFit(http'.headers, http'.begun, used'.calls)
      BY <2>1, NoHeaders
    <3> QED BY <3>1 DEF HeadersFit
  <2>2. CASE http'.headers # <<>>
    <3>1. http'.headers = http.headers /\ http'.begun = "client"
      BY <1>2, <2>2 DEF BeginsAt
    <3> QED BY <1>2, <3>1 DEF Asks, HeadersFit
  <2> QED BY <2>1, <2>2
<1>7. JarFits' /\ LocationFits' /\ ServedFit' /\ \A i \in 1..Len(served') : RequestFits(i)'
  <2>1. JarFits'
    BY <1>2, <1>5, JarStays DEF Asks
  <2>2. LocationFits'
    BY <1>2, <1>5, LocationStays DEF Asks, BeginsAt
  <2>3. owed' \in {owed, "none"}
    BY <1>2, OwedIs DEF BeginsAt
  <2>4. ServedFit'
    BY <1>2, <1>5, <2>3, ServedStays DEF Asks
  <2>5. \A i \in 1..Len(served') : RequestFits(i)'
    BY <1>2, <1>5, AllFitStay DEF Asks, RereadsBody
  <2> QED BY <2>1, <2>2, <2>4, <2>5
<1>8. LinkFitsHost'
  <2> SUFFICES ASSUME Connected' PROVE
       /\ served' # <<>> /\ link'.at = served'[Len(served')].at /\ http'.at \in Place
       /\ \/ link'.at.host = http'.at.host \/ Misled'
          \/ http'.begun = "host" /\ call'.pc \in {"begun", "request"} /\ call'.redirects = 0
    BY DEF LinkFitsHost
  <2>1. Stands
    BY <1>2, WaysToStand DEF BeginsAt, Apart
  <2>2. Connected /\ link'.at = link.at
    BY <2>1 DEF Stands
  <2>3. /\ served # <<>> /\ link.at = served[Len(served)].at /\ http.at \in Place
        /\ \/ link.at.host = http.at.host \/ Misled
    BY <1>2, <2>2 DEF LinkFitsHost, Asks
  <2>4. http'.at = p /\ (http'.begun = "host" \/ ~OtherHost(http, p))
    <3>1. ~Stop
      BY DEF Stop, Down, Connected
    <3> QED BY <1>2, <3>1 DEF BeginsAt
  <2>5. Misled' <=> Misled
    BY <1>2 DEF Misled
  <2>6. ASSUME ~OtherHost(http, p) PROVE http.at.host = p.host
    BY <2>2, <2>3, <2>6, NothingAssumption DEF OtherHost
  <2> QED BY <1>2, <1>3, <1>4, <2>2, <2>3, <2>4, <2>5, <2>6
<1>9. CallFits'
  <2>1. used.calls \in Nat
    BY DEF Asks, CallFits
  <2>2. /\ call'.redirects \in Nat /\ used'.calls \in Nat
        /\ call'.redirects = 0 /\ used'.calls < Len(plan'.calls) /\ http'.at = plan'.calls[used'.calls + 1].at
        /\ http'.begun \in {"host", "url", "client"} /\ (http'.begun # "client" => http'.headers = <<>>)
    BY <1>1, <1>2, <1>4, <2>1 DEF BeginsAt
  <2> QED BY <1>4, <2>2 DEF CallFits
<1> QED BY <1>6, <1>7, <1>8, <1>9 DEF Asks

(* end() clears the headers and leaves the rest. *)
LEMMA EndAsks == ASSUME Shape, Apart, Asks, End, plan' = plan PROVE Asks'
<1>1. /\ http'.at = http.at /\ http'.begun = http.begun /\ http'.location = http.location
      /\ http'.headers = <<>>
  BY AimKept DEF End, SameAim, Shape, Members
<1>2. /\ call'.pc = "idle" /\ call'.redirects = 0 /\ call.pc \in {"answered", "returned"}
      /\ UNCHANGED <<jar, served, used>> /\ Stands /\ owed' \in {owed, "none"}
  BY WaysToStand, OwedIs DEF End, Idle, Apart
<1>3. RereadsBody /\ IsServed(served) /\ Rereads
  BY <1>2, UnchangedBody DEF Shape, RereadsBody
<1>4. HeadersFit(http.headers, http.begun, used.calls)'
  <2>1. HeadersFit(http'.headers, http'.begun, used'.calls)
    BY <1>1, NoHeaders
  <2> QED BY <2>1 DEF HeadersFit
<1>5. JarFits'
  BY <1>2, <1>3, JarStays DEF Asks
<1>6. LocationFits'
  BY <1>1, <1>3, LocationStays DEF Asks
<1>7. ServedFit'
  BY <1>2, <1>3, ServedStays DEF Asks
<1>8. \A i \in 1..Len(served') : RequestFits(i)'
  BY <1>3, AllFitStay DEF Asks
<1>9. LinkFitsHost'
  BY <1>1, <1>2, <1>3, LinkHolds DEF Asks
<1>10. CallFits'
  BY <1>2, <1>3, CallReads DEF Asks
<1> QED BY <1>4, <1>5, <1>6, <1>7, <1>8, <1>9, <1>10 DEF Asks

(* The caller's own header, added to those that begin() left *)
LEMMA MarkAdded ==
  ASSUME NEW hs, HeadersFit(hs, http.begun, used.calls), used.calls \in Nat, NEW q \in Asked,
         q.header # "none", NEW n, n = used.calls + 1, q = plan.calls[n],
         http.begun # "client" => hs = <<>>,
         NEW new, new = AddHeader(hs, "x-cookie", n, q.header = "replace")
  PROVE  /\ HeadersFit(new, http.begun, n) /\ n \in Named(new, "x-cookie")
         /\ http.begun # "client" => \A o : Named(new, o) = IF o = "x-cookie" THEN {n} ELSE {}
<1>1. /\ hs \in Seq(HeaderLine) /\ OnlyOne(hs, "length")
      /\ OnlyOne(hs, "cookie") \/ Lines(hs, "x-cookie") # {}
      /\ OnlyOne(hs, "x-cookie") \/ (http.begun = "client" /\ \E c \in 1..used.calls : plan.calls[c].header = "add")
  BY DEF HeadersFit
<1>2. n \in Nat /\ "x-cookie" \in Names /\ "x-cookie" # "length" /\ "x-cookie" # "cookie"
  BY DEF Names
<1>3. PICK replace \in BOOLEAN : replace = (q.header = "replace")
  OBVIOUS
<1>4. Adds(new, hs, "x-cookie", n)
  BY <1>1, <1>2, <1>3, AddKeeps, NumbersAre
<1>5. /\ new \in Seq(HeaderLine) /\ n \in Named(new, "x-cookie")
      /\ \A o : o # "x-cookie" => Named(new, o) = Named(hs, o) /\ (OnlyOne(hs, o) => OnlyOne(new, o))
  BY <1>4 DEF Adds
<1>6. Lines(new, "x-cookie") # {}
  BY <1>5, NamedLines
<1>7. ASSUME http.begun # "client"
      PROVE  OnlyOne(new, "x-cookie") /\ \A o : Named(new, o) = IF o = "x-cookie" THEN {n} ELSE {}
  <2>1. hs = <<>> /\ \A o : Named(hs, o) = {}
    BY <1>7, NoHeaders
  <2>2. Lines(hs, "x-cookie") = {}
    BY <2>1, NamedLines
  <2>3. Sole(new, "x-cookie", n)
    BY <1>1, <1>2, <1>3, <2>2, FirstSole, NumbersAre
  <2> QED BY <1>5, <2>1, <2>3 DEF Sole
<1>8. ASSUME http.begun = "client"
      PROVE  OnlyOne(new, "x-cookie") \/ \E c \in 1..n : plan.calls[c].header = "add"
  <2>1. CASE q.header = "add"
    BY <1>2, <2>1
  <2>2. CASE q.header # "add"
    <3>1. q.header = "replace"
      BY <2>2 DEF Asked
    <3>2. CASE OnlyOne(hs, "x-cookie")
      <4>1. Sole(new, "x-cookie", n)
        BY <1>1, <1>2, <1>3, <3>1, <3>2, ReplaceSole, NumbersAre
      <4> QED BY <4>1 DEF Sole
    <3>3. CASE ~OnlyOne(hs, "x-cookie")
      <4>1. PICK c \in 1..used.calls : plan.calls[c].header = "add"
        BY <1>1, <3>3
      <4>2. c \in 1..n
        BY <4>1
      <4> QED BY <4>1, <4>2
    <3> QED BY <3>2, <3>3
  <2> QED BY <2>1, <2>2
<1> QED BY <1>1, <1>2, <1>5, <1>6, <1>7, <1>8 DEF HeadersFit

(* The caller asks for what is planned. *)
LEMMA AskIs ==
  ASSUME Shape, Asks, Ask
  PROVE  /\ used'.calls = used.calls + 1 /\ used'.calls \in 1..Len(plan.calls)
         /\ SameRequest \/ /\ http'.at = http.at /\ http'.begun = http.begun
                           /\ plan.calls[used'.calls].header # "none"
                           /\ http'.headers = AddHeader(http.headers, "x-cookie", used'.calls,
                                                plan.calls[used'.calls].header = "replace")
         /\ SameRequest => plan.calls[used'.calls].header = "none" \/ http'.headers = 
               AddHeader(http.headers, "x-cookie", used'.calls, plan.calls[used'.calls].header = "replace")
         /\ http'.location = http.location
         /\ call.pc = "begun" /\ call'.pc = "request" /\ call'.redirects = call.redirects
         /\ call'.type = plan.calls[used'.calls].type /\ call'.payload = plan.calls[used'.calls].payload
         /\ UNCHANGED <<link, rx, flight, owed, jar, served, stale>>
<1>1. PICK q : /\ q = plan.calls[used.calls + 1]
               /\ call' = [call EXCEPT !.pc = "request", !.type = q.type,
                               !.payload = q.payload, !.stream = q.stream]
               /\ http' = [SetReuse(http, q.reuse) EXCEPT !.headers =
                     IF q.header = "none" THEN @
                     ELSE AddHeader(@, "x-cookie", used.calls + 1, q.header = "replace")]
  BY Zenon DEF Ask
<1>2. /\ call.pc = "begun" /\ used' = [used EXCEPT !.calls = @ + 1]
      /\ UNCHANGED <<link, rx, flight, owed, jar, served, stale>>
  BY Zenon DEF Ask
<1>3. used'.calls = used.calls + 1 /\ used.calls \in Nat /\ used.calls < Len(plan.calls)
  BY <1>2 DEF Shape, Asks, CallFits
<1>4. used'.calls \in 1..Len(plan.calls)
  BY <1>3, PlanIs
<1>5. /\ call'.pc = "request" /\ call'.redirects = call.redirects
      /\ call'.type = q.type /\ call'.payload = q.payload
  BY <1>1 DEF Shape, CallFields
<1>6. /\ http'.at = http.at /\ http'.begun = http.begun /\ http'.location = http.location
      /\ http'.headers = IF q.header = "none" THEN http.headers
                         ELSE AddHeader(http.headers, "x-cookie", used.calls + 1, q.header = "replace")
  BY <1>1 DEF Shape, SetReuse, HttpFields
<1> QED BY <1>1, <1>2, <1>3, <1>4, <1>5, <1>6 DEF SameRequest

LEMMA AskAsks == ASSUME Shape, Apart, Asks, Ask, plan' = plan PROVE Asks'
<1>1. PICK n, q : n = used'.calls /\ q = plan.calls[n]
  OBVIOUS
<1>2. /\ n = used.calls + 1 /\ n \in 1..Len(plan.calls) /\ http'.at = http.at /\ http'.begun = http.begun
      /\ \/ q.header = "none" /\ http'.headers = http.headers
         \/ q.header # "none" /\ http'.headers = AddHeader(http.headers, "x-cookie", n, q.header = "replace")
      /\ http'.location = http.location
      /\ call.pc = "begun" /\ call'.pc = "request" /\ call'.redirects = call.redirects
      /\ call'.type = q.type /\ call'.payload = q.payload
      /\ UNCHANGED <<link, rx, flight, owed, jar, served, stale>>
  BY <1>1, AskIs DEF SameRequest
<1>3. /\ call.redirects = 0 /\ used.calls \in Nat /\ http.at = q.at
      /\ http.begun \in {"host", "url", "client"} /\ (http.begun # "client" => http.headers = <<>>)
  BY <1>1, <1>2 DEF Asks, CallFits
<1>4. q \in Asked
  BY <1>1, <1>2, PlanIs
<1>5. RereadsBody /\ IsServed(served) /\ Rereads /\ Stands
  BY <1>2, UnchangedBody, CutStands DEF Shape, RereadsBody, Apart
<1>6. /\ HeadersFit(http'.headers, http.begun, n)
      /\ q.header # "none" => n \in Named(http'.headers, "x-cookie")
      /\ http.begun # "client" =>
           \A o : Named(http'.headers, o) = IF o = "x-cookie" /\ q.header # "none" THEN {n} ELSE {}
  <2>1. HeadersFit(http.headers, http.begun, used.calls)
    BY DEF Asks
  <2>2. CASE q.header = "none"
    <3>1. http'.headers = http.headers
      BY <1>2, <2>2
    <3>2. HeadersFit(http'.headers, http.begun, n)
      BY <1>2, <1>3, <2>1, <3>1 DEF HeadersFit
    <3> QED BY <1>3, <2>2, <3>1, <3>2, NoHeaders
  <2>3. CASE q.header # "none"
    <3>1. http'.headers = AddHeader(http.headers, "x-cookie", n, q.header = "replace")
      BY <1>2, <2>3
    <3>2. /\ HeadersFit(http'.headers, http.begun, n) /\ n \in Named(http'.headers, "x-cookie")
          /\ http.begun # "client" => \A o : Named(http'.headers, o) = IF o = "x-cookie" THEN {n} ELSE {}
      BY <1>1, <1>2, <1>3, <1>4, <2>1, <2>3, <3>1, MarkAdded
    <3> QED BY <2>3, <3>2
  <2> QED BY <2>2, <2>3
<1>7. HeadersFit(http.headers, http.begun, used.calls)'
  BY <1>1, <1>2, <1>6 DEF HeadersFit
<1>8. Asking'
  BY <1>1, <1>2, <1>3, <1>6 DEF Asking
<1>9. CallFits'
  <2>1. call'.payload \in Nat
    BY <1>2, <1>4 DEF Asked
  <2> QED BY <1>1, <1>2, <1>3, <1>8, <2>1 DEF CallFits
<1>10. JarFits'
  BY <1>2, <1>5, JarStays DEF Asks
<1>11. LocationFits'
  BY <1>2, <1>5, LocationStays DEF Asks
<1>12. ServedFit'
  BY <1>2, <1>5, ServedStays DEF Asks
<1>13. \A i \in 1..Len(served') : RequestFits(i)'
  BY <1>5, AllFitStay DEF Asks
<1>14. LinkFitsHost'
  BY <1>2, <1>5, LinkHolds DEF Asks
<1> QED BY <1>7, <1>9, <1>10, <1>11, <1>12, <1>13, <1>14 DEF Asks

(* The cookies for a host are the numbers of requests. *)
LEMMA CookieIs ==
  ASSUME Shape, JarFits, NEW cookies, cookies = CookiesFor(http)
  PROVE  /\ cookies \in SUBSET (1..Len(served)) /\ cookies \in SUBSET Nat
         /\ \A v \in cookies : \E c \in jar : c.domain \in Parts[http.at.host] /\ c.value = v
<1>1. \A v \in cookies : \E c \in jar : c.domain \in Parts[http.at.host] /\ c.value = v
  BY DEF CookiesFor
<1>2. \A v \in cookies : v \in 1..Len(served)
  BY <1>1 DEF JarFits
<1> QED BY <1>1, <1>2

(* Of what cannot be sent the headers stay in order. *)
LEMMA CannotSendAsks == ASSUME Shape, Apart, Asks, CannotSend, plan' = plan PROVE Asks'
<1>1. /\ Return(-1) /\ UNCHANGED <<stale, served, jar>> /\ (used' = used \/ Fails)
      /\ http' \in {Wiped(http), Made(Wiped(http)), Headed(http)} /\ call.pc = "request"
  BY CannotSendIs, Zenon DEF CannotSend
<1>2. Members(http) /\ DOMAIN http = HttpFields /\ used'.calls = used.calls
  BY <1>1, UsedCalls DEF Shape, Members
<1>3. /\ http'.at = http.at /\ http'.begun = http.begun /\ http'.location = http.location
      /\ HeadersFit(http'.headers, http.begun, used.calls)
  <2>1. HeadersFit(http.headers, http.begun, used.calls) /\ call.payload \in Nat
    BY <1>1 DEF Asks, CallFits
  <2>2. CASE http' = Wiped(http)
    BY <1>2, <2>1, <2>2 DEF Wiped, HttpFields
  <2>3. CASE http' = Made(Wiped(http))
    BY <1>2, <2>1, <2>3 DEF Made, Wiped, HttpFields
  <2>4. CASE http' = Headed(http)
    <3>1. PICK cookies : cookies = CookiesFor(http)
      OBVIOUS
    <3>2. cookies \in SUBSET Nat
      BY <3>1, CookieIs DEF Asks
    <3> QED BY <1>2, <2>1, <2>4, <3>1, <3>2, HeadedIs
  <2> QED BY <1>1, <2>2, <2>3, <2>4
<1>4. ~Connected'
  BY <1>1 DEF Return, Stop, Keep, Down, Connected
<1>5. call'.pc = "returned" /\ call'.redirects = call.redirects
  BY <1>1 DEF Return, Shape, CallFields
<1>6. RereadsBody /\ IsServed(served) /\ Rereads
  BY <1>1, UnchangedBody DEF Shape, RereadsBody
<1>7. HeadersFit(http.headers, http.begun, used.calls)'
  BY <1>2, <1>3 DEF HeadersFit
<1>8. JarFits'
  BY <1>1, <1>6, JarStays DEF Asks
<1>9. LocationFits'
  BY <1>3, <1>6, LocationStays DEF Asks
<1>10. ServedFit'
  BY <1>1, <1>6, OwedIs, ServedStays DEF Asks
<1>11. \A i \in 1..Len(served') : RequestFits(i)'
  BY <1>6, AllFitStay DEF Asks
<1>12. LinkFitsHost'
  BY <1>4 DEF LinkFitsHost
<1>13. CallFits'
  BY <1>2, <1>5, <1>6, CallReads DEF Asks, CallFits
<1> QED BY <1>7, <1>8, <1>9, <1>10, <1>11, <1>12, <1>13 DEF Asks

(* The reply that is being read is of the last request; where it tells of a *)
(* place, it is the latest that does.                                      *)
LEMMA ToldLast ==
  ASSUME IsServed(served), served # <<>>, NEW p \in Planned, p = served[Len(served)].reply,
         p.location.kind # "none"
  PROVE  Len(served) \in Latest(Len(served) + 1)
<1>1. Len(served) \in 1..Len(served) /\ Len(served) \in Nat
  BY LastIs
<1>2. Tells(Len(served))
  BY NoReplyIs DEF Tells
<1>3. (Len(served) + 1) - 1 = Len(served) /\ \A k \in (Len(served) + 1)..Len(served) : FALSE
  BY <1>1
<1> QED BY <1>1, <1>2, <1>3 DEF Latest

(* The line that is read, of the reply to the last request *)
LEMMA HeadLineIs ==
  ASSUME Shape, Apart, HeadLine
  PROVE  \E p \in Planned, r \in Nat :
           /\ r = Len(served) /\ r >= 1 /\ p = served[r].reply
           /\ SameRequest /\ http'.location \in {http.location} \cup (IF p.location.kind = "none" THEN {} ELSE {p.location})
           /\ jar' = jar \/ \E age : SetCookie([value |-> r, domain |-> p.domain, age |-> age], http.at.host)
           /\ call.pc = "head" /\ call'.pc = "head" /\ call'.redirects = call.redirects
           /\ call'.type = call.type /\ call'.payload = call.payload
           /\ rx # <<>> /\ UNCHANGED <<link, flight, owed, served, used>>
<1>1. call.pc = "head" /\ rx # <<>>
  BY DEF HeadLine
<1>2. PICK p, r, c, d, m, j : Reading(p, r, c, d, m, j) /\ InHead(p, r, d)
  BY <1>1, ReadingIs DEF IsAnswered, InBody, InPlainBody, InChunkedBody
<1>3. rx \in Seq(Token) /\ rx[1] = Tok(p, r, c, d + 1) /\ d \in {0, 1, 2} /\ d < m /\ m \in Nat
  BY <1>1, <1>2, RxIs DEF InHead
<1>4. rx[1] = IF d = 0 THEN StatusLine(p, r) ELSE IF d = 1 THEN FieldLines(p, r, c) ELSE BlankLine(r)
  BY <1>3 DEF Tok
<1>5. IsLine(rx[1])
  BY <1>4 DEF StatusLine, FieldLines, BlankLine, IsLine
<1>6. LineLength = 1 /\ Text(LineLength) = [text |-> FALSE, last |-> rx[1]]
  BY <1>1, <1>3, <1>5, ALine
<1> DEFINE aLine == [text |-> FALSE, last |-> rx[1]]
<1>7. /\ aLine.last.k # "blank" \/ aLine.text
      /\ \E h \in IF call.first THEN FirstLine(aLine, http) ELSE {Field(aLine, http)} : http' = h
      /\ IF ~call.first /\ aLine.last.k = "fields" /\ aLine.last.cookie # NoCookie
           THEN SetCookie(aLine.last.cookie, http.at.host)
           ELSE UNCHANGED jar
      /\ call' = [call EXCEPT !.first = FALSE]
      /\ UNCHANGED <<link, flight, owed, served, used>>
  BY <1>6, Zenon DEF HeadLine
<1>8. d # 2
  BY <1>4, <1>7 DEF BlankLine
<1>9. r = Len(served) /\ r \in Nat /\ r >= 1 /\ p = served[r].reply /\ p \in Planned
  BY <1>2 DEF Reading
<1>10. SameRequest /\ http'.location \in {http.location} \cup (IF p.location.kind = "none" THEN {} ELSE {p.location})
  <2>1. CASE d = 0
    <3>1. call.first
      BY <1>2, <2>1 DEF InHead
    <3>2. http' \in FirstLine(aLine, http)
      BY <1>7, <3>1
    <3> QED BY <3>2 DEF FirstLine, SameRequest, Shape, HttpFields
  <2>2. CASE d = 1
    <3>1. ~call.first
      BY <1>2, <2>2 DEF InHead
    <3>2. http' = Field(aLine, http) /\ aLine.last.location = p.location
      BY <1>4, <1>7, <2>2, <3>1 DEF FieldLines
    <3> QED BY <3>2 DEF Field, SameRequest, Shape, HttpFields
  <2> QED BY <1>3, <1>8, <2>1, <2>2
<1>11. jar' = jar \/ \E age : SetCookie([value |-> r, domain |-> p.domain, age |-> age], http.at.host)
  <2> SUFFICES ASSUME jar' # jar
               PROVE  \E age : SetCookie([value |-> r, domain |-> p.domain, age |-> age], http.at.host)
    OBVIOUS
  <2>1. /\ aLine.last.k = "fields" /\ aLine.last.cookie # NoCookie
        /\ SetCookie(aLine.last.cookie, http.at.host)
    BY <1>7
  <2>2. aLine.last.cookie = IF p.age = "none" THEN NoCookie
                            ELSE [value |-> r, domain |-> p.domain, age |-> p.age]
    BY <1>4, <2>1 DEF StatusLine, FieldLines, BlankLine
  <2>3. aLine.last.cookie = [value |-> r, domain |-> p.domain, age |-> p.age]
    BY <2>1, <2>2, Zenon
  <2> QED BY <2>1, <2>3, Zenon
<1>12. call'.pc = "head" /\ call'.redirects = call.redirects /\ call'.type = call.type /\ call'.payload = call.payload
  BY <1>1, <1>7 DEF Shape, CallFields
<1> QED BY <1>1, <1>7, <1>9, <1>10, <1>11, <1>12

(* A cookie that is new in the jar is of the domain it was set for.         *)
LEMMA NewCookie ==
  ASSUME NEW r, NEW p, NEW host,
         jar' = jar \/ \E age : SetCookie([value |-> r, domain |-> p.domain, age |-> age], host)
  PROVE  \A c \in jar' \ jar : c.domain = Domain(p.domain, host) /\ c.value = r
<1> SUFFICES ASSUME NEW c \in jar', c \notin jar PROVE c.domain = Domain(p.domain, host) /\ c.value = r
  OBVIOUS
<1>1. PICK age : SetCookie([value |-> r, domain |-> p.domain, age |-> age], host)
  OBVIOUS
<1>2. PICK put : /\ put = [[value |-> r, domain |-> p.domain, age |-> age] EXCEPT !.domain = Domain(p.domain, host)]
                 /\ PutIn(put)
  BY <1>1 DEF SetCookie
<1>3. c = put
  BY <1>2 DEF PutIn, Added, Overwritten
<1>4. put.domain = Domain(p.domain, host) /\ put.value = r
  BY <1>2
<1> QED BY <1>3, <1>4

(* The fields of a head set the place and the cookie of this reply. *)
LEMMA HeadLineAsks == ASSUME Shape, Apart, Asks, HeadLine, plan' = plan PROVE Asks'
<1>1. PICK p \in Planned, r \in Nat :
           /\ r = Len(served) /\ r >= 1 /\ p = served[r].reply
           /\ SameRequest /\ http'.location \in {http.location} \cup (IF p.location.kind = "none" THEN {} ELSE {p.location})
           /\ jar' = jar \/ \E age : SetCookie([value |-> r, domain |-> p.domain, age |-> age], http.at.host)
           /\ call.pc = "head" /\ call'.pc = "head" /\ call'.redirects = call.redirects
           /\ call'.type = call.type /\ call'.payload = call.payload
           /\ rx # <<>> /\ UNCHANGED <<link, flight, owed, served, used>>
  BY HeadLineIs
<1>2. RereadsBody /\ IsServed(served) /\ Rereads /\ Stands
  BY <1>1, UnchangedBody, CutStands DEF Shape, RereadsBody, Apart
<1>3. served # <<>> /\ HeadFits
  BY <1>1 DEF Asks, CallFits
<1>4. HeadersFit(http.headers, http.begun, used.calls)'
  BY <1>1 DEF Asks, HeadersFit, SameRequest
<1>5. JarFits'
  <2>1. http.at = served[r].wanted
    BY <1>1, <1>3 DEF HeadFits
  <2>2. DomainOf(r) = Domain(p.domain, http.at.host)
    BY <1>1, <2>1 DEF DomainOf
  <2>3. \A c \in jar' \ jar : c.domain = DomainOf(r) /\ c.value = r
    <3>1. PICK host : host = http.at.host
      OBVIOUS
    <3>2. jar' = jar \/ \E age : SetCookie([value |-> r, domain |-> p.domain, age |-> age], host)
      BY <1>1, <3>1, Zenon
    <3>3. \A c \in jar' \ jar : c.domain = Domain(p.domain, host) /\ c.value = r
      BY <3>2, NewCookie
    <3> QED BY <2>2, <3>1, <3>3
  <2>4. \A k : DomainOf(k)' = DomainOf(k) /\ (Sets(k)' <=> Sets(k))
    BY <1>1, SetsSame
  <2> SUFFICES ASSUME NEW c \in jar'
               PROVE  /\ c.value \in 1..r /\ DomainOf(c.value) = c.domain /\ served[c.value].reply # NoReply
                      /\ \A k \in (c.value + 1)..r : Sets(k) => DomainOf(k) # c.domain
    BY <1>1, <2>4 DEF JarFits
  <2>5. CASE c \in jar
    BY <1>1, <2>5 DEF Asks, JarFits
  <2>6. CASE c \notin jar
    <3>1. c.domain = DomainOf(r) /\ c.value = r
      BY <2>3, <2>6
    <3>2. r \in 1..r /\ (r + 1)..r = {} /\ served[r].reply # NoReply
      BY <1>1, NoReplyIs
    <3> QED BY <3>1, <3>2
  <2> QED BY <2>5, <2>6
<1>6. LocationFits'
  <2>1. CASE http'.location = http.location
    BY <1>2, <2>1, LocationStays DEF Asks
  <2>2. CASE http'.location # http.location
    <3>1. p.location.kind # "none" /\ http'.location = p.location
      BY <1>1, <2>2
    <3>2. r \in Latest(Len(served) + 1)
      BY <1>1, <1>2, <1>3, <3>1, ToldLast
    <3>3. r \in Latest(Len(served) + 1)' /\ served'[r].reply = p
      BY <1>1, <1>2, <3>2, LatestStays
    <3> QED BY <3>1, <3>3 DEF LocationFits
  <2> QED BY <2>1, <2>2
<1>7. LinkFitsHost'
  BY <1>1, <1>2, LinkHolds DEF Asks, SameRequest
<1>8. ServedFit'
  BY <1>1, <1>2, ServedStays DEF Asks
<1>9. \A i \in 1..Len(served') : RequestFits(i)'
  BY <1>2, AllFitStay DEF Asks
<1>10. CallFits'
  <2>1. HeadFits'
    BY <1>1, <1>3 DEF HeadFits, SameRequest
  <2>2. call'.redirects \in Nat /\ used'.calls \in Nat /\ used'.calls \in 1..Len(plan'.calls) /\ call'.payload \in Nat
    BY <1>1 DEF Asks, CallFits
  <2> QED BY <1>1, <1>3, <2>1, <2>2 DEF CallFits
<1> QED BY <1>4, <1>5, <1>6, <1>7, <1>8, <1>9, <1>10 DEF Asks

(* At the end of a head: what it told is known. *)
HeadEndsOf(p, r) ==
  /\ r = Len(served) /\ r \in Nat /\ r >= 1 /\ p = served[r].reply /\ p \in Planned
  /\ http.code = p.code /\ HeadTold(p, r)
  /\ Rereads /\ served'[r].seen = "head" /\ served'[r].reply = p

(* The last line of a head is read when its fields are known. *)
LEMMA HeadEndsReads ==
  ASSUME Shape, Apart, ServedFit, HeadEnds
  PROVE  /\ \E p, r : HeadEndsOf(p, r)
         /\ call.pc = "head" /\ rx # <<>> /\ UNCHANGED <<jar, used>>
<1>1. call.pc = "head" /\ rx # <<>> /\ rx[1].k = "blank" /\ Seen("head") /\ UNCHANGED <<jar, used>>
  BY HeadEndsIs DEF HeadEnds
<1>2. PICK p, r, c, d, m, j : Reading(p, r, c, d, m, j) /\ InHead(p, r, d)
  BY <1>1, ReadingIs DEF IsAnswered, InBody, InPlainBody, InChunkedBody
<1>3. rx[1] = Tok(p, r, c, d + 1) /\ d \in {0, 1, 2}
  BY <1>1, <1>2, RxIs DEF InHead
<1>4. d = 2
  BY <1>1, <1>3 DEF Tok, StatusLine, FieldLines
<1>5. http.code = p.code /\ HeadTold(p, r)
  BY <1>2, <1>4 DEF InHead
<1>6. r = Len(served) /\ r \in Nat /\ r >= 1 /\ p = served[r].reply /\ p \in Planned
  BY <1>2 DEF Reading
<1>7. served # <<>>
  <2>1. Len(<<>>) = 0
    OBVIOUS
  <2> QED BY <1>6, <2>1
<1>8. Rereads /\ served'[r].seen = "head" /\ served'[r].reply = p
  BY <1>1, <1>6, <1>7, SeenRereads DEF Shape
<1> QED BY <1>1, <1>5, <1>6, <1>8 DEF HeadEndsOf

(* A head that has been read counts from now on: its cookie is the newest,  *)
(* its place the latest.                                                   *)
LEMMA HeadEndsServed ==
  ASSUME Shape, Asks, NEW p, NEW r, HeadEndsOf(p, r), call.pc = "head", jar' = jar,
         http'.location = http.location, owed' \in {owed, "none"}, plan' = plan
  PROVE  JarFits' /\ LocationFits' /\ ServedFit' /\ \A i \in 1..Len(served') : RequestFits(i)'
<1>1. /\ r = Len(served) /\ r \in Nat /\ r >= 1 /\ p = served[r].reply /\ p \in Planned /\ r \in 1..r
      /\ http.code = p.code /\ Rereads /\ served'[r].seen = "head" /\ served'[r].reply = p
      /\ p.location.kind # "none" => http.location = p.location
      /\ p.age # "none" /\ Accepted(p.domain, http.at.host) =>
           \A c \in jar : c.domain = Domain(p.domain, http.at.host) => c.value = r
  BY DEF HeadEndsOf, HeadTold
<1>2. /\ Len(served') = r /\ \A i \in 1..(r - 1) : served'[i] = served[i]
      /\ \A i \in 1..r : served'[i].wanted = served[i].wanted /\ served'[i].reply = served[i].reply
      /\ \A i \in 1..r : served[i].seen # "no" => served'[i].seen # "no"
  <2>1. \A i \in 1..(r - 1) : i \in 1..r /\ i < r
    BY <1>1
  <2>2. \A i \in 1..r : i \in 1..(r - 1) \/ i = r
    BY <1>1
  <2>3. \A i \in 1..(r - 1) : served'[i] = served[i]
    BY <1>1, <2>1 DEF Rereads
  <2> QED BY <1>1, <2>2, <2>3 DEF Rereads, Fixed
<1>3. http.at = served[r].wanted
  BY <1>1 DEF Asks, CallFits, HeadFits
<1>4. JarFits'
  <2>1. \A k \in 1..r : DomainOf(k)' = DomainOf(k)
    BY <1>2, SetsSame
  <2>2. \A k \in 1..(r - 1) : Sets(k)' <=> Sets(k)
    <3>1. \A k \in 1..(r - 1) : served'[k] = served[k]
      BY <1>2
    <3> QED BY <3>1, SetsSame
  <2>3. DomainOf(r)' = Domain(p.domain, http.at.host) /\ (Sets(r)' => p.age # "none" /\ Accepted(p.domain, http.at.host))
    BY <1>1, <1>2, <1>3 DEF DomainOf, Sets, Domain, Accepted
  <2> SUFFICES ASSUME NEW c \in jar
               PROVE  /\ c.value \in 1..r /\ DomainOf(c.value)' = c.domain /\ served'[c.value].reply # NoReply
                      /\ \A k \in (c.value + 1)..r : Sets(k)' => DomainOf(k)' # c.domain
    BY <1>1, <1>2 DEF JarFits
  <2>4. /\ c.value \in 1..r /\ DomainOf(c.value) = c.domain /\ served[c.value].reply # NoReply
        /\ \A k \in (c.value + 1)..r : Sets(k) => DomainOf(k) # c.domain
    BY <1>1 DEF Asks, JarFits
  <2>5. ASSUME NEW k \in (c.value + 1)..r, Sets(k)' PROVE DomainOf(k)' # c.domain
    <3>1. k \in 1..r /\ k # c.value
      BY <1>1, <2>4
    <3>2. CASE k = r
      BY <1>1, <2>3, <2>5, <3>1, <3>2
    <3>3. CASE k # r
      <4>1. k \in 1..(r - 1)
        BY <1>1, <3>1, <3>3
      <4> QED BY <2>1, <2>2, <2>4, <2>5, <3>1, <4>1
    <3> QED BY <3>2, <3>3
  <2> QED BY <1>2, <2>1, <2>4, <2>5
<1>5. LocationFits'
  <2>1. \A i \in 1..r : Tells(i)' <=> Tells(i)
    BY <1>2 DEF Tells
  <2>2. (Len(served) + 1) - 1 = r /\ (Len(served') + 1) - 1 = r
    BY <1>1, <1>2
  <2>3. CASE Tells(r)
    <3>1. http'.location = served'[r].reply.location
      BY <1>1, <2>3 DEF Tells
    <3>2. r \in Latest(Len(served) + 1)'
      <4>1. \A k \in (r + 1)..r : FALSE
        BY <1>1
      <4> QED BY <1>1, <2>1, <2>2, <2>3, <4>1 DEF Latest
    <3> QED BY <3>1, <3>2 DEF LocationFits
  <2>4. CASE ~Tells(r)
    <3>1. ASSUME http.location.kind = "none", \A k \in 1..r : served[k].seen # "no" => ~Tells(k)
          PROVE  LocationFits'
      <4>1. ASSUME NEW k \in 1..r, served'[k].seen # "no" PROVE ~Tells(k)'
        <5>1. CASE k = r
          BY <2>1, <2>4, <5>1
        <5>2. CASE k # r
          <6>1. served'[k] = served[k]
            BY <1>1, <1>2, <5>2
          <6> QED BY <2>1, <3>1, <4>1, <6>1
        <5> QED BY <5>1, <5>2
      <4> QED BY <1>2, <3>1, <4>1 DEF LocationFits
    <3>2. ASSUME NEW j \in Latest(Len(served) + 1), http.location = served[j].reply.location
          PROVE  LocationFits'
      <4>1. j \in 1..r /\ Tells(j) /\ \A k \in (j + 1)..r : served[k].seen # "no" => ~Tells(k)
        BY <1>1, <2>2, <3>2 DEF Latest
      <4>2. ASSUME NEW k \in (j + 1)..r, served'[k].seen # "no" PROVE ~Tells(k)'
        <5>1. k \in 1..r
          BY <4>1
        <5>2. CASE k = r
          BY <2>1, <2>4, <5>1, <5>2
        <5>3. CASE k # r
          <6>1. served'[k] = served[k]
            BY <1>1, <1>2, <5>1, <5>3
          <6> QED BY <2>1, <4>1, <4>2, <5>1, <6>1
        <5> QED BY <5>2, <5>3
      <4>3. j \in Latest(Len(served) + 1)'
        BY <1>2, <2>1, <2>2, <4>1, <4>2 DEF Latest
      <4>4. http'.location = served'[j].reply.location
        BY <1>2, <3>2, <4>1
      <4> QED BY <4>3, <4>4 DEF LocationFits
    <3> QED BY <1>1, <3>1, <3>2 DEF Asks, LocationFits
  <2> QED BY <2>3, <2>4
<1>6. ServedFit'
  <2>1. ASSUME NEW i \in 1..r
        PROVE  /\ DOMAIN served'[i] = ServedFields /\ served'[i].wanted \in Place
               /\ served'[i].reply \in Planned \cup {NoReply}
               /\ served'[i].reply = NoReply => served'[i].seen = "no"
    <3>1. CASE i = r
      BY <1>1, <1>2, <3>1, NoReplyIs DEF Asks, ServedFit, Rereads
    <3>2. CASE i # r
      BY <1>1, <1>2, <3>2 DEF Asks, ServedFit
    <3> QED BY <3>1, <3>2
  <2>2. owed' = "none"
    BY <1>1, NoReplyIs DEF Asks, ServedFit
  <2> QED BY <1>2, <2>1, <2>2 DEF ServedFit
<1>7. \A i \in 1..Len(served') : RequestFits(i)'
  BY <1>1, AllFitStay DEF Asks, Shape
<1> QED BY <1>4, <1>5, <1>6, <1>7

(* Where a redirect goes *)
LEMMA GoToAims ==
  ASSUME Shape, NEW l, GoTo(l), l.kind \in {"path", "url"}
  PROVE  /\ http'.at = IF l.kind = "url" THEN l.at ELSE http.at
         /\ http'.headers = IF l.kind = "url" THEN http.headers ELSE <<>>
         /\ http'.begun = http.begun /\ http'.location = http.location
         /\ IF l.kind = "path" THEN rx' = Tail(rx) /\ UNCHANGED <<link, flight, owed>>
            ELSE Stop \/ (~OtherHost(http, l.at) /\ \E h : Disconnect(h))
<1>1. CASE l.kind = "path"
  BY <1>1 DEF GoTo, Clear, Shape, HttpFields
<1>2. CASE l.kind = "url"
  <2>1. Stop \/ (~OtherHost(http, l.at) /\ \E h : Disconnect(h))
    BY <1>2, Zenon DEF GoTo
  <2>2. PICK can : http' = [http EXCEPT !.at = l.at, !.canReuse = can]
    BY <1>2, Zenon DEF GoTo
  <2> QED BY <1>2, <2>1, <2>2 DEF Shape, HttpFields
<1> QED BY <1>1, <1>2

LEMMA HeadEndsWays ==
  ASSUME HeadEnds
  PROVE  \/ HeadEndsWithout
         \/ Redirect /\ MayFollow /\ (SameMethod \/ DroppedToGet) /\ http.location.kind # "foreign"
         \/ HeadEndsAnswered
<1>1. CASE http.framing = "other"
  BY <1>1 DEF HeadEnds, HeadEndsWithout
<1>2. CASE http.framing # "other" /\ http.code = 0
  BY <1>2 DEF HeadEnds, HeadEndsWithout
<1>3. CASE http.framing # "other" /\ http.code # 0
  BY <1>3, Zenon DEF HeadEnds, HeadEndsAnswered
<1> QED BY <1>1, <1>2, <1>3

(* A redirect goes where the latest reply that told a place leads, with the *)
(* method and the payload due by its code.                                 *)
LEMMA RedirectAsks ==
  ASSUME Shape, Apart, Asks, NEW p, NEW r, HeadEndsOf(p, r), call.pc = "head", jar' = jar, used' = used,
         plan' = plan, rx # <<>>, Redirect, MayFollow, SameMethod \/ DroppedToGet,
         http.location.kind # "foreign"
  PROVE  Asks'
<1>1. /\ r = Len(served) /\ r \in Nat /\ r >= 1 /\ p = served[r].reply /\ p \in Planned /\ r \in 1..r
      /\ http.code = p.code /\ Rereads /\ served'[r].seen = "head" /\ served'[r].reply = p
  BY DEF HeadEndsOf
<1>2. PICK l : l = http.location
  OBVIOUS
<1>3. GoTo(l) /\ call' = [(IF DroppedToGet THEN DropPayload(call) ELSE call)
                            EXCEPT !.pc = "request", !.redirects = @ + 1]
  BY <1>2 DEF Redirect
<1>4. served # <<>> /\ HeadFits /\ used.calls \in 1..Len(plan.calls) /\ call.payload \in Nat
      /\ call.redirects \in Nat /\ used.calls \in Nat
  BY DEF Asks, CallFits
<1>5. http'.location = http.location /\ owed' \in {owed, "none"}
  <2>1. http'.location = http.location
    <3>1. CASE l.kind = "path"
      BY <1>3, <3>1 DEF GoTo, Clear, Shape, HttpFields
    <3>2. CASE l.kind # "path"
      <4>1. PICK can : http' = [http EXCEPT !.at = l.at, !.canReuse = can]
        BY <1>3, <3>2, Zenon DEF GoTo
      <4> QED BY <4>1 DEF Shape, HttpFields
    <3> QED BY <3>1, <3>2
  <2>2. owed' \in {owed, "none"}
    <3>1. owed' = owed \/ Stop \/ \E h : Disconnect(h)
      BY <1>3, Zenon DEF GoTo
    <3> QED BY <3>1, OwedIs
  <2> QED BY <2>1, <2>2
<1>6. JarFits' /\ LocationFits' /\ ServedFit' /\ \A i \in 1..Len(served') : RequestFits(i)'
  BY <1>5, HeadEndsServed
<1>7. PICK j : j \in Latest(Len(served) + 1)' /\ l = served'[j].reply.location
  BY <1>2, <1>5, <1>6 DEF LocationFits, MayFollow
<1>8. /\ Len(served') = r /\ j \in 1..r /\ served'[j].reply \in Planned
  <2>1. Len(served') = r
    BY <1>1 DEF Rereads
  <2>2. j \in 1..r /\ Tells(j)'
    BY <1>1, <1>7, <2>1 DEF Latest
  <2> QED BY <1>6, <2>1, <2>2 DEF ServedFit, Tells
<1>9. l \in Location /\ l.kind \in {"path", "url"} /\ (l.kind = "url" => l.at \in Place)
  <2>1. l \in Location
    BY <1>7, <1>8 DEF Planned
  <2>2. l \in [kind : {"path", "url", "foreign"}, at : Place]
    BY <1>2, <2>1 DEF Location, MayFollow
  <2>3. l.kind \in {"path", "url", "foreign"} /\ l.at \in Place
    BY <2>2
  <2> QED BY <1>2, <2>1, <2>3
<1>10. /\ http'.at = IF l.kind = "url" THEN l.at ELSE http.at
       /\ http'.headers = IF l.kind = "url" THEN http.headers ELSE <<>>
       /\ http'.begun = http.begun
       /\ IF l.kind = "path" THEN rx' = Tail(rx) /\ UNCHANGED <<link, flight, owed>>
          ELSE Stop \/ (~OtherHost(http, l.at) /\ \E h : Disconnect(h))
  BY <1>3, <1>9, GoToAims
<1>11. HeadersFit(http.headers, http.begun, used.calls)'
  <2>1. CASE http'.headers = <<>>
    <3>1. HeadersFit(http'.headers, http'.begun, used'.calls)
      BY <2>1, NoHeaders
    <3> QED BY <3>1 DEF HeadersFit
  <2>2. CASE http'.headers # <<>>
    <3>1. http'.headers = http.headers /\ http'.begun = http.begun
      BY <1>10, <2>2
    <3> QED BY <3>1 DEF Asks, HeadersFit
  <2> QED BY <2>1, <2>2
<1>12. /\ call'.pc = "request" /\ call'.redirects = call.redirects + 1
       /\ IF DroppedToGet THEN call'.type = "GET" /\ call'.payload = 0
          ELSE call'.type = call.type /\ call'.payload = call.payload
  <2>1. CASE DroppedToGet
    BY <1>3, <2>1 DEF DropPayload, Shape, CallFields
  <2>2. CASE ~DroppedToGet
    BY <1>3, <2>2 DEF Shape, CallFields
  <2> QED BY <2>1, <2>2
<1>13. LinkFitsHost'
  <2> SUFFICES ASSUME Connected' PROVE
       /\ served' # <<>> /\ link'.at = served'[Len(served')].at /\ http'.at \in Place
       /\ link'.at.host = http'.at.host \/ Misled'
    BY DEF LinkFitsHost
  <2>1. Stands
    <3>1. CASE l.kind = "path"
      BY <1>10, <3>1, CutStands DEF Apart
    <3>2. CASE l.kind # "path"
      BY <1>10, <3>2, WaysToStand DEF Apart
    <3> QED BY <3>1, <3>2
  <2>2. Connected /\ link'.at = link.at
    BY <2>1 DEF Stands
  <2>3. /\ link.at = served[r].at /\ http.at \in Place /\ (link.at.host = http.at.host \/ Misled)
    BY <1>1, <2>2 DEF Asks, LinkFitsHost
  <2>4. served' # <<>> /\ Len(served') = r /\ Fixed(served'[r], served[r])
    BY <1>1, <1>4, LastIs DEF Rereads, Shape
  <2>5. Misled' <=> Misled
    BY <1>1, <2>4 DEF Misled, Fixed
  <2>6. ASSUME l.kind = "url" PROVE http.at.host = l.at.host
    <3>1. ~Stop
      BY DEF Stop, Down, Connected
    <3>2. ~OtherHost(http, l.at)
      BY <1>10, <2>6, <3>1
    <3> QED BY <2>2, <2>3, <3>2, NothingAssumption DEF OtherHost
  <2> QED BY <1>9, <1>10, <2>2, <2>3, <2>4, <2>5, <2>6 DEF Fixed
<1>14. Moving(l)'
  <2>1. PICK b, c : b = served[r] /\ c = served'[r]
    OBVIOUS
  <2>2. Fixed(c, b) /\ c.reply = p
    BY <1>1, <2>1 DEF Rereads
  <2>3. http.at = c.wanted /\ http.headers = c.headers /\ call.type = c.type /\ call.payload = c.payload
    BY <1>1, <1>4, <2>1, <2>2 DEF HeadFits, Fixed
  <2>4. \/ c.reply.code \in {302, 303} /\ call'.type = "GET" /\ call'.payload = 0
        \/ c.reply.code \in {301, 307} /\ call'.type = c.type /\ call'.payload = c.payload
    BY <1>1, <1>12, <2>2, <2>3 DEF SameMethod, DroppedToGet
  <2> QED BY <1>8, <1>10, <2>1, <2>3, <2>4 DEF Moving
<1>15. CallFits'
  <2>1. Moving(served[j].reply.location)'
    BY <1>7, <1>14 DEF Moving
  <2>2. served' # <<>>
    BY <1>1, <1>4, LastIs DEF Shape
  <2>3. call'.redirects \in Nat /\ used'.calls \in Nat /\ used'.calls \in 1..Len(plan'.calls) /\ call'.payload \in Nat
        /\ call'.redirects # 0
    BY <1>4, <1>12
  <2> QED BY <1>7, <1>12, <2>1, <2>2, <2>3 DEF CallFits
<1> QED BY <1>6, <1>11, <1>13, <1>15 DEF Asks

LEMMA HeadEndsAsks == ASSUME Shape, Apart, Asks, HeadEnds, plan' = plan PROVE Asks'
<1>1. PICK p, r : HeadEndsOf(p, r) /\ call.pc = "head" /\ rx # <<>> /\ jar' = jar /\ used' = used
  BY HeadEndsReads DEF Asks
<1>2. CASE Redirect /\ MayFollow /\ (SameMethod \/ DroppedToGet) /\ http.location.kind # "foreign"
  BY <1>1, <1>2, RedirectAsks
<1>3. CASE HeadEndsWithout \/ HeadEndsAnswered
  <2>1. http' = http
    BY <1>3 DEF HeadEndsWithout, HeadEndsAnswered
  <2>2. Stands /\ owed' \in {owed, "none"} /\ call'.redirects = call.redirects /\ call'.pc \in {"returned", "answered"}
    <3>1. CASE HeadEndsWithout
      BY <3>1, WaysToStand, OwedIs, CutIs DEF HeadEndsWithout, Apart, Shape, CallFields
    <3>2. CASE HeadEndsAnswered
      BY <1>1, <3>2, CutStands DEF HeadEndsAnswered, Apart, Shape, CallFields
    <3> QED BY <1>3, <3>1, <3>2
  <2>3. JarFits' /\ LocationFits' /\ ServedFit' /\ \A i \in 1..Len(served') : RequestFits(i)'
    BY <1>1, <2>1, <2>2, HeadEndsServed
  <2>4. LinkFitsHost'
    BY <1>1, <2>1, <2>2, LinkHolds DEF Asks, Shape, HeadEndsOf
  <2>5. HeadersFit(http.headers, http.begun, used.calls)'
    BY <1>1, <2>1 DEF Asks, HeadersFit
  <2>6. CallFits'
    <3>1. served' # <<>> /\ served'[Len(served')].seen # "no"
      BY <1>1, LastIs DEF Asks, CallFits, Shape, HeadEndsOf, Rereads
    <3> QED BY <1>1, <2>2, <3>1 DEF Asks, CallFits
  <2> QED BY <2>3, <2>4, <2>5, <2>6 DEF Asks
<1> QED BY <1>2, <1>3, HeadEndsWays

(* A reply that is sent changes nothing until it is read. *)
LEMMA ReplyAsks == ASSUME Shape, Apart, Asks, Reply, plan' = plan PROVE Asks'
<1>1. PICK p : /\ p \in Planned /\ served' = [served EXCEPT ![Len(served)].reply = p]
               /\ owed = "reply" /\ owed' = "none" /\ UNCHANGED <<link, rx, http, call, stale, used>>
  BY ReplyIs
<1>2. jar' = jar
  BY DEF Reply
<1>3. PICK r : r = Len(served)
  OBVIOUS
<1>4. served # <<>> /\ served[r].reply = NoReply
  BY <1>1, <1>3 DEF Asks, ServedFit
<1>5. r \in Nat /\ r >= 1 /\ r \in 1..r /\ IsServed(served)
  BY <1>3, <1>4, LastIs DEF Shape
<1>6. PICK s, x : s = served[r] /\ x = [s EXCEPT !.reply = p]
  OBVIOUS
<1>7. served' = [served EXCEPT ![Len(served)] = x]
  BY <1>1, <1>3, <1>6
<1>8. Rereads /\ served'[r] = x
  BY <1>3, <1>4, <1>5, <1>6, <1>7, LastChanged DEF Asks
<1>9. DOMAIN s = ServedFields /\ s.seen = "no"
  BY <1>3, <1>4, <1>5, <1>6 DEF Asks, ServedFit
<1>10. served'[r].reply = p /\ served'[r].seen = "no" /\ DOMAIN served'[r] = ServedFields
  BY <1>6, <1>8, <1>9 DEF ServedFields
<1>11. /\ Len(served') = r /\ \A i \in 1..(r - 1) : served'[i] = served[i]
       /\ \A i \in 1..r : served'[i].wanted = served[i].wanted /\ served'[i].seen = served[i].seen
  <2>1. \A i \in 1..(r - 1) : i \in 1..r /\ i < r
    BY <1>5
  <2>2. \A i \in 1..r : i \in 1..(r - 1) \/ i = r
    BY <1>5
  <2>3. \A i \in 1..(r - 1) : served'[i] = served[i]
    BY <1>3, <1>8, <2>1 DEF Rereads
  <2> QED BY <1>3, <1>5, <1>6, <1>8, <1>9, <1>10, <2>2, <2>3 DEF Rereads, Fixed
<1>12. JarFits'
  <2>1. \A k \in 1..(r - 1) : served'[k] = served[k] /\ DomainOf(k)' = DomainOf(k) /\ (Sets(k)' <=> Sets(k))
    BY <1>11, SetsSame
  <2>2. ~Sets(r)'
    BY <1>10 DEF Sets
  <2> SUFFICES ASSUME NEW c \in jar
               PROVE  /\ c.value \in 1..r /\ DomainOf(c.value)' = c.domain /\ served'[c.value].reply # NoReply
                      /\ \A k \in (c.value + 1)..r : Sets(k)' => DomainOf(k)' # c.domain
    BY <1>2, <1>11 DEF JarFits
  <2>3. /\ c.value \in 1..r /\ DomainOf(c.value) = c.domain /\ served[c.value].reply # NoReply
        /\ \A k \in (c.value + 1)..r : Sets(k) => DomainOf(k) # c.domain
    BY <1>3 DEF Asks, JarFits
  <2>4. c.value # r
    BY <1>4, <2>3
  <2>5. c.value \in 1..(r - 1) /\ \A k \in (c.value + 1)..r : k = r \/ k \in 1..(r - 1)
    BY <1>5, <2>3, <2>4
  <2> QED BY <2>1, <2>2, <2>3, <2>5
<1>13. LocationFits'
  <2>1. \A k \in 1..r : k = r \/ (served'[k] = served[k] /\ (Tells(k)' <=> Tells(k)))
    BY <1>5, <1>11 DEF Tells
  <2>2. (Len(served) + 1) - 1 = r /\ (Len(served') + 1) - 1 = r
    BY <1>3, <1>5, <1>11
  <2>3. ASSUME http.location.kind = "none", \A k \in 1..r : served[k].seen # "no" => ~Tells(k)
        PROVE  LocationFits'
    <3>1. ASSUME NEW k \in 1..r, served'[k].seen # "no" PROVE ~Tells(k)'
      BY <1>10, <2>1, <2>3, <3>1
    <3> QED BY <1>1, <1>11, <2>3, <3>1 DEF LocationFits
  <2>4. ASSUME NEW j \in Latest(Len(served) + 1), http.location = served[j].reply.location
        PROVE  LocationFits'
    <3>1. j \in 1..r /\ Tells(j) /\ \A k \in (j + 1)..r : served[k].seen # "no" => ~Tells(k)
      BY <2>2, <2>4 DEF Latest
    <3>2. j # r
      BY <1>4, <3>1 DEF Tells
    <3>3. ASSUME NEW k \in (j + 1)..r, served'[k].seen # "no" PROVE ~Tells(k)'
      BY <1>5, <1>10, <2>1, <3>1, <3>3
    <3>4. j \in Latest(Len(served) + 1)'
      BY <2>1, <2>2, <3>1, <3>2, <3>3 DEF Latest
    <3>5. http'.location = served'[j].reply.location
      BY <1>1, <2>1, <2>4, <3>1, <3>2
    <3> QED BY <3>4, <3>5 DEF LocationFits
  <2> QED BY <1>3, <2>3, <2>4 DEF Asks, LocationFits
<1>14. ServedFit'
  <2>1. ASSUME NEW i \in 1..r
        PROVE  /\ DOMAIN served'[i] = ServedFields /\ served'[i].wanted \in Place
               /\ served'[i].reply \in Planned \cup {NoReply}
               /\ served'[i].reply = NoReply => served'[i].seen = "no"
    <3>1. CASE i = r
      BY <1>1, <1>3, <1>10, <1>11, <3>1 DEF Asks, ServedFit
    <3>2. CASE i # r
      BY <1>3, <1>5, <1>11, <3>2 DEF Asks, ServedFit
    <3> QED BY <3>1, <3>2
  <2> QED BY <1>1, <1>11, <2>1 DEF ServedFit
<1>15. \A i \in 1..Len(served') : RequestFits(i)'
  BY <1>5, <1>8, AllFitStay DEF Asks
<1>16. HeadersFit(http.headers, http.begun, used.calls)'
  BY <1>1 DEF Asks, HeadersFit
<1>17. Stands
  BY <1>1, CutStands DEF Apart
<1>18. LinkFitsHost'
  BY <1>1, <1>5, <1>8, <1>17, LinkHolds DEF Asks
<1>19. CallFits'
  <2>1. served' # <<>>
    BY <1>4, <1>5, <1>8, LastIs
  <2>2. ~(call.pc = "request" /\ call.redirects > 0)
    <3> SUFFICES ASSUME call.pc = "request", call.redirects > 0 PROVE FALSE
      OBVIOUS
    <3>1. PICK l : Moving(l)
      BY DEF Asks, CallFits
    <3> QED BY <1>3, <1>4, <3>1, NoReplyIs DEF Moving
  <2>3. call.pc \notin {"answered", "block", "chunk", "trailer"}
    BY <1>3, <1>6, <1>9 DEF Asks, CallFits
  <2>4. ASSUME call.pc \in {"stream", "sent", "head"} PROVE HeadFits'
    <3>1. HeadFits
      BY <2>4 DEF Asks, CallFits
    <3>2. Fixed(served'[r], served[r])
      BY <1>3, <1>5, <1>8 DEF Rereads
    <3> QED BY <1>1, <1>3, <1>11, <3>1, <3>2 DEF HeadFits, Fixed
  <2>5. ASSUME call.pc = "request", call.redirects = 0 PROVE Asking'
    <3>1. Asking
      BY <2>5 DEF Asks, CallFits
    <3> QED BY <1>1, <3>1 DEF Asking
  <2> QED BY <1>1, <2>1, <2>2, <2>3, <2>4, <2>5 DEF Asks, CallFits
<1> QED BY <1>12, <1>13, <1>14, <1>15, <1>16, <1>18, <1>19 DEF Asks

(* What a request takes along that follows b by l, if by a redirect *)
Due(b, l) ==
  /\ http.at \in Place /\ used.calls \in 1..Len(plan.calls) /\ call.payload \in Nat /\ call.redirects \in Nat
  /\ ~(call.redirects > 0) => Asking /\ l = [kind |-> "none"]
  /\ call.redirects > 0 => served # <<>> /\ b = served[Len(served)] /\ Moving(l)

(* Something is due whenever a request is about to be sent. *)
LEMMA DueIs ==
  ASSUME Shape, Asks, call.pc = "request", NEW b, served # <<>> => b = served[Len(served)]
  PROVE  \E l \in IF call.redirects > 0 THEN {served[j].reply.location : j \in Latest(Len(served) + 1)}
                  ELSE {[kind |-> "none"]} : Due(b, l)
<1>1. /\ used.calls \in 1..Len(plan.calls) /\ call.payload \in Nat /\ call.redirects \in Nat
      /\ call.redirects = 0 => Asking
      /\ call.redirects > 0 => served # <<>> /\ \E j \in Latest(Len(served) + 1) : Moving(served[j].reply.location)
  BY DEF Asks, CallFits
<1>2. CASE call.redirects > 0
  <2>1. PICK j \in Latest(Len(served) + 1) : Moving(served[j].reply.location) /\ served # <<>>
    BY <1>1, <1>2
  <2>2. Len(served) \in 1..Len(served) /\ b.wanted \in Place
    BY <2>1, LastIs DEF Shape, Asks, ServedFit
  <2>3. j \in 1..Len(served) /\ Tells(j)
    BY <2>2 DEF Latest
  <2>4. served[j].reply \in Planned /\ served[j].reply.location.kind # "none"
    BY <2>3 DEF Asks, ServedFit, Tells
  <2>5. PICK l : l = served[j].reply.location
    OBVIOUS
  <2>6. l \in Location /\ l.kind # "none"
    BY <2>4, <2>5 DEF Planned
  <2>7. l.at \in Place
    BY <2>6 DEF Location
  <2>8. http.at \in Place
    BY <2>1, <2>2, <2>5, <2>7 DEF Moving
  <2> QED BY <1>1, <1>2, <2>1, <2>5, <2>8 DEF Due
<1>3. CASE ~(call.redirects > 0)
  <2>1. call.redirects = 0 /\ Asking
    BY <1>1, <1>3
  <2>2. plan.calls[used.calls] \in Asked
    BY <1>1, PlanIs
  <2>3. http.at \in Place
    BY <2>1, <2>2 DEF Asking, Asked
  <2> QED BY <1>1, <1>3, <2>1, <2>3 DEF Due
<1> QED BY <1>2, <1>3

(* The headers before the client adds its own *)
LEMMA DueHeaders ==
  ASSUME NEW b, NEW l, Due(b, l), NEW s, s.redirect = (call.redirects > 0), s.begun = http.begun,
         s.call = used.calls
  PROVE  /\ s.redirect /\ ~Carried(s, l) => \A o : Named(http.headers, o) = {}
         /\ Carried(s, l) => http.headers = b.headers
         /\ ~s.redirect /\ ~Left(s) =>
              \A o : Named(http.headers, o) =
                IF o = "x-cookie" /\ plan.calls[s.call].header # "none" THEN {s.call} ELSE {}
         /\ ~s.redirect /\ plan.calls[s.call].header # "none" => s.call \in Named(http.headers, "x-cookie")
<1>1. ASSUME s.redirect, ~Carried(s, l) PROVE \A o : Named(http.headers, o) = {}
  <2>1. http.headers = <<>>
    BY <1>1 DEF Due, Moving, Carried
  <2> QED BY <2>1, NoHeaders
<1>2. ASSUME Carried(s, l) PROVE http.headers = b.headers
  BY <1>2 DEF Due, Moving, Carried
<1>3. ASSUME ~s.redirect PROVE Asking
  BY <1>3 DEF Due
<1> QED BY <1>1, <1>2, <1>3 DEF Asking, Left

(* The request as it is sent, and why it fits what is due *)
SentAs(h, at) ==
  /\ DOMAIN http = HttpFields /\ h = Headed(http) /\ at = IF Connected THEN link.at ELSE http.at

LEMMA SentFits ==
  ASSUME Shape, Asks, NEW h, NEW at, SentAs(h, at), NEW b, NEW l, Due(b, l), NEW s, s = Sent(h, at),
         NEW i, i = Len(served) + 1, served # <<>> => b = served[Len(served)]
  PROVE  /\ Addressed(i, s, b) /\ (~s.redirect => AskedFor(s, plan.calls[s.call]))
         /\ s.redirect => i > 1 /\ Redirected(s, b, l)
         /\ LengthFits(s, b, l) /\ MarkFits(s, b, l) /\ CookieFits(i, s, b, l)
<1>1. PICK hs, cookies : hs = http.headers /\ cookies = CookiesFor(http)
  OBVIOUS
<1>2. /\ cookies \in SUBSET (1..Len(served)) /\ cookies \in SUBSET Nat
      /\ \A v \in cookies : \E c \in jar : c.domain \in Parts[http.at.host] /\ c.value = v
  BY <1>1, CookieIs DEF Asks
<1>4. HeadersFit(hs, http.begun, used.calls) /\ call.payload \in Nat
  BY <1>1 DEF Asks, Due
<1>5. /\ h.at = http.at /\ h.begun = http.begun
      /\ HeadersFit(h.headers, h.begun, used.calls)
      /\ Named(h.headers, "x-cookie") = Named(hs, "x-cookie")
      /\ Named(h.headers, "length") = IF call.payload > 0 THEN {call.payload} ELSE Named(hs, "length")
      /\ IF cookies = {} THEN Named(h.headers, "cookie") = Named(hs, "cookie")
         ELSE LastOf(h.headers, "cookie", cookies)
  BY <1>1, <1>2, <1>4, HeadedIs DEF SentAs
<1>6. /\ s.at = at /\ s.wanted = http.at /\ s.begun = http.begun /\ s.type = call.type /\ s.payload = call.payload
      /\ s.headers = h.headers /\ s.redirect = (call.redirects > 0) /\ s.call = used.calls
  BY <1>5 DEF Sent
<1>7. /\ s.redirect /\ ~Carried(s, l) => \A o : Named(hs, o) = {}
      /\ Carried(s, l) => hs = b.headers
      /\ ~s.redirect /\ ~Left(s) =>
           \A o : Named(hs, o) = IF o = "x-cookie" /\ plan.calls[s.call].header # "none" THEN {s.call} ELSE {}
      /\ ~s.redirect /\ plan.calls[s.call].header # "none" => s.call \in Named(hs, "x-cookie")
  BY <1>1, <1>6, DueHeaders
<1>8. Addressed(i, s, b)
  <2>1. CASE ~Connected
    BY <1>6, <2>1 DEF Addressed, SentAs
  <2>2. CASE Connected
    <3>1. /\ served # <<>> /\ link.at = b.at
          /\ \/ link.at.host = http.at.host \/ b.at.host # b.wanted.host
             \/ http.begun = "host" /\ call.redirects = 0
      BY <2>2 DEF Asks, LinkFitsHost, Misled
    <3>2. i > 1
      BY <3>1, LastIs DEF Shape
    <3>3. s.at = link.at
      BY <1>6, <2>2 DEF SentAs
    <3>4. call.redirects = 0 => ~s.redirect
      <4> SUFFICES ASSUME call.redirects = 0 PROVE ~s.redirect
        OBVIOUS
      <4>1. ~(call.redirects > 0) /\ s.redirect = (call.redirects > 0)
        BY <1>6
      <4>2. (call.redirects > 0) = FALSE
        BY <4>1
      <4>3. s.redirect = FALSE
        BY <4>1, <4>2, Zenon
      <4> QED BY <4>3, Zenon
    <3>5. s.begun = http.begun /\ s.wanted = http.at
      BY <1>6
    <3>6. \/ s.at.host = s.wanted.host \/ (s.at = b.at /\ b.at.host # b.wanted.host)
          \/ s.begun = "host" /\ ~s.redirect
      BY <3>1, <3>3, <3>4, <3>5
    <3> QED BY <3>2, <3>6 DEF Addressed
  <2> QED BY <2>1, <2>2
<1>9. ~s.redirect => AskedFor(s, plan.calls[s.call])
  BY <1>6 DEF Due, Asking, AskedFor
<1>10. s.redirect => i > 1 /\ Redirected(s, b, l)
  <2> SUFFICES ASSUME s.redirect PROVE i > 1 /\ Redirected(s, b, l)
    OBVIOUS
  <2>1. served # <<>> /\ Moving(l)
    BY <1>6 DEF Due
  <2>2. i > 1
    BY <2>1, LastIs DEF Shape
  <2> QED BY <1>6, <2>1, <2>2 DEF Moving, Redirected
<1>11. LengthFits(s, b, l)
  <2>1. OnlyOne(s.headers, "length")
    BY <1>5, <1>6 DEF HeadersFit
  <2>2. CASE s.payload > 0
    BY <1>5, <1>6, <2>1, <2>2 DEF LengthFits
  <2>3. CASE ~(s.payload > 0)
    <3>1. Named(s.headers, "length") = Named(hs, "length")
      BY <1>5, <1>6, <2>3
    <3>2. \/ Named(hs, "length") = {} \/ Left(s)
          \/ Carried(s, l) /\ Named(hs, "length") = Named(b.headers, "length")
      BY <1>7
    <3> QED BY <2>1, <2>3, <3>1, <3>2 DEF LengthFits
  <2> QED BY <2>2, <2>3
<1>12. MarkFits(s, b, l)
  <2>1. OnlyOne(s.headers, "x-cookie") \/ (s.begun = "client" /\ \E c \in 1..s.call : plan.calls[c].header = "add")
    BY <1>5, <1>6 DEF HeadersFit
  <2>2. Named(s.headers, "x-cookie") = Named(hs, "x-cookie")
    BY <1>5, <1>6
  <2>3. Carried(s, l) => Named(hs, "x-cookie") = Named(b.headers, "x-cookie")
    BY <1>7
  <2>4. s.redirect /\ ~Carried(s, l) => Named(hs, "x-cookie") = {}
    BY <1>7
  <2>5. ~s.redirect => IF Left(s) THEN (plan.calls[s.call].header # "none" => s.call \in Named(hs, "x-cookie"))
                       ELSE Named(hs, "x-cookie") = IF plan.calls[s.call].header # "none" THEN {s.call} ELSE {}
    BY <1>7
  <2> QED BY <2>1, <2>2, <2>3, <2>4, <2>5 DEF MarkFits
<1>13. CookieFits(i, s, b, l)
  <2>1. OnlyOne(s.headers, "cookie") \/ Named(s.headers, "x-cookie") # {}
    BY <1>5, <1>6, NamedLines DEF HeadersFit
  <2>2. CASE cookies = {}
    <3>1. Named(s.headers, "cookie") = Named(hs, "cookie")
      BY <1>5, <1>6, <2>2
    <3>2. \/ Named(hs, "cookie") = {} \/ Left(s)
          \/ Carried(s, l) /\ Named(hs, "cookie") = Named(b.headers, "cookie")
      BY <1>7
    <3> QED BY <2>1, <3>1, <3>2 DEF CookieFits
  <2>3. CASE cookies # {}
    <3>1. LastOf(s.headers, "cookie", cookies)
      BY <1>5, <1>6, <2>3
    <3>2. i - 1 = Len(served)
      BY DEF Shape, IsServed
    <3>3. ASSUME NEW v \in cookies PROVE Newest(i, s, v)
      <4>1. PICK c \in jar : c.domain \in Parts[http.at.host] /\ c.value = v
        BY <1>2
      <4>2. /\ c.value \in 1..Len(served) /\ DomainOf(c.value) = c.domain
            /\ \A k \in (c.value + 1)..Len(served) : Sets(k) => DomainOf(k) # c.domain
        BY DEF Asks, JarFits
      <4>3. s.wanted = http.at
        BY <1>6
      <4> QED BY <3>2, <4>1, <4>2, <4>3 DEF Newest
    <3>4. cookies \in SUBSET (1..(i - 1))
      BY <1>2, <3>2
    <3> QED BY <2>1, <2>3, <3>1, <3>3, <3>4 DEF CookieFits
  <2> QED BY <2>2, <2>3
<1> QED BY <1>8, <1>9, <1>10, <1>11, <1>12, <1>13

(* What a request is sent with, and over which connection *)
LEMMA SendAims ==
  ASSUME Shape, Send
  PROVE  \E h, at, x, pc :
           /\ SentAs(h, at) /\ http' = h /\ x = Sent(h, at)
           /\ served' = Append(served, x) /\ pc \in {"stream", "sent"}
           /\ call.pc = "request" /\ call' = [call EXCEPT !.pc = pc, !.first = TRUE]
           /\ UNCHANGED <<jar, used>>
           /\ IF Connected THEN link' = link ELSE link'.at = http.at
<1>1. PICK h, at : /\ h = Headed(http) /\ at = (IF Connected THEN link.at ELSE http.at)
                   /\ http' = h /\ served' = Append(served, Sent(h, at))
  BY Zenon DEF Send
<1>2. /\ call.pc = "request" /\ UNCHANGED <<jar, used>>
      /\ call' = [call EXCEPT !.pc = IF call.stream THEN "stream" ELSE "sent", !.first = TRUE]
  BY Zenon DEF Send
<1>5. PICK pc : pc = (IF call.stream THEN "stream" ELSE "sent")
  OBVIOUS
<1>6. pc \in {"stream", "sent"} /\ call' = [call EXCEPT !.pc = pc, !.first = TRUE]
  BY <1>2, <1>5
<1>3. IF Connected THEN link' = link ELSE link'.at = http.at
  <2>1. CASE Connected
    BY <2>1, Zenon DEF Send
  <2>2. CASE ~Connected
    <3>1. link' = [up |-> TRUE, at |-> http.at, open |-> TRUE, mute |-> FALSE]
      BY <2>2, Zenon DEF Send
    <3> QED BY <2>2, <3>1
  <2> QED BY <2>1, <2>2
<1>4. SentAs(h, at)
  BY <1>1 DEF SentAs, Shape
<1> QED BY <1>1, <1>2, <1>3, <1>4, <1>6

LEMMA SentIs ==
  ASSUME NEW h, NEW at, NEW x, x = Sent(h, at)
  PROVE  /\ DOMAIN x = ServedFields /\ {"seen", "reply"} \subseteq DOMAIN x
         /\ x.seen = "no" /\ x.reply = NoReply /\ x.at = at /\ x.wanted = h.at /\ x.begun = h.begun
         /\ x.headers = h.headers /\ x.type = call.type /\ x.payload = call.payload /\ x.call = used.calls
BY DEF Sent, ServedFields

(* What holds of the new request does so once it is the last. *)
LEMMA NewFits ==
  ASSUME NEW i \in Nat, i >= 1, \A j \in 1..(i - 1) : served'[j] = served[j], plan' = plan,
         NEW x, x = served'[i], NEW b, b = served'[i - 1], NEW redirects, x.redirect = (redirects > 0),
         NEW l \in IF redirects > 0 THEN {served[j].reply.location : j \in Latest(i)} ELSE {[kind |-> "none"]},
         Addressed(i, x, b), ~x.redirect => AskedFor(x, plan.calls[x.call]),
         x.redirect => i > 1 /\ Redirected(x, b, l),
         LengthFits(x, b, l), MarkFits(x, b, l), CookieFits(i, x, b, l)
  PROVE  RequestFits(i)'
<1>1. l \in IF x.redirect THEN {served'[j].reply.location : j \in Latest(i)'} ELSE {[kind |-> "none"]}
  <2>1. {served'[j].reply.location : j \in Latest(i)'} = {served[j].reply.location : j \in Latest(i)}
    <3>1. Latest(i)' = Latest(i) /\ Latest(i) \subseteq 1..(i - 1)
      BY LatestSame DEF Latest
    <3> QED BY <3>1
  <2>2. x.redirect = TRUE \/ x.redirect = FALSE
    OBVIOUS
  <2>3. CASE redirects > 0
    BY <2>1, <2>3
  <2>4. CASE ~(redirects > 0)
    BY <2>1, <2>4
  <2> QED BY <2>3, <2>4
<1>2. MarkFits(x, b, l)'
  BY DEF MarkFits
<1>3. CookieFits(i, x, b, l)'
  <2>1. ASSUME NEW c, Newest(i, x, c) PROVE Newest(i, x, c)'
    BY <2>1, NewestSame
  <2> QED BY <2>1 DEF CookieFits
<1>4. (~x.redirect => AskedFor(x, plan'.calls[x.call]))
  OBVIOUS
<1> QED BY <1>1, <1>2, <1>3, <1>4, Zenon DEF RequestFits

(* The new request fits, and the others do as before. *)
LEMMA SendAsks == ASSUME Shape, Apart, Asks, Send, plan' = plan, owed' \in {"none", "more", "reply"} PROVE Asks'
<1>1. PICK h, at, x, pc :
           /\ SentAs(h, at) /\ http' = h /\ x = Sent(h, at)
           /\ served' = Append(served, x) /\ pc \in {"stream", "sent"}
           /\ call.pc = "request" /\ call' = [call EXCEPT !.pc = pc, !.first = TRUE]
           /\ UNCHANGED <<jar, used>>
           /\ IF Connected THEN link' = link ELSE link'.at = http.at
  BY SendAims
<1>2. PICK n : n = Len(served) /\ n \in Nat
  BY DEF Shape, IsServed
<1>3. /\ DOMAIN x = ServedFields /\ {"seen", "reply"} \subseteq DOMAIN x
      /\ x.seen = "no" /\ x.reply = NoReply /\ x.at = at /\ x.wanted = h.at /\ x.begun = h.begun
      /\ x.headers = h.headers /\ x.type = call.type /\ x.payload = call.payload /\ x.call = used.calls
  BY <1>1, SentIs
<1>4. /\ IsServed(served)' /\ Len(served') = n + 1
      /\ served'[n + 1] = x /\ \A i \in 1..n : served'[i] = served[i]
  BY <1>1, <1>2, <1>3, SentServed DEF Shape
<1>5. PICK b : b = served'[n]
  OBVIOUS
<1>6. served # <<>> => b = served[Len(served)]
  BY <1>2, <1>4, <1>5, LastIs DEF Shape
<1>7. PICK l \in IF call.redirects > 0 THEN {served[j].reply.location : j \in Latest(Len(served) + 1)}
                 ELSE {[kind |-> "none"]} : Due(b, l)
  BY <1>1, <1>6, DueIs
<1>8. /\ Addressed(n + 1, x, b) /\ (~x.redirect => AskedFor(x, plan.calls[x.call]))
      /\ x.redirect => n + 1 > 1 /\ Redirected(x, b, l)
      /\ LengthFits(x, b, l) /\ MarkFits(x, b, l) /\ CookieFits(n + 1, x, b, l)
  BY <1>1, <1>2, <1>6, <1>7, SentFits
<1>9. RequestFits(n + 1)'
  <2>1. x.redirect = (call.redirects > 0)
    BY <1>1 DEF Sent
  <2>2. n + 1 \in Nat /\ n + 1 >= 1 /\ (n + 1) - 1 = n
    BY <1>2
  <2>3. PICK i : i = n + 1
    OBVIOUS
  <2>4. /\ Addressed(i, x, b) /\ (~x.redirect => AskedFor(x, plan.calls[x.call]))
        /\ x.redirect => i > 1 /\ Redirected(x, b, l)
        /\ LengthFits(x, b, l) /\ MarkFits(x, b, l) /\ CookieFits(i, x, b, l)
    BY <1>8, <2>3
  <2>5. /\ i \in Nat /\ i >= 1 /\ (\A j \in 1..(i - 1) : served'[j] = served[j])
        /\ x = served'[i] /\ b = served'[i - 1]
    BY <1>4, <1>5, <2>2, <2>3
  <2>6. l \in IF call.redirects > 0 THEN {served[j].reply.location : j \in Latest(i)} ELSE {[kind |-> "none"]}
    BY <1>2, <1>7, <2>3
  <2>7. RequestFits(i)'
    BY <2>1, <2>4, <2>5, <2>6, NewFits
  <2> QED BY <2>3, <2>7
<1>10. \A i \in 1..Len(served') : RequestFits(i)'
  <2> SUFFICES ASSUME NEW i \in 1..(n + 1) PROVE RequestFits(i)'
    BY <1>4
  <2>1. CASE i = n + 1
    BY <1>9, <2>1
  <2>2. CASE i # n + 1
    <3>1. i \in 1..n /\ i \in Nat /\ i >= 1 /\ \A j \in 1..(i - 1) : j \in 1..n
      BY <1>2, <2>2
    <3>2. RequestFits(i) /\ Fixed(served'[i], served[i]) /\ \A j \in 1..(i - 1) : served'[j] = served[j]
      BY <1>2, <1>4, <3>1 DEF Asks, Fixed
    <3> QED BY <3>1, <3>2, FitsStay
  <2> QED BY <2>1, <2>2
<1>11. h.location = http.location /\ h.at = http.at /\ h.begun = http.begun
       /\ HeadersFit(h.headers, h.begun, used.calls)
  <2>1. PICK cookies, hs : cookies = CookiesFor(http) /\ hs = http.headers
    OBVIOUS
  <2>2. cookies \in SUBSET Nat
    BY <2>1, CookieIs DEF Asks
  <2>3. call.payload \in Nat /\ HeadersFit(hs, http.begun, used.calls)
    BY <1>7, <2>1 DEF Due, Asks
  <2> QED BY <1>1, <2>1, <2>2, <2>3, HeadedIs DEF SentAs
<1>12. HeadersFit(http.headers, http.begun, used.calls)'
  BY <1>1, <1>11 DEF HeadersFit
<1>13. JarFits'
  <2>1. \A k \in 1..n : served'[k] = served[k] /\ DomainOf(k)' = DomainOf(k) /\ (Sets(k)' <=> Sets(k))
    BY <1>4, SetsSame
  <2>2. ~Sets(n + 1)'
    BY <1>3, <1>4 DEF Sets
  <2> SUFFICES ASSUME NEW c \in jar
               PROVE  /\ c.value \in 1..(n + 1) /\ DomainOf(c.value)' = c.domain
                      /\ served'[c.value].reply # NoReply
                      /\ \A k \in (c.value + 1)..(n + 1) : Sets(k)' => DomainOf(k)' # c.domain
    BY <1>1, <1>4 DEF JarFits
  <2>3. /\ c.value \in 1..n /\ DomainOf(c.value) = c.domain /\ served[c.value].reply # NoReply
        /\ \A k \in (c.value + 1)..n : Sets(k) => DomainOf(k) # c.domain
    BY <1>2 DEF Asks, JarFits
  <2>4. \A k \in (c.value + 1)..(n + 1) : k = n + 1 \/ (k \in 1..n /\ k \in (c.value + 1)..n)
    BY <1>2, <2>3
  <2>5. c.value \in 1..(n + 1)
    BY <1>2, <2>3
  <2> QED BY <2>1, <2>2, <2>3, <2>4, <2>5
<1>14. LocationFits'
  <2>1. \A k \in 1..(n + 1) : k = n + 1 \/ (k \in 1..n /\ served'[k] = served[k] /\ (Tells(k)' <=> Tells(k)))
    BY <1>2, <1>4 DEF Tells
  <2>2. (Len(served) + 1) - 1 = n /\ (Len(served') + 1) - 1 = n + 1
    BY <1>2, <1>4
  <2>3. ASSUME http.location.kind = "none", \A k \in 1..n : served[k].seen # "no" => ~Tells(k)
        PROVE  LocationFits'
    <3>1. ASSUME NEW k \in 1..(n + 1), served'[k].seen # "no" PROVE ~Tells(k)'
      BY <1>3, <1>4, <2>1, <2>3, <3>1
    <3> QED BY <1>1, <1>4, <1>11, <2>3, <3>1 DEF LocationFits
  <2>4. ASSUME NEW j \in Latest(Len(served) + 1), http.location = served[j].reply.location
        PROVE  LocationFits'
    <3>1. j \in 1..n /\ Tells(j) /\ \A k \in (j + 1)..n : served[k].seen # "no" => ~Tells(k)
      BY <2>2, <2>4 DEF Latest
    <3>2. j \in 1..(n + 1) /\ j # n + 1
      BY <1>2, <3>1
    <3>3. ASSUME NEW k \in (j + 1)..(n + 1), served'[k].seen # "no" PROVE ~Tells(k)'
      <4>1. k \in 1..(n + 1) /\ k # n + 1
        BY <1>2, <1>3, <1>4, <3>1, <3>3
      <4>2. k \in (j + 1)..n
        BY <1>2, <3>1, <4>1
      <4> QED BY <2>1, <3>1, <3>3, <4>1, <4>2
    <3>4. j \in Latest(Len(served) + 1)'
      BY <2>1, <2>2, <3>1, <3>2, <3>3 DEF Latest
    <3>5. http'.location = served'[j].reply.location
      BY <1>1, <1>11, <2>1, <2>4, <3>2
    <3> QED BY <3>4, <3>5 DEF LocationFits
  <2> QED BY <1>2, <2>3, <2>4 DEF Asks, LocationFits
<1>15. served' # <<>> /\ n + 1 \in 1..(n + 1) /\ http.at \in Place
  <2>1. Len(<<>>) = 0
    OBVIOUS
  <2> QED BY <1>2, <1>4, <1>7, <2>1 DEF Due
<1>16. LinkFitsHost'
  <2>1. link'.at = at
    BY <1>1 DEF SentAs
  <2>2. link'.at.host = http'.at.host \/ Misled'
    BY <1>1, <1>3, <1>4, <2>1 DEF Misled
  <2> QED BY <1>1, <1>3, <1>4, <1>11, <1>15, <2>1, <2>2 DEF LinkFitsHost
<1>17. ServedFit'
  <2>1. ASSUME NEW i \in 1..(n + 1)
        PROVE  /\ DOMAIN served'[i] = ServedFields /\ served'[i].wanted \in Place
               /\ served'[i].reply \in Planned \cup {NoReply}
               /\ served'[i].reply = NoReply => served'[i].seen = "no"
    <3>1. CASE i = n + 1
      BY <1>3, <1>4, <1>11, <1>15, <3>1
    <3>2. CASE i # n + 1
      <4>1. i \in 1..n /\ served'[i] = served[i]
        BY <1>2, <1>4, <3>2
      <4> QED BY <1>2, <4>1 DEF Asks, ServedFit
    <3> QED BY <3>1, <3>2
  <2> QED BY <1>3, <1>4, <1>15, <2>1 DEF ServedFit
<1>18. CallFits'
  <2>1. /\ call'.pc \in {"stream", "sent"} /\ call'.redirects = call.redirects
        /\ call'.type = call.type /\ call'.payload = call.payload
    BY <1>1 DEF Shape, CallFields
  <2>2. HeadFits'
    BY <1>1, <1>3, <1>4, <2>1 DEF HeadFits
  <2>3. used.calls \in 1..Len(plan.calls) /\ call.payload \in Nat /\ call.redirects \in Nat
    BY <1>7 DEF Due
  <2>4. used'.calls \in Nat
    BY <1>1, <2>3
  <2> QED BY <1>1, <1>15, <2>1, <2>2, <2>3, <2>4 DEF CallFits
<1> QED BY <1>10, <1>12, <1>13, <1>14, <1>16, <1>17, <1>18 DEF Asks

-----------------------------------------------------------------------------
(* All of it *)

(* A reply that was once passed over stays on record. *)
LEMMA StaleGrows ==
  ASSUME Shape, Next
  PROVE  stale \subseteq stale'
<1>1. plan' = plan
  BY DEF Next
<1>2. CASE Caller \/ CookieExpires \/ (Client /\ ~Send)
  <2>1. CASE StreamWrites
    BY <2>1 DEF StreamWrites
  <2>2. CASE ~StreamWrites
    BY <1>1, <1>2, <2>2, QuietSteps DEF Quiet
  <2> QED BY <2>1, <2>2
<1>3. CASE Send
  BY <1>3, SendIs
<1>4. CASE Reply
  BY <1>4 DEF Reply
<1>5. CASE ServerFails
  BY <1>5 DEF ServerFails
<1>6. CASE Arrive
  BY <1>6 DEF Arrive
<1> QED BY <1>2, <1>3, <1>4, <1>5, <1>6 DEF Next, Client

LEMMA AsksInitially == ASSUME Init PROVE Asks
<1>1. served = <<>> /\ jar = {} /\ Len(served) = 0 /\ owed = "none"
  BY DEF Init
<1>2. http.headers = <<>> /\ http.location.kind = "none"
  BY DEF Init
<1>3. HeadersFit(http.headers, http.begun, used.calls)
  BY <1>2, NoHeaders
<1>4. ~Connected
  BY DEF Init, Down, Connected
<1>5. call.pc = "idle" /\ call.redirects = 0 /\ used.calls = 0
  BY DEF Init, Idle
<1>6. JarFits /\ LocationFits
  BY <1>1, <1>2 DEF JarFits, LocationFits
<1>7. LinkFitsHost
  BY <1>4 DEF LinkFitsHost
<1>8. ServedFit /\ \A i \in 1..Len(served) : RequestFits(i)
  BY <1>1 DEF ServedFit
<1>9. CallFits
  BY <1>5 DEF CallFits
<1> QED BY <1>3, <1>6, <1>7, <1>8, <1>9 DEF Asks

LEMMA AskedSteps ==
  ASSUME HttpInv, AskedInv, [Next]_vars
  PROVE  AskedInv'
<1> SUFFICES ASSUME stale' = {} PROVE Asks'
  BY DEF AskedInv
<1>1. Shape
  BY DEF HttpInv
<1>2. CASE UNCHANGED vars
  <2>1. Asks
    BY <1>2 DEF vars, AskedInv
  <2>2. RereadsBody /\ used'.calls = used.calls /\ Stands /\ plan' = plan /\ owed' = owed
        /\ UNCHANGED <<http, jar, call>>
    BY <1>2, UnchangedBody DEF vars, Stands, Connected
  <2>3. ReadsOnly
    BY <2>2 DEF ReadsOnly, SameRequest
  <2> QED BY <1>1, <2>1, <2>2, <2>3, SameCallAsks
<1>3. CASE Next
  <2>1. stale = {}
    BY <1>1, <1>3, StaleGrows
  <2>2. Apart /\ Asks /\ plan' = plan
    BY <1>3, <2>1 DEF HttpInv, AskedInv, Next
  <2>3. CASE Caller
    BY <1>1, <2>2, <2>3, BeginAsks, AskAsks, GetStringAsks, ReadStreamAsks, EndAsks DEF Caller
  <2>4. CASE Client
    <3>1. CASE Send
      <4>1. owed' \in {"none", "more", "reply"}
        BY <3>1 DEF Send
      <4> QED BY <1>1, <2>2, <3>1, <4>1, SendAsks
    <3>2. CASE ~Send
      BY <1>1, <2>2, <2>4, <3>2, CannotSendAsks, BufferAsks, StreamWritesAsks, StreamFailsAsks,
         StreamEndsAsks, AwaitHeadAsks, HeadLineAsks, HeadEndsAsks, NoHeadAsks, ReadBlockAsks,
         BlockFailsAsks, BlockEndsAsks, ReadChunkSizeAsks, ReadTrailerAsks, NoChunkAsks DEF Client
    <3> QED BY <3>1, <3>2
  <2>5. CASE CookieExpires \/ Reply \/ ServerFails \/ Arrive
    BY <1>1, <2>2, <2>5, CookieExpiresAsks, ReplyAsks, ServerFailsAsks, ArriveAsks
  <2> QED BY <1>3, <2>3, <2>4, <2>5 DEF Next
<1> QED BY <1>2, <1>3

LEMMA AskedInvAsks == ASSUME HttpInv, AskedInv PROVE RequestsAsAsked
<1> SUFFICES ASSUME stale = {}, NEW i \in DOMAIN served PROVE RequestFits(i)
  BY DEF RequestsAsAsked
<1>1. DOMAIN served = 1..Len(served)
  BY DEF HttpInv, Shape, IsServed, IsArray
<1> QED BY <1>1 DEF AskedInv, Asks

(* As long as no reply is passed over: the headers, the cookies, the place  *)
(* told last and the connection are what the next request needs them to be. *)
THEOREM AskedInvariant == Spec => []AskedInv
<1>1. Init => AskedInv
  BY AsksInitially DEF AskedInv
<1>2. HttpInv /\ AskedInv /\ [Next]_vars => AskedInv'
  BY AskedSteps
<1> QED BY <1>1, <1>2, HttpInvariant, PTL DEF Spec

(* Every request of HTTPClient goes to the server, with the method, the     *)
(* payload and the headers that were asked for or that a redirect calls for, *)
(* but for what the code gets wrong, which the property names.              *)
THEOREM RequestsAreAsAsked == Spec => []RequestsAsAsked
BY AskedInvariant, HttpInvariant, AskedInvAsks, PTL

(* So it does beside WiFiManager, with which it takes turns.                *)
THEOREM LoopAsksAsAsked == LoopSpec => []RequestsAsAsked
<1>1. LoopInit => Init
  BY DEF LoopInit
<1>2. [LoopNext]_loopVars => [Next]_vars
  BY DEF LoopNext, loopVars
<1>3. Init => AskedInv
  BY AsksInitially DEF AskedInv
<1> QED BY <1>1, <1>2, <1>3, HttpInitially, HttpSteps, AskedSteps, AskedInvAsks, PTL DEF LoopSpec

-----------------------------------------------------------------------------
(* WiFiManager *)

(* No line read so far was empty, and on the last one there is something   *)
(* when line says so: with it the header is searched for commands just when *)
(* it is the head of the client's request.                                 *)
NoEmptyLine(s) == \A i \in DOMAIN s : ~EmptyLine(s, i)
OnlyReturns(s) ==
  \E j \in 0..Len(s) : (j = 0 \/ s[j] = "lf") /\ \A k \in (j + 1)..Len(s) : s[k] = "cr"
Something(s) ==
  \E k \in DOMAIN s : s[k] \notin {"cr", "lf"} /\ \A m \in (k + 1)..Len(s) : s[m] # "lf"

WifiTypes ==
  /\ coming \in Seq(Requests)
  /\ client \in [here : BOOLEAN, open : BOOLEAN, asks : Requests, left : Seq(Piece), rx : Seq(Piece)]
  /\ header \in Seq(Piece)
  /\ line \in BOOLEAN
  /\ answered \in Seq(Requests)

WifiInv ==
  /\ WifiTypes
  /\ ~client.here => header = <<>> /\ ~line /\ ~client.open
  /\ client.here => header \o (client.rx \o client.left) = client.asks.head \o client.asks.body
  /\ NoEmptyLine(header)
  /\ IF line THEN Something(header) ELSE OnlyReturns(header)

(* The next piece moves over from what is left to what has come. *)
LEMMA OneMovesOver ==
  ASSUME NEW s \in Seq(Piece), NEW t \in Seq(Piece), t # <<>>
  PROVE  Append(s, Head(t)) \o Tail(t) = s \o t
<1>1. Head(t) \in Piece /\ Tail(t) \in Seq(Piece) /\ Len(Tail(t)) = Len(t) - 1 /\ Len(t) >= 1
  BY FirstAndRest
<1>2. Len(Append(s, Head(t)) \o Tail(t)) = Len(s \o t)
  BY <1>1
<1>3. ASSUME NEW i \in 1..Len(s \o t) PROVE (Append(s, Head(t)) \o Tail(t))[i] = (s \o t)[i]
  BY <1>1
<1>4. (Append(s, Head(t)) \o Tail(t)) \in Seq(Piece) /\ (s \o t) \in Seq(Piece)
  BY <1>1
<1> QED BY <1>2, <1>3, <1>4, SeqEqual

LEMMA OneIsRead ==
  ASSUME NEW s \in Seq(Piece), NEW t \in Seq(Piece), NEW u \in Seq(Piece), t # <<>>
  PROVE  Append(s, Head(t)) \o (Tail(t) \o u) = s \o (t \o u)
<1>1. Tail(t) \in Seq(Piece) /\ Append(s, Head(t)) \in Seq(Piece)
  BY FirstAndRest, AppendIs
<1>2. Append(s, Head(t)) \o (Tail(t) \o u) = (Append(s, Head(t)) \o Tail(t)) \o u
  BY <1>1, ConcatAssociative
<1>3. s \o (t \o u) = (s \o t) \o u
  BY ConcatAssociative
<1> QED BY <1>2, <1>3, OneMovesOver

LEMMA RequestIs ==
  ASSUME NEW q \in Requests
  PROVE  /\ q.head \in Seq(Piece) /\ q.body \in Seq(Piece)
         /\ \A i \in DOMAIN q.head : EmptyLine(q.head, i) => i = Len(q.head)
         /\ q.body # <<>> => q.head # <<>> /\ EmptyLine(q.head, Len(q.head))
BY DEF Requests

LEMMA NothingAsked == Gone.asks \in Requests /\ NoEmptyLine(<<>>) /\ OnlyReturns(<<>>)
<1>1. <<>> \in Seq(Piece)
  OBVIOUS
<1>2. Gone.asks \in Requests
  BY <1>1 DEF Gone, Requests
<1>3. DOMAIN <<>> = {} /\ Len(<<>>) = 0
  OBVIOUS
<1>4. NoEmptyLine(<<>>)
  BY <1>3 DEF NoEmptyLine
<1>5. OnlyReturns(<<>>)
  BY <1>3 DEF OnlyReturns
<1> QED BY <1>2, <1>4, <1>5

(* Where two sequences agree, so do their empty lines. *)
LEMMA SameEmptyLine ==
  ASSUME NEW s \in Seq(Piece), NEW t \in Seq(Piece), NEW n \in Nat, n <= Len(s), n <= Len(t),
         \A k \in 1..n : s[k] = t[k],
         NEW i \in 1..n, EmptyLine(s, i)
  PROVE  EmptyLine(t, i)
<1>1. s[i] = "lf" /\ t[i] = "lf"
  BY DEF EmptyLine
<1>2. PICK j \in 0..(i - 1) : (j = 0 \/ s[j] = "lf") /\ \A k \in (j + 1)..(i - 1) : s[k] = "cr"
  BY DEF EmptyLine
<1>3. j = 0 \/ t[j] = "lf"
  BY <1>2
<1>4. \A k \in (j + 1)..(i - 1) : t[k] = "cr"
  <2> SUFFICES ASSUME NEW k \in (j + 1)..(i - 1) PROVE t[k] = "cr"
    OBVIOUS
  <2>1. k \in 1..n /\ s[k] = "cr"
    BY <1>2
  <2> QED BY <2>1
<1> QED BY <1>1, <1>3, <1>4 DEF EmptyLine

(* One more byte, after which the last line is empty or it is not. *)
LEMMA OneByteMore ==
  ASSUME NEW s \in Seq(Piece), NEW c \in Piece, NEW t, t = Append(s, c)
  PROVE  /\ t \in Seq(Piece) /\ Len(t) = Len(s) + 1 /\ t[Len(s) + 1] = c
         /\ Len(s) \in Nat /\ DOMAIN s = 1..Len(s) /\ DOMAIN t = 1..Len(t)
         /\ \A k \in 1..Len(s) : t[k] = s[k]
<1>1. DOMAIN s = 1..Len(s) /\ Len(s) \in Nat
  OBVIOUS
<1>2. /\ t \in Seq(Piece) /\ Len(t) = Len(s) + 1 /\ t[Len(s) + 1] = c
      /\ \A k \in 1..Len(s) : t[k] = s[k]
  <2>1. /\ Append(s, c) \in Seq(Piece) /\ Len(Append(s, c)) = Len(s) + 1 /\ Append(s, c)[Len(s) + 1] = c
        /\ \A k \in 1..Len(s) : Append(s, c)[k] = s[k]
    BY AppendIs
  <2> QED BY <2>1
<1>3. DOMAIN t = 1..Len(t)
  BY <1>2
<1> QED BY <1>1, <1>2, <1>3

LEMMA NoneYet ==
  ASSUME NEW s \in Seq(Piece), NEW c \in Piece, NEW t, t = Append(s, c), NoEmptyLine(s),
         ~EmptyLine(t, Len(t))
  PROVE  NoEmptyLine(t)
<1>1. /\ t \in Seq(Piece) /\ Len(t) = Len(s) + 1 /\ Len(s) \in Nat
      /\ DOMAIN s = 1..Len(s) /\ DOMAIN t = 1..Len(t)
      /\ \A k \in 1..Len(s) : t[k] = s[k]
  BY OneByteMore
<1>2. ASSUME NEW i \in DOMAIN t, EmptyLine(t, i) PROVE FALSE
  <2>1. i \in 1..Len(s)
    BY <1>1, <1>2
  <2>2. EmptyLine(s, i)
    <3>1. Len(s) <= Len(t) /\ Len(s) <= Len(s)
      BY <1>1
    <3> QED BY <1>1, <1>2, <2>1, <3>1, SameEmptyLine
  <2>3. i \in DOMAIN s
    BY <1>1, <2>1
  <2> QED BY <2>2, <2>3 DEF NoEmptyLine
<1> QED BY <1>2 DEF NoEmptyLine

LEMMA EmptyLineEnds ==
  ASSUME NEW s \in Seq(Piece), NEW c \in Piece, c = "lf", NEW t, t = Append(s, c), OnlyReturns(s)
  PROVE  EmptyLine(t, Len(t))
<1>1. PICK j \in 0..Len(s) : (j = 0 \/ s[j] = "lf") /\ \A k \in (j + 1)..Len(s) : s[k] = "cr"
  BY DEF OnlyReturns
<1>2. /\ Len(t) = Len(s) + 1 /\ t[Len(s) + 1] = "lf" /\ Len(s) \in Nat
      /\ \A k \in 1..Len(s) : t[k] = s[k]
  BY OneByteMore
<1>3. j \in 0..(Len(t) - 1)
  BY <1>2
<1>4. j = 0 \/ t[j] = "lf"
  BY <1>1, <1>2
<1>5. \A k \in (j + 1)..(Len(t) - 1) : t[k] = "cr"
  BY <1>1, <1>2
<1> QED BY <1>2, <1>3, <1>4, <1>5 DEF EmptyLine

LEMMA LineIsOver ==
  ASSUME NEW s \in Seq(Piece), NEW c \in Piece, c = "lf", NEW t, t = Append(s, c), Something(s)
  PROVE  ~EmptyLine(t, Len(t)) /\ OnlyReturns(t)
<1>1. PICK k \in DOMAIN s : s[k] \notin {"cr", "lf"} /\ \A m \in (k + 1)..Len(s) : s[m] # "lf"
  BY DEF Something
<1>2. /\ t \in Seq(Piece) /\ Len(t) = Len(s) + 1 /\ t[Len(s) + 1] = "lf" /\ Len(s) \in Nat
      /\ \A i \in 1..Len(s) : t[i] = s[i]
  BY OneByteMore
<1>3. k \in 1..Len(s)
  OBVIOUS
<1>4. ASSUME NEW j \in 0..(Len(t) - 1), j = 0 \/ t[j] = "lf",
             \A i \in (j + 1)..(Len(t) - 1) : t[i] = "cr"
      PROVE  FALSE
  <2>1. CASE j < k
    <3>1. k \in (j + 1)..(Len(t) - 1)
      BY <1>2, <1>3, <2>1
    <3> QED BY <1>1, <1>2, <1>3, <1>4, <3>1
  <2>2. CASE j = k
    BY <1>1, <1>2, <1>3, <1>4, <2>2
  <2>3. CASE j > k
    <3>1. j \in (k + 1)..Len(s) /\ j \in 1..Len(s) /\ j # 0
      BY <1>2, <1>3, <2>3
    <3> QED BY <1>1, <1>2, <1>4, <3>1
  <2> QED BY <1>3, <2>1, <2>2, <2>3
<1>5. ~EmptyLine(t, Len(t))
  BY <1>4 DEF EmptyLine
<1>6. OnlyReturns(t)
  <2>1. Len(t) \in 0..Len(t) /\ t[Len(t)] = "lf" /\ \A i \in (Len(t) + 1)..Len(t) : t[i] = "cr"
    BY <1>2
  <2> QED BY <2>1 DEF OnlyReturns
<1> QED BY <1>5, <1>6

LEMMA LineGrows ==
  ASSUME NEW s \in Seq(Piece), NEW c \in Piece, c # "lf", NEW t, t = Append(s, c)
  PROVE  /\ ~EmptyLine(t, Len(t))
         /\ c # "cr" => Something(t)
         /\ Something(s) => Something(t)
         /\ OnlyReturns(s) /\ c = "cr" => OnlyReturns(t)
<1>1. /\ t \in Seq(Piece) /\ Len(t) = Len(s) + 1 /\ t[Len(s) + 1] = c /\ Len(s) \in Nat
      /\ \A i \in 1..Len(s) : t[i] = s[i]
  BY OneByteMore
<1>2. ~EmptyLine(t, Len(t))
  BY <1>1 DEF EmptyLine
<1>3. ASSUME c # "cr" PROVE Something(t)
  <2>1. Len(t) \in DOMAIN t /\ t[Len(t)] \notin {"cr", "lf"} /\ \A m \in (Len(t) + 1)..Len(t) : t[m] # "lf"
    BY <1>1, <1>3
  <2> QED BY <2>1 DEF Something
<1>4. ASSUME Something(s) PROVE Something(t)
  <2>1. PICK k \in DOMAIN s : s[k] \notin {"cr", "lf"} /\ \A m \in (k + 1)..Len(s) : s[m] # "lf"
    BY <1>4 DEF Something
  <2>2. k \in 1..Len(s) /\ k \in DOMAIN t
    BY <1>1
  <2>3. \A m \in (k + 1)..Len(t) : t[m] # "lf"
    BY <1>1, <2>1, <2>2
  <2> QED BY <1>1, <2>1, <2>2, <2>3 DEF Something
<1>5. ASSUME OnlyReturns(s), c = "cr" PROVE OnlyReturns(t)
  <2>1. PICK j \in 0..Len(s) : (j = 0 \/ s[j] = "lf") /\ \A k \in (j + 1)..Len(s) : s[k] = "cr"
    BY <1>5 DEF OnlyReturns
  <2>2. j \in 0..Len(t) /\ (j = 0 \/ t[j] = "lf") /\ \A k \in (j + 1)..Len(t) : t[k] = "cr"
    BY <1>1, <1>5, <2>1
  <2> QED BY <2>2 DEF OnlyReturns
<1> QED BY <1>2, <1>3, <1>4, <1>5

LEMMA MoreOnOneSide ==
  ASSUME NEW a \in Nat, NEW b \in Nat, NEW c \in Nat, NEW d \in Nat, a + b = c + d, a > c
  PROVE  d # 0
OBVIOUS

(* A head is read to its end: what was read is a beginning of the request, *)
(* and the first empty line of both is where it ends.                      *)
LEMMA HeadIsRead ==
  ASSUME NEW q \in Requests, NEW s \in Seq(Piece), NEW u \in Seq(Piece), NEW c \in Piece,
         NEW t, t = Append(s, c), NoEmptyLine(s), EmptyLine(t, Len(t)), t \o u = q.head \o q.body
  PROVE  t = q.head
<1>1. q.head \in Seq(Piece) /\ q.body \in Seq(Piece)
  BY RequestIs
<1>2. /\ t \in Seq(Piece) /\ Len(t) = Len(s) + 1 /\ Len(s) \in Nat
      /\ DOMAIN s = 1..Len(s) /\ DOMAIN q.head = 1..Len(q.head) /\ Len(q.head) \in Nat
      /\ \A i \in 1..Len(s) : t[i] = s[i]
  BY <1>1, OneByteMore
<1>3. /\ Len(t) + Len(u) = Len(q.head) + Len(q.body)
      /\ \A i \in 1..Len(t) : (t \o u)[i] = t[i]
      /\ \A i \in 1..Len(q.head) : (q.head \o q.body)[i] = q.head[i]
  <2>1. Len(t \o u) = Len(t) + Len(u) /\ Len(q.head \o q.body) = Len(q.head) + Len(q.body)
    BY <1>1, <1>2, JoinIs
  <2>2. \A i \in 1..Len(t) : (t \o u)[i] = t[i]
    BY <1>2, JoinIs
  <2>3. \A i \in 1..Len(q.head) : (q.head \o q.body)[i] = q.head[i]
    BY <1>1, JoinIs
  <2> QED BY <2>1, <2>2, <2>3
<1>4. \A i \in 1..Len(t) : i \in 1..Len(q.head) => t[i] = q.head[i]
  BY <1>3
<1>5. ASSUME Len(t) > Len(q.head) PROVE FALSE
  <2>1. Len(u) \in Nat
    OBVIOUS
  <2>2. q.body # <<>>
    <3>1. Len(q.body) \in Nat /\ Len(t) \in Nat
      BY <1>1, <1>2
    <3>2. Len(q.body) # 0
      BY <1>2, <1>3, <1>5, <2>1, <3>1, MoreOnOneSide
    <3> QED BY <3>2
  <2>3. q.head # <<>> /\ EmptyLine(q.head, Len(q.head))
    BY <2>2, RequestIs
  <2>4. Len(q.head) \in 1..Len(s) /\ Len(q.head) \in Nat /\ Len(q.head) <= Len(s)
    <3>1. Len(q.head) # 0
      BY <1>1, <2>3
    <3> QED BY <1>2, <1>5, <3>1
  <2>5. \A i \in 1..Len(q.head) : q.head[i] = s[i]
    BY <1>2, <1>4, <2>4
  <2>6. EmptyLine(s, Len(q.head))
    <3>1. Len(q.head) <= Len(q.head) /\ Len(q.head) \in 1..Len(q.head)
      BY <2>4
    <3> QED BY <1>1, <2>3, <2>4, <2>5, <3>1, SameEmptyLine
  <2> QED BY <1>2, <2>4, <2>6 DEF NoEmptyLine
<1>6. Len(t) \in 1..Len(q.head) /\ Len(q.head) \in Nat
  BY <1>2, <1>5
<1>7. \A i \in 1..Len(t) : t[i] = q.head[i]
  <2>1. \A i \in 1..Len(t) : i \in 1..Len(q.head)
    BY <1>2, <1>6
  <2> QED BY <1>4, <2>1
<1>8. EmptyLine(q.head, Len(t))
  <2>1. Len(t) \in Nat /\ Len(t) <= Len(t) /\ Len(t) <= Len(q.head) /\ Len(t) \in 1..Len(t)
    BY <1>2, <1>6
  <2> QED BY <1>1, <1>2, <1>7, <2>1, SameEmptyLine
<1>9. Len(t) = Len(q.head)
  <2>1. Len(t) \in DOMAIN q.head
    BY <1>2, <1>6
  <2> QED BY <1>8, <2>1, RequestIs
<1> QED BY <1>1, <1>2, <1>7, <1>9, SeqEqual

-----------------------------------------------------------------------------
LEMMA WifiInitially == ASSUME WifiInit PROVE WifiInv
<1>1. coming \in Seq(Requests)
  BY VisitAssumption DEF WifiInit
<1>2. client = Gone /\ header = <<>> /\ line = FALSE /\ answered = <<>>
  BY DEF WifiInit
<1>3. WifiTypes
  <2>1. <<>> \in Seq(Piece) /\ <<>> \in Seq(Requests)
    OBVIOUS
  <2>2. Gone \in [here : BOOLEAN, open : BOOLEAN, asks : Requests, left : Seq(Piece), rx : Seq(Piece)]
    BY <2>1, NothingAsked DEF Gone
  <2> QED BY <1>1, <1>2, <2>1, <2>2 DEF WifiTypes
<1> QED BY <1>2, <1>3, NothingAsked DEF WifiInv, Gone

LEMMA LeaveKeeps ==
  ASSUME WifiInv, Leave, coming' \in Seq(Requests), answered' \in Seq(Requests)
  PROVE  WifiInv'
<1>1. client' = Gone /\ header' = <<>> /\ line' = FALSE
  BY DEF Leave
<1>2. WifiTypes'
  <2>1. <<>> \in Seq(Piece)
    OBVIOUS
  <2>2. Gone \in [here : BOOLEAN, open : BOOLEAN, asks : Requests, left : Seq(Piece), rx : Seq(Piece)]
    BY <2>1, NothingAsked DEF Gone
  <2> QED BY <1>1, <2>1, <2>2 DEF WifiTypes
<1>3. NoEmptyLine(header)' /\ OnlyReturns(header)'
  BY <1>1, NothingAsked DEF NoEmptyLine, OnlyReturns
<1>4. ~client'.here /\ ~client'.open
  BY <1>1 DEF Gone
<1> QED BY <1>1, <1>2, <1>3, <1>4 DEF WifiInv

LEMMA HeaderSame ==
  ASSUME header' = header
  PROVE  /\ NoEmptyLine(header)' <=> NoEmptyLine(header)
         /\ Something(header)' <=> Something(header)
         /\ OnlyReturns(header)' <=> OnlyReturns(header)
BY DEF NoEmptyLine, Something, OnlyReturns

LEMMA AvailableKeeps == ASSUME WifiInv, Available PROVE WifiInv'
<1>1. PICK asks : /\ asks = Head(coming) /\ coming # <<>> /\ ~client.here
                  /\ coming' = Tail(coming)
                  /\ client' = [here |-> TRUE, open |-> TRUE, asks |-> asks,
                                left |-> asks.head \o asks.body, rx |-> <<>>]
                  /\ line' = FALSE /\ header' = header /\ answered' = answered
  BY DEF Available
<1>2. asks \in Requests /\ coming' \in Seq(Requests)
  BY <1>1 DEF WifiInv, WifiTypes
<1>3. asks.head \in Seq(Piece) /\ asks.body \in Seq(Piece) /\ <<>> \in Seq(Piece)
  BY <1>2, RequestIs
<1>4. asks.head \o asks.body \in Seq(Piece)
  BY <1>3
<1>5. /\ client'.here /\ client'.open /\ client'.asks = asks /\ client'.rx = <<>>
      /\ client'.left = asks.head \o asks.body
  BY <1>1
<1>6. WifiTypes'
  BY <1>1, <1>2, <1>3, <1>4 DEF WifiInv, WifiTypes
<1>7. header = <<>> /\ ~line
  BY <1>1 DEF WifiInv
<1>8. <<>> \o (<<>> \o (asks.head \o asks.body)) = asks.head \o asks.body
  BY <1>4
<1> QED BY <1>1, <1>5, <1>6, <1>7, <1>8, HeaderSame DEF WifiInv

LEMMA PieceKeeps == ASSUME WifiInv, PieceArrives PROVE WifiInv'
<1>1. /\ client.open /\ client.left # <<>>
      /\ client' = [client EXCEPT !.left = Tail(client.left), !.rx = Append(client.rx, Head(client.left))]
      /\ UNCHANGED <<coming, header, line, pins, answered>>
  BY DEF PieceArrives
<1>2. client.left \in Seq(Piece) /\ client.rx \in Seq(Piece) /\ WifiTypes
  BY DEF WifiInv, WifiTypes
<1>3. /\ Tail(client.left) \in Seq(Piece) /\ Append(client.rx, Head(client.left)) \in Seq(Piece)
      /\ Append(client.rx, Head(client.left)) \o Tail(client.left) = client.rx \o client.left
  BY <1>1, <1>2, FirstAndRest, AppendIs, OneMovesOver
<1>4. /\ client'.here = client.here /\ client'.open = client.open /\ client'.asks = client.asks
      /\ client'.left = Tail(client.left) /\ client'.rx = Append(client.rx, Head(client.left))
  BY <1>1, <1>2 DEF WifiTypes
<1>5. WifiTypes'
  BY <1>1, <1>2, <1>3 DEF WifiTypes
<1> QED BY <1>1, <1>3, <1>4, <1>5, HeaderSame DEF WifiInv

LEMMA CloseKeeps == ASSUME WifiInv, ClientCloses PROVE WifiInv'
<1>1. /\ client' = [client EXCEPT !.open = FALSE]
      /\ UNCHANGED <<coming, header, line, pins, answered>>
  BY DEF ClientCloses
<1>2. WifiTypes
  BY DEF WifiInv
<1>3. /\ client'.here = client.here /\ ~client'.open /\ client'.asks = client.asks
      /\ client'.left = client.left /\ client'.rx = client.rx
  BY <1>1, <1>2 DEF WifiTypes
<1>4. WifiTypes'
  BY <1>1, <1>2 DEF WifiTypes
<1> QED BY <1>1, <1>3, <1>4, HeaderSame DEF WifiInv

(* What has been read and what has not, one byte on *)
LEMMA ByteMoves ==
  ASSUME WifiInv, client.here, client.rx # <<>>, NEW c, c = Head(client.rx), NEW head, head = Append(header, c)
  PROVE  /\ c \in Piece /\ header \in Seq(Piece) /\ head \in Seq(Piece) /\ Tail(client.rx) \in Seq(Piece)
         /\ Tail(client.rx) \o client.left \in Seq(Piece)
         /\ head \o (Tail(client.rx) \o client.left) = client.asks.head \o client.asks.body
<1>1. /\ client.left \in Seq(Piece) /\ client.rx \in Seq(Piece) /\ header \in Seq(Piece)
      /\ header \o (client.rx \o client.left) = client.asks.head \o client.asks.body
  BY DEF WifiInv, WifiTypes
<1>2. c \in Piece /\ Tail(client.rx) \in Seq(Piece) /\ head \in Seq(Piece)
  BY <1>1, FirstAndRest, AppendIs
<1>3. Tail(client.rx) \o client.left \in Seq(Piece)
  BY <1>1, <1>2
<1>4. Append(header, c) \o (Tail(client.rx) \o client.left) = header \o (client.rx \o client.left)
  <2>1. ASSUME NEW s \in Seq(Piece), NEW t \in Seq(Piece), NEW u \in Seq(Piece), t # <<>>
        PROVE  Append(s, Head(t)) \o (Tail(t) \o u) = s \o (t \o u)
    BY <2>1, OneIsRead
  <2> QED BY <1>1, <2>1
<1> QED BY <1>1, <1>2, <1>3, <1>4

(* The commands of a head, in the way they are looked for *)
LEMMA FourCommands == DOMAIN Tested = 1..4
BY DEF Tested

LEMMA SwitchesWhatIsAsked ==
  ASSUME NEW head, NEW asked,
         asked = {Tested[i] : i \in {j \in DOMAIN Tested : Tested[j].text \in ToSet(head)}}
  PROVE  \/ asked = {} /\ Switched(head) = pins
         \/ \E t \in asked : Switched(head) = [pins EXCEPT ![t.pin] = t.on]
<1> DEFINE found == {i \in DOMAIN Tested : Tested[i].text \in ToSet(head)}
           least == CHOOSE i \in found : \A j \in found : i <= j
<1>1. asked = {Tested[i] : i \in found}
  OBVIOUS
<1>2. Switched(head) = IF found = {} THEN pins
                       ELSE [pins EXCEPT ![Tested[least].pin] = Tested[least].on]
  BY DEF Switched
<1>3. ASSUME found # {} PROVE least \in found
  <2>1. found \subseteq 1..4
    BY FourCommands
  <2> HIDE DEF found
  <2>2. \E i \in found : \A j \in found : i <= j
    <3>1. CASE 1 \in found
      BY <2>1, <3>1
    <3>2. CASE 1 \notin found /\ 2 \in found
      BY <2>1, <3>2
    <3>3. CASE 1 \notin found /\ 2 \notin found /\ 3 \in found
      BY <2>1, <3>3
    <3>4. CASE 1 \notin found /\ 2 \notin found /\ 3 \notin found
      <4>1. \A i \in found : i = 4
        BY <2>1, <3>4
      <4>2. 4 \in found
        BY <1>3, <4>1
      <4> QED BY <4>1, <4>2
    <3> QED BY <3>1, <3>2, <3>3, <3>4
  <2> QED BY <2>2
<1> HIDE DEF found, least
<1>4. CASE found = {}
  BY <1>1, <1>2, <1>4
<1>5. CASE found # {}
  <2>1. Tested[least] \in asked
    BY <1>1, <1>3, <1>5
  <2> QED BY <1>2, <1>5, <2>1
<1> QED BY <1>4, <1>5

(* What a step does to the pins *)
Obeys ==
  IF answered' = answered
  THEN pins' = pins
  ELSE LET asked == {Tested[i] : i \in {j \in DOMAIN Tested : Tested[j].text \in ToSet(Last(answered').head)}}
       IN  \/ asked = {} /\ pins' = pins
           \/ \E t \in asked : pins' = [pins EXCEPT ![t.pin] = t.on]

LEMMA ReadsKeeps == ASSUME WifiInv, Reads PROVE WifiInv' /\ Obeys
<1> DEFINE c == Head(client.rx)
           head == Append(header, c)
<1>1. client.here /\ client.rx # <<>> /\ coming' = coming
  BY DEF Reads
<1>2. /\ c \in Piece /\ header \in Seq(Piece) /\ head \in Seq(Piece) /\ Tail(client.rx) \in Seq(Piece)
      /\ Tail(client.rx) \o client.left \in Seq(Piece)
      /\ head \o (Tail(client.rx) \o client.left) = client.asks.head \o client.asks.body
  BY <1>1, ByteMoves
<1>3. /\ WifiTypes /\ client.asks \in Requests /\ coming \in Seq(Requests) /\ answered \in Seq(Requests)
      /\ NoEmptyLine(header) /\ line \in BOOLEAN
      /\ IF line THEN Something(header) ELSE OnlyReturns(header)
  BY DEF WifiInv, WifiTypes
<1>4. CASE c = "lf" /\ ~line /\ AnswerWith(head)
  <2>1. EmptyLine(head, Len(head))
    BY <1>2, <1>3, <1>4, EmptyLineEnds
  <2>2. head = client.asks.head
    BY <1>2, <1>3, <1>4, <2>1, HeadIsRead
  <2>3. /\ pins' = Switched(head) /\ answered' = Append(answered, client.asks) /\ Leave
    BY <1>4 DEF AnswerWith
  <2>4. answered' \in Seq(Requests) /\ answered' # answered /\ Last(answered') = client.asks
    BY <1>3, <2>3 DEF Last
  <2>5. WifiInv'
    BY <1>1, <1>3, <2>3, <2>4, LeaveKeeps
  <2>6. Obeys
    <3> DEFINE asked == {Tested[i] : i \in {j \in DOMAIN Tested : Tested[j].text \in ToSet(Last(answered').head)}}
    <3>1. Last(answered').head = head /\ pins' = Switched(head)
      BY <2>2, <2>3, <2>4
    <3>2. asked = {Tested[i] : i \in {j \in DOMAIN Tested : Tested[j].text \in ToSet(head)}}
      BY <3>1
    <3>3. \/ asked = {} /\ pins' = pins
          \/ \E t \in asked : pins' = [pins EXCEPT ![t.pin] = t.on]
      BY <3>1, <3>2, SwitchesWhatIsAsked
    <3> QED BY <2>4, <3>3 DEF Obeys
  <2> QED BY <2>5, <2>6
<1>5. CASE /\ c # "lf" \/ line
           /\ header' = head
           /\ line' = IF c = "lf" THEN FALSE ELSE line \/ c # "cr"
           /\ client' = [client EXCEPT !.rx = Tail(client.rx)]
           /\ UNCHANGED <<pins, answered>>
  <2>1. Obeys
    BY <1>5 DEF Obeys
  <2>2. ~EmptyLine(head, Len(head)) /\ IF line' THEN Something(head) ELSE OnlyReturns(head)
    <3>1. CASE c = "lf"
      BY <1>2, <1>3, <1>5, <3>1, LineIsOver
    <3>2. CASE c # "lf"
      BY <1>2, <1>3, <1>5, <3>2, LineGrows
    <3> QED BY <3>1, <3>2
  <2>3. NoEmptyLine(head)
    BY <1>2, <1>3, <2>2, NoneYet
  <2>4. /\ client'.here = client.here /\ client'.open = client.open /\ client'.asks = client.asks
        /\ client'.left = client.left /\ client'.rx = Tail(client.rx)
    BY <1>3, <1>5 DEF WifiTypes
  <2>5. WifiTypes'
    BY <1>1, <1>2, <1>3, <1>5 DEF WifiTypes
  <2>6. NoEmptyLine(header)' /\ IF line' THEN Something(header)' ELSE OnlyReturns(header)'
    BY <1>5, <2>2, <2>3 DEF NoEmptyLine, Something, OnlyReturns
  <2>7. header' \o (client'.rx \o client'.left) = client'.asks.head \o client'.asks.body
    BY <1>2, <1>5, <2>4
  <2> HIDE DEF c, head
  <2>8. WifiInv'
    BY <1>1, <2>4, <2>5, <2>6, <2>7 DEF WifiInv
  <2> QED BY <2>1, <2>8
<1> QED BY <1>4, <1>5 DEF Reads

LEMMA WifiStutters == ASSUME WifiInv, UNCHANGED wifiVars PROVE WifiInv' /\ Obeys
<1>1. UNCHANGED <<coming, client, header, line, pins, answered>>
  BY DEF wifiVars
<1> QED BY <1>1, HeaderSame DEF WifiInv, WifiTypes, Obeys

LEMMA WifiSteps == ASSUME WifiInv, [WifiNext]_wifiVars PROVE WifiInv' /\ Obeys
<1>1. CASE Available
  BY <1>1, AvailableKeeps DEF Available, Obeys
<1>2. CASE PieceArrives
  BY <1>2, PieceKeeps DEF PieceArrives, Obeys
<1>3. CASE ClientCloses
  BY <1>3, CloseKeeps DEF ClientCloses, Obeys
<1>4. CASE Reads
  BY <1>4, ReadsKeeps
<1>5. CASE LoopEnds
  <2>1. Leave /\ UNCHANGED <<coming, pins, answered>>
    BY <1>5 DEF LoopEnds
  <2>2. WifiInv'
    BY <2>1, LeaveKeeps DEF WifiInv, WifiTypes
  <2> QED BY <2>1, <2>2 DEF Obeys
<1>6. CASE UNCHANGED wifiVars
  BY <1>6, WifiStutters
<1> QED BY <1>1, <1>2, <1>3, <1>4, <1>5, <1>6 DEF WifiNext

(* A client's request is read from its beginning, whatever became of the   *)
(* one before: nothing of the header and no part of a line is left.         *)
THEOREM HeaderStartsEmpty == LoopSpec => []WifiInv
<1>1. LoopInit => WifiInv
  BY WifiInitially DEF LoopInit
<1>2. WifiInv /\ [LoopNext]_loopVars => WifiInv'
  <2> SUFFICES ASSUME WifiInv, [LoopNext]_loopVars PROVE WifiInv'
    OBVIOUS
  <2>1. [WifiNext]_wifiVars
    BY DEF LoopNext, loopVars
  <2> QED BY <2>1, WifiSteps
<1> QED BY <1>1, <1>2, PTL DEF LoopSpec

(* A pin changes only with the answer to a request, to what the head of    *)
(* that request names, and a request that is cut off changes none.         *)
THEOREM PinsObeyWholeRequests == LoopSpec => PinsAsAsked
<1>1. WifiInv /\ [LoopNext]_loopVars => [Obeys]_wifiVars
  <2> SUFFICES ASSUME WifiInv, [LoopNext]_loopVars PROVE Obeys
    OBVIOUS
  <2>1. [WifiNext]_wifiVars
    BY DEF LoopNext, loopVars
  <2> QED BY <2>1, WifiSteps
<1> QED BY <1>1, HeaderStartsEmpty, PTL DEF LoopSpec, PinsAsAsked, Obeys

=============================================================================
