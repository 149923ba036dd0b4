-------------------------- MODULE ServCnnFraming --------------------------
(* What the peer reads on the wire of one server connection, for every       *)
(* number of requests, every body length and slice, and every set of         *)
(* responses an application can mean: no byte of one response lies within    *)
(* another, and a controller ends with its whole response behind it.         *)
EXTENDS ServCnnProofs, FoldLemmas

-----------------------------------------------------------------------------
(* The peer's reader as a fold.                                              *)

Readings == [n : Int, ph : {"hdr", "cl", "size", "chunk", "crlf", "last"}, left : Int,
             ok : BOOLEAN]
Entries  == [c : Reqs, tok : Tokens]

ReceiveF == [p \in Readings \X Entries |-> Receive(p[1], p[2])]

LEMMA SentType == \A n \in Int : Sent(n) \in Readings
BY DEF Sent, Readings

LEMMA ReceiveType ==
  ASSUME NEW s \in Readings, NEW e \in Entries
  PROVE  Receive(s, e) \in Readings
<1> DEFINE Next1(ph, left) == [n |-> s.n, ph |-> ph, left |-> left, ok |-> TRUE]
           Bad == [s EXCEPT !.ok = FALSE]
           n == e.tok.n
           t == e.tok.t
<1>1. /\ n \in Int /\ s.left - n \in Int /\ s.n + 1 \in Int /\ s.n \in Int
      /\ t \in {"hdr", "size", "data", "crlf"}
  BY MaxLenAssumption DEF Entries, Tokens, Readings
<1>2. \A ph \in {"hdr", "cl", "size", "chunk", "crlf", "last"}, left \in Int :
        Next1(ph, left) \in Readings
  BY <1>1 DEF Readings
<1>3. Bad \in Readings
  BY DEF Readings
<1>4. Receive(s, e) =
        CASE ~s.ok \/ e.c # s.n + 1 -> Bad
          [] s.ph = "hdr" /\ t = "hdr" ->
               IF n = Chunked THEN Next1("size", 0)
               ELSE IF n = 0 THEN Sent(s.n + 1) ELSE Next1("cl", n)
          [] s.ph = "cl" /\ t = "data" /\ n <= s.left ->
               IF n = s.left THEN Sent(s.n + 1) ELSE Next1("cl", s.left - n)
          [] s.ph = "size" /\ t = "size" -> Next1(IF n = 0 THEN "last" ELSE "chunk", n)
          [] s.ph = "chunk" /\ t = "data" /\ n = s.left -> Next1("crlf", 0)
          [] s.ph = "crlf" /\ t = "crlf" -> Next1("size", 0)
          [] s.ph = "last" /\ t = "crlf" -> Sent(s.n + 1)
          [] OTHER -> Bad
  BY DEF Receive
<1> HIDE DEF Next1, Bad
<1> QED BY <1>1, <1>2, <1>3, <1>4, SentType

LEMMA ReceiveFType == ReceiveF \in [Readings \X Entries -> Readings]
BY ReceiveType DEF ReceiveF

LEMMA StartType == Start \in Readings
BY SentType DEF Start

LEMMA ReceiveOnceIs == \A s, e : ReceiveOnce(s, e) = Receive(s, e)
<1> SUFFICES ASSUME NEW s, NEW e PROVE ReceiveOnce(s, e) = Receive(s, e)
  OBVIOUS
<1> DEFINE v == Receive(s, e)
<1>1. {Receive(t, e) : t \in {s}} = {v}
  OBVIOUS
<1> HIDE DEF v
<1>2. (CHOOSE r \in {v} : TRUE) = v
  OBVIOUS
<1> QED BY <1>1, <1>2 DEF ReceiveOnce, v

(* FoldLeft() recurs over the subsets of the indices; such a function        *)
(* exists, and for all the indices it gives the fold.                        *)
LEMMA ReadingIsFold ==
  ASSUME NEW a \in Readings, NEW w \in Seq(Entries)
  PROVE  FoldLeft(ReceiveOnce, a, w) = Fold(ReceiveF, a, w)
<1> DEFINE P(h) == h = [s \in SUBSET DOMAIN w |->
                          IF s = {} THEN a ELSE ReceiveOnce(h[s \ {Max(s)}], w[Max(s)])]
           H == CHOOSE h : P(h)
<1>1. PICK g \in [SUBSET DOMAIN w -> Readings] : SubsetFold(ReceiveF, a, w, g)
  BY ReceiveFType, SubsetFoldExists
<1>2. DOMAIN w = 1 .. Len(w) /\ Len(w) \in Nat
  BY LenProperties
<1>3. ASSUME NEW s \in SUBSET DOMAIN w, s # {}
      PROVE  Max(s) \in DOMAIN w /\ s \ {Max(s)} \in SUBSET DOMAIN w /\ w[Max(s)] \in Entries
  <2>1. Max(s) \in s
    BY <1>2, <1>3, MaxIs
  <2> QED BY <1>2, <2>1, ElementOfSeq
<1>4. P(g)
  <2>1. ASSUME NEW s \in SUBSET DOMAIN w
        PROVE  g[s] = IF s = {} THEN a ELSE ReceiveOnce(g[s \ {Max(s)}], w[Max(s)])
    <3>1. CASE s = {}
      BY <1>1, <3>1 DEF SubsetFold
    <3>2. CASE s # {}
      <4>1. g[s \ {Max(s)}] \in Readings /\ w[Max(s)] \in Entries
        BY <1>1, <1>3, <3>2
      <4>2. g[s] = ReceiveF[<<g[s \ {Max(s)}], w[Max(s)]>>]
        BY <1>1, <3>2 DEF SubsetFold
      <4> QED BY <3>2, <4>1, <4>2, ReceiveOnceIs DEF ReceiveF
    <3> QED BY <3>1, <3>2
  <2> QED BY <1>1, <2>1
<1>5. P(H)
  <2> HIDE DEF P
  <2> QED BY <1>4
<1>6. FoldLeft(ReceiveOnce, a, w) = H[DOMAIN w]
  BY Zenon DEF FoldLeft, MapThenFoldSet
<1> HIDE DEF H
<1>7. SubsetFollows(Readings, ReceiveF, a, w, H)
  <2>1. H[{}] = a
    BY <1>5
  <2>2. ASSUME NEW s \in SUBSET DOMAIN w, s # {}, H[s \ {Max(s)}] \in Readings
        PROVE  H[s] = ReceiveF[<<H[s \ {Max(s)}], w[Max(s)]>>]
    <3>1. H[s] = Receive(H[s \ {Max(s)}], w[Max(s)])
      BY <1>5, <2>2, ReceiveOnceIs
    <3>2. w[Max(s)] \in Entries
      BY <1>3, <2>2
    <3> QED BY <2>2, <3>1, <3>2 DEF ReceiveF
  <2> QED BY <2>1, <2>2 DEF SubsetFollows
<1>8. Foldable(Readings, Entries, ReceiveF, a, w)
  BY ReceiveFType DEF Foldable
<1>9. H[DOMAIN w] = Fold(ReceiveF, a, w)
  BY <1>7, <1>8, SubsetFoldIsFold
<1> QED BY <1>6, <1>9

-----------------------------------------------------------------------------
(* Within response c, of which n units are still to come.                    *)
InBody(c, ph, n) == [n |-> c - 1, ph |-> ph, left |-> n, ok |-> TRUE]

Entry(c, t) == [c |-> c, tok |-> t]

(* One token of response c, read where it belongs.                           *)
LEMMA ReadsHdr ==
  ASSUME NEW c \in Reqs, NEW n \in -1 .. MaxLen
  PROVE  Receive(Sent(c - 1), Entry(c, Tok("hdr", n)))
           = IF n = Chunked THEN InBody(c, "size", 0)
             ELSE IF n = 0 THEN Sent(c) ELSE InBody(c, "cl", n)
<1>1. c \in Int /\ c = (c - 1) + 1
  BY DEF Reqs
<1> QED BY <1>1 DEF Receive, Sent, InBody, Entry, Tok

LEMMA ReadsData ==
  ASSUME NEW c \in Reqs, NEW left \in Int, NEW n \in Int, n <= left
  PROVE  Receive(InBody(c, "cl", left), Entry(c, Tok("data", n)))
           = IF n = left THEN Sent(c) ELSE InBody(c, "cl", left - n)
<1>1. c \in Int /\ c = (c - 1) + 1
  BY DEF Reqs
<1> QED BY <1>1 DEF Receive, Sent, InBody, Entry, Tok

LEMMA ReadsChunk ==
  ASSUME NEW c \in Reqs, NEW n \in Nat
  PROVE  /\ Receive(InBody(c, "size", 0), Entry(c, Tok("size", n)))
              = InBody(c, IF n = 0 THEN "last" ELSE "chunk", n)
         /\ Receive(InBody(c, "chunk", n), Entry(c, Tok("data", n))) = InBody(c, "crlf", 0)
         /\ Receive(InBody(c, "crlf", 0), Entry(c, Tok("crlf", 0))) = InBody(c, "size", 0)
         /\ Receive(InBody(c, "last", 0), Entry(c, Tok("crlf", 0))) = Sent(c)
<1>1. c \in Int /\ c = (c - 1) + 1
  BY DEF Reqs
<1>2. Receive(InBody(c, "size", 0), Entry(c, Tok("size", n)))
        = InBody(c, IF n = 0 THEN "last" ELSE "chunk", n)
  BY <1>1 DEF Receive, InBody, Entry, Tok
<1>3. Receive(InBody(c, "chunk", n), Entry(c, Tok("data", n))) = InBody(c, "crlf", 0)
  BY <1>1 DEF Receive, InBody, Entry, Tok
<1>4. Receive(InBody(c, "crlf", 0), Entry(c, Tok("crlf", 0))) = InBody(c, "size", 0)
  BY <1>1 DEF Receive, InBody, Entry, Tok
<1>5. Receive(InBody(c, "last", 0), Entry(c, Tok("crlf", 0))) = Sent(c)
  BY <1>1 DEF Receive, Sent, InBody, Entry, Tok
<1> QED BY <1>2, <1>3, <1>4, <1>5

(* ... and a packet of its tokens.                                           *)
After(s, c, toks) == FoldLeft(ReceiveOnce, s, OnWire(c, toks))

LEMMA InBodyType ==
  ASSUME NEW c \in Int
  PROVE  \A ph \in {"hdr", "cl", "size", "chunk", "crlf", "last"}, left \in Int :
              InBody(c, ph, left) \in Readings
<1>1. c - 1 \in Int
  OBVIOUS
<1> QED BY <1>1 DEF InBody, Readings

LEMMA AfterNone ==
  ASSUME NEW s \in Readings, NEW c \in Reqs
  PROVE  After(s, c, << >>) = s
<1>1. OnWire(c, << >>) = << >> /\ << >> \in Seq(Entries)
  <2>1. OnWire(c, << >>) \in Seq([c : Reqs, tok : Tokens]) /\ Len(OnWire(c, << >>)) = 0
    BY OnWireType, EmptySeq
  <2> QED BY <2>1, EmptySeq
<1>2. Foldable(Readings, Entries, ReceiveF, s, << >>)
  BY <1>1, ReceiveFType DEF Foldable
<1> QED BY <1>1, <1>2, ReadingIsFold, FoldEmpty DEF After

LEMMA AfterType ==
  ASSUME NEW s \in Readings, NEW c \in Reqs, NEW toks \in Seq(Tokens)
  PROVE  After(s, c, toks) \in Readings
<1>1. OnWire(c, toks) \in Seq(Entries)
  BY OnWireType DEF Entries
<1>2. Foldable(Readings, Entries, ReceiveF, s, OnWire(c, toks))
  BY <1>1, ReceiveFType DEF Foldable
<1> QED BY <1>1, <1>2, ReadingIsFold, FoldType DEF After

(* A token more.                                                             *)
LEMMA AfterAppend ==
  ASSUME NEW s \in Readings, NEW c \in Reqs, NEW toks \in Seq(Tokens), NEW t \in Tokens
  PROVE  After(s, c, Append(toks, t)) = Receive(After(s, c, toks), Entry(c, t))
<1>1. OnWire(c, toks) \in Seq(Entries) /\ Len(OnWire(c, toks)) = Len(toks)
  BY OnWireType DEF Entries
<1>2. Entry(c, t) \in Entries
  BY DEF Entry, Entries
<1>3. OnWire(c, Append(toks, t)) = Append(OnWire(c, toks), Entry(c, t))
  BY DEF OnWire, Entry
<1>4. Append(OnWire(c, toks), Entry(c, t)) \in Seq(Entries)
  BY <1>1, <1>2, AppendProperties
<1>5. Foldable(Readings, Entries, ReceiveF, s, OnWire(c, toks))
  BY <1>1, ReceiveFType DEF Foldable
<1>6. /\ After(s, c, Append(toks, t)) = Fold(ReceiveF, s, Append(OnWire(c, toks), Entry(c, t)))
      /\ After(s, c, toks) = Fold(ReceiveF, s, OnWire(c, toks))
  BY <1>1, <1>3, <1>4, ReadingIsFold DEF After
<1>7. After(s, c, Append(toks, t)) = ReceiveF[<<After(s, c, toks), Entry(c, t)>>]
  BY <1>2, <1>5, <1>6, FoldAppend
<1>8. After(s, c, toks) \in Readings
  BY AfterType
<1> QED BY <1>2, <1>7, <1>8 DEF ReceiveF

LEMMA AfterConcat ==
  ASSUME NEW s \in Readings, NEW c \in Reqs, NEW t \in Seq(Tokens), NEW u \in Seq(Tokens)
  PROVE  After(s, c, t \o u) = After(After(s, c, t), c, u)
<1>1. OnWire(c, t) \in Seq(Entries) /\ OnWire(c, u) \in Seq(Entries)
  BY OnWireType DEF Entries
<1>2. OnWire(c, t \o u) = OnWire(c, t) \o OnWire(c, u)
  <2> DEFINE tu == t \o u
             v == OnWire(c, t) \o OnWire(c, u)
  <2>1. /\ DOMAIN tu = 1 .. Len(t) + Len(u) /\ Len(t) \in Nat /\ Len(u) \in Nat
        /\ Len(OnWire(c, t)) = Len(t) /\ Len(OnWire(c, u)) = Len(u)
        /\ DOMAIN t = 1 .. Len(t) /\ DOMAIN u = 1 .. Len(u)
    BY OnWireType, ConcatProperties, LenProperties
  <2>2. v \in Seq(Entries) /\ DOMAIN v = 1 .. Len(t) + Len(u)
    BY <1>1, <2>1, ConcatProperties, LenProperties
  <2>7. /\ \A i \in 1 .. Len(t) : OnWire(c, t)[i] = Entry(c, t[i])
        /\ \A i \in 1 .. Len(u) : OnWire(c, u)[i] = Entry(c, u[i])
    BY <2>1 DEF OnWire, Entry
  <2>3. \A i \in 1 .. Len(t) + Len(u) :
          /\ tu[i] = IF i <= Len(t) THEN t[i] ELSE u[i - Len(t)]
          /\ v[i] = IF i <= Len(t) THEN OnWire(c, t)[i] ELSE OnWire(c, u)[i - Len(t)]
    BY <1>1, <2>1, ConcatProperties
  <2> HIDE DEF tu, v
  <2>4. ASSUME NEW i \in 1 .. Len(t) + Len(u) PROVE v[i] = Entry(c, tu[i])
    <3>1. CASE i <= Len(t)
      BY <2>1, <2>3, <2>7, <3>1
    <3>2. CASE i > Len(t)
      <4>1. i - Len(t) \in 1 .. Len(u)
        BY <2>1, <3>2
      <4> QED BY <2>1, <2>3, <2>7, <3>2, <4>1
    <3> QED BY <2>1, <3>1, <3>2
  <2>5. OnWire(c, tu) = [i \in 1 .. Len(t) + Len(u) |-> Entry(c, tu[i])]
    BY <2>1 DEF OnWire, Entry
  <2>6. v = [i \in 1 .. Len(t) + Len(u) |-> v[i]]
    BY <2>2
  <2> QED BY <2>4, <2>5, <2>6 DEF tu, v
<1>3. OnWire(c, t) \o OnWire(c, u) \in Seq(Entries)
  BY <1>1, ConcatProperties
<1>4. Foldable(Readings, Entries, ReceiveF, s, OnWire(c, t))
  BY <1>1, ReceiveFType DEF Foldable
<1>5. After(s, c, t) \in Readings
  BY AfterType
<1>6. /\ After(s, c, t \o u) = Fold(ReceiveF, s, OnWire(c, t) \o OnWire(c, u))
      /\ After(s, c, t) = Fold(ReceiveF, s, OnWire(c, t))
      /\ After(After(s, c, t), c, u) = Fold(ReceiveF, After(s, c, t), OnWire(c, u))
  <2>1. After(s, c, t \o u) = FoldLeft(ReceiveOnce, s, OnWire(c, t) \o OnWire(c, u))
    BY <1>2 DEF After
  <2>2. After(After(s, c, t), c, u) = FoldLeft(ReceiveOnce, After(s, c, t), OnWire(c, u))
    BY DEF After
  <2>3. After(s, c, t) = FoldLeft(ReceiveOnce, s, OnWire(c, t))
    BY DEF After
  <2> QED BY <1>1, <1>3, <1>5, <2>1, <2>2, <2>3, ReadingIsFold
<1> QED BY <1>1, <1>4, <1>6, FoldConcat

(* What the peer has read once a packet of response c is on the wire.        *)
LEMMA WireAfter ==
  ASSUME TypeOK, NEW c \in Reqs, NEW toks \in Seq(Tokens), wire' = wire \o OnWire(c, toks)
  PROVE  PeerView \in Readings /\ PeerView' = After(PeerView, c, toks)
<1>1. wire \in Seq(Entries) /\ OnWire(c, toks) \in Seq(Entries)
  BY OnWireType DEF TypeOK, Entries
<1>2. wire' \in Seq(Entries)
  BY <1>1, ConcatProperties
<1>3. Foldable(Readings, Entries, ReceiveF, Start, wire)
  BY <1>1, StartType, ReceiveFType DEF Foldable
<1>4. PeerView = Fold(ReceiveF, Start, wire) /\ PeerView' = Fold(ReceiveF, Start, wire')
  BY <1>1, <1>2, StartType, ReadingIsFold DEF PeerView
<1>5. PeerView \in Readings
  BY <1>3, <1>4, FoldType
<1>6. Fold(ReceiveF, Start, wire') = Fold(ReceiveF, PeerView, OnWire(c, toks))
  BY <1>1, <1>3, <1>4, FoldConcat
<1> QED BY <1>1, <1>4, <1>5, <1>6, ReadingIsFold DEF After

-----------------------------------------------------------------------------
(* A chunk is read piece by piece, and the pieces that are sent and those    *)
(* that wait are the chunk.                                                  *)

LEMMA AfterOne ==
  ASSUME NEW s \in Readings, NEW c \in Reqs, NEW t \in Tokens
  PROVE  After(s, c, <<t>>) = Receive(s, Entry(c, t))
<1>1. << >> \in Seq(Tokens) /\ <<t>> = Append(<< >>, t)
  OBVIOUS
<1>2. After(s, c, Append(<< >>, t)) = Receive(After(s, c, << >>), Entry(c, t))
  BY <1>1, AfterAppend
<1> QED BY <1>1, <1>2, AfterNone

LEMMA AfterTwo ==
  ASSUME NEW s \in Readings, NEW c \in Reqs, NEW t \in Tokens, NEW u \in Tokens
  PROVE  After(s, c, <<t, u>>) = Receive(Receive(s, Entry(c, t)), Entry(c, u))
<1>1. <<t>> \in Seq(Tokens) /\ <<t, u>> = Append(<<t>>, u)
  OBVIOUS
<1>2. After(s, c, Append(<<t>>, u)) = Receive(After(s, c, <<t>>), Entry(c, u))
  BY <1>1, AfterAppend
<1> QED BY <1>1, <1>2, AfterOne

LEMMA HeadAndRest ==
  ASSUME NEW w \in Seq(Tokens), NEW h \in Seq(Tokens), Len(h) <= Len(w),
         \A i \in 1 .. Len(h) : h[i] = w[i]
  PROVE  h \o SubSeq(w, Len(h) + 1, Len(w)) = w
<1>1. Len(h) \in Nat /\ Len(w) \in Nat
  BY LenProperties
<1>2. h = SubSeq(w, 1, Len(h))
  <2> DEFINE g == SubSeq(w, 1, Len(h))
  <2>1. g \in Seq(Tokens) /\ Len(g) = Len(h) /\ \A i \in 1 .. Len(h) : g[i] = w[i]
    <3>1. \A i \in 1 .. Len(h) : i \in 1 .. Len(w) /\ 1 + i - 1 = i
      BY <1>1
    <3>2. CASE Len(h) = 0
      <4>1. g = << >>
        BY <1>1, <3>2, SubSeqEmpty
      <4> QED BY <3>2, <4>1
    <3>3. CASE Len(h) # 0
      <4>1. 1 \in 1 .. Len(w) /\ Len(h) \in 1 .. Len(w)
        BY <1>1, <3>3
      <4>2. /\ g \in Seq(Tokens) /\ Len(g) = IF 1 <= Len(h) THEN Len(h) - 1 + 1 ELSE 0
            /\ \A i \in 1 .. Len(h) - 1 + 1 : g[i] = w[1 + i - 1]
        BY <1>1, <4>1, SubSeqProperties
      <4>3. Len(h) - 1 + 1 = Len(h) /\ 1 <= Len(h)
        BY <1>1, <3>3
      <4> HIDE DEF g
      <4> QED BY <3>1, <4>2, <4>3
    <3> QED BY <3>2, <3>3
  <2> HIDE DEF g
  <2>2. h = g
    BY <2>1, SeqEqual
  <2> QED BY <2>2 DEF g
<1>3. SubSeq(w, 1, Len(h)) \o SubSeq(w, Len(h) + 1, Len(w)) = SubSeq(w, 1, Len(w))
  <2>1. 1 \in 1 .. Len(w) + 1 /\ Len(h) \in 1 - 1 .. Len(w) /\ Len(w) \in Len(h) .. Len(w)
    BY <1>1
  <2> QED BY <2>1, ConcatAdjacentSubSeq
<1>4. SubSeq(w, 1, Len(w)) = w
  BY SubSeqFull
<1> QED BY <1>2, <1>3, <1>4

LEMMA ChunkPieces ==
  ASSUME NEW n \in 0 .. MaxLen, NEW k \in 0 .. 3
  PROVE  ChunkHead(n, k) \o ChunkTail(n, k) = Chunk(n) /\ ChunkHead(n, 0) = << >>
<1>1. ChunkHead(n, k) \in Seq(Tokens) /\ Chunk(n) \in Seq(Tokens)
  BY ChunkType DEF Chunk
<1>2. Len(ChunkHead(n, k)) <= Len(Chunk(n))
      /\ \A i \in 1 .. Len(ChunkHead(n, k)) : ChunkHead(n, k)[i] = Chunk(n)[i]
  <2>1. CASE n = 0
    BY <2>1 DEF Chunk, ChunkHead
  <2>2. CASE n # 0
    BY <2>2 DEF Chunk, ChunkHead
  <2> QED BY <2>1, <2>2
<1>3. ChunkHead(n, k) \o SubSeq(Chunk(n), Len(ChunkHead(n, k)) + 1, Len(Chunk(n))) = Chunk(n)
  BY <1>1, <1>2, HeadAndRest
<1>4. ChunkHead(n, 0) = << >>
  BY DEF ChunkHead
<1> QED BY <1>3, <1>4 DEF ChunkTail, Chunk

LEMMA ChunkRead ==
  ASSUME NEW c \in Reqs, NEW n \in 0 .. MaxLen, NEW k \in 0 .. 3
  PROVE  /\ After(InBody(c, "size", 0), c, ChunkHead(n, k)).ok
         /\ After(InBody(c, "size", 0), c, ChunkHead(n, k)).n >= c - 1
         /\ After(InBody(c, "size", 0), c, Chunk(n)) = IF n = 0 THEN Sent(c) ELSE InBody(c, "size", 0)
<1> DEFINE s == InBody(c, "size", 0)
           Size == Tok("size", n)
           Data == Tok("data", n)
           Crlf == Tok("crlf", 0)
<1>1. c \in Int /\ n \in Nat /\ Size \in Tokens /\ Data \in Tokens /\ Crlf \in Tokens
  BY MaxLenAssumption DEF Reqs, Tok, Tokens
<1>2. s \in Readings
  BY <1>1, InBodyType
<1>3. /\ Receive(s, Entry(c, Size)) = InBody(c, IF n = 0 THEN "last" ELSE "chunk", n)
      /\ Receive(InBody(c, "chunk", n), Entry(c, Data)) = InBody(c, "crlf", 0)
      /\ Receive(InBody(c, "crlf", 0), Entry(c, Crlf)) = s
      /\ Receive(InBody(c, "last", 0), Entry(c, Crlf)) = Sent(c)
  BY <1>1, ReadsChunk
<1>4. \A ph, m : /\ InBody(c, ph, m).ok /\ InBody(c, ph, m).n >= c - 1
                 /\ Sent(c).ok /\ Sent(c).n >= c - 1
  BY <1>1 DEF InBody, Sent
<1> HIDE DEF s, Size, Data, Crlf
<1>5. CASE n = 0
  <2>1. After(s, c, << >>) = s /\ After(s, c, <<Size>>) = InBody(c, "last", 0)
        /\ After(s, c, <<Size, Crlf>>) = Sent(c)
    BY <1>1, <1>2, <1>3, <1>5, AfterNone, AfterOne, AfterTwo
  <2>2. Chunk(n) = <<Size, Crlf>> /\ ChunkHead(n, k) \in {<< >>, <<Size>>, <<Size, Crlf>>}
    BY <1>5 DEF Chunk, ChunkHead, Size, Crlf
  <2>3. After(s, c, ChunkHead(n, k)) \in {s, InBody(c, "last", 0), Sent(c)}
    BY <2>1, <2>2
  <2> QED BY <1>4, <1>5, <2>1, <2>2, <2>3 DEF s
<1>6. CASE n # 0
  <2>1. /\ After(s, c, << >>) = s /\ After(s, c, <<Size>>) = InBody(c, "chunk", n)
        /\ After(s, c, <<Size, Data>>) = InBody(c, "crlf", 0)
    BY <1>1, <1>2, <1>3, <1>6, AfterNone, AfterOne, AfterTwo
  <2>2. After(s, c, <<Size, Data, Crlf>>) = s
    <3>1. <<Size, Data>> \in Seq(Tokens) /\ <<Size, Data, Crlf>> = Append(<<Size, Data>>, Crlf)
      BY <1>1
    <3>2. After(s, c, Append(<<Size, Data>>, Crlf)) = Receive(InBody(c, "crlf", 0), Entry(c, Crlf))
      BY <1>1, <1>2, <2>1, <3>1, AfterAppend
    <3> QED BY <1>3, <3>1, <3>2
  <2>3. /\ Chunk(n) = <<Size, Data, Crlf>>
        /\ ChunkHead(n, k) \in {<< >>, <<Size>>, <<Size, Data>>, <<Size, Data, Crlf>>}
    BY <1>6 DEF Chunk, ChunkHead, Size, Data, Crlf
  <2>4. After(s, c, ChunkHead(n, k)) \in {s, InBody(c, "chunk", n), InBody(c, "crlf", 0)}
    BY <2>1, <2>2, <2>3
  <2> QED BY <1>4, <1>6, <2>2, <2>3, <2>4 DEF s
<1> QED BY <1>5, <1>6

-----------------------------------------------------------------------------
(* The inductive invariant.  It relates the front controller, the only one   *)
(* that writes, to what the peer has read.                                   *)

(* What response() and setRespContent() make consistent: a chunked response  *)
(* announces no length, a stream has the announced length (that one is the   *)
(* application's to keep when it passes a stream of its own), and a chunked  *)
(* stream is not empty (an empty one would be followed by two last chunks).  *)
Fits(s) ==
  /\ s.te <=> s.clen = Chunked
  /\ ~s.te /\ s.strm # NoStrm => s.strm = s.clen
  /\ s.te => s.strm # 0

AppFits == \A s \in AppShapes : Fits(s)

FrontCtrl == nreq - Len(mCtrlList) + 1

(* A controller nobody has sent anything of.                                 *)
Fresh(u) == u = NewCtrl \/ \E s \in AppShapes : u = Responded(NewCtrl, s)

(* The response of controller c = u, its header sent, has been read up to s: *)
(* the application sends it with an announced length,                        *)
ManualAt(c, u, s) ==
  /\ u.wcnt <= u.clen
  /\ u.eos <=> u.wcnt = u.clen
  /\ s = IF u.wcnt = u.clen THEN Sent(c) ELSE InBody(c, "cl", u.clen - u.wcnt)

(* a stream holds it,                                                        *)
StreamAt(c, u, s) ==
  /\ u.rcnt + u.strm = u.clen
  /\ s = IF u.strm = 0 THEN Sent(c) ELSE InBody(c, "cl", u.strm)

(* or it is chunked: once the peer has read what waits in mChkStrm too, it   *)
(* stands before a chunk or behind the last one.                             *)
ChunksAt(c, u, s) ==
  /\ u.strm # NoStrm => u.chk = << >> /\ (u.eos <=> u.strm = 0)
  /\ After(s, c, u.chk) = IF u.eos THEN Sent(c) ELSE InBody(c, "size", 0)
  /\ s.n >= c - 1

ReadTo(c, u, s) ==
  /\ u.resp /\ ~u.hdr
  /\ IF u.te THEN ChunksAt(c, u, s)
     ELSE IF u.strm = NoStrm THEN ManualAt(c, u, s) ELSE StreamAt(c, u, s)

FrontAt(c, u, s) == (Fresh(u) /\ s = Sent(c - 1)) \/ ReadTo(c, u, s)

BehindIsFresh == \A c \in Reqs : c > FrontCtrl \/ c > nreq => Fresh(ctrl[c])

PeerAtFront == IF mCtrlList = << >> THEN PeerView = Sent(nreq)
               ELSE FrontAt(FrontCtrl, ctrl[FrontCtrl], PeerView)

AskedAreFront == \A c \in asked : c <= FrontCtrl

FrameInv ==
  /\ PeerView.ok
  /\ AskedAreFront
  /\ cnn = "open" /\ sock # "broken" => BehindIsFresh /\ PeerAtFront

-----------------------------------------------------------------------------
(* What the transmit loop and sendData() do to the front controller.         *)

LEMMA FreshIs ==
  ASSUME AppFits, NEW u, Fresh(u)
  PROVE  /\ u \in Ctrls
         /\ u.chk = << >> /\ u.wcnt = 0 /\ u.rcnt = 0 /\ ~u.eos
         /\ u.hdr = u.resp
         /\ ~u.resp => u = NewCtrl /\ Avail(u) = "lack"
         /\ u.resp => /\ u.te <=> u.clen = Chunked
                      /\ ~u.te /\ u.strm # NoStrm => u.strm = u.clen
                      /\ u.te => u.strm # 0
<1>1. CASE u = NewCtrl
  BY <1>1, NewCtrlType DEF NewCtrl, Avail
<1>3. ASSUME NEW s \in AppShapes, u = Responded(NewCtrl, s)
      PROVE  /\ u \in Ctrls
             /\ u.chk = << >> /\ u.wcnt = 0 /\ u.rcnt = 0 /\ ~u.eos
             /\ u.hdr = u.resp /\ u.resp
             /\ u.te <=> u.clen = Chunked
             /\ ~u.te /\ u.strm # NoStrm => u.strm = u.clen
             /\ u.te => u.strm # 0
  <2>1. s \in Shapes /\ Fits(s)
    BY AppShapesAssumption DEF AppFits
  <2>2. u \in Ctrls
    BY <1>3, <2>1, NewCtrlType, RespondedType
  <2>3. /\ u.chk = << >> /\ u.wcnt = 0 /\ u.rcnt = 0 /\ ~u.eos /\ u.hdr /\ u.resp
        /\ u.te = s.te /\ u.clen = s.clen /\ u.strm = s.strm
    BY <1>3 DEF Responded, NewCtrl
  <2>4. u.hdr = u.resp
    BY <2>2, <2>3 DEF Ctrls
  <2> QED BY <2>1, <2>2, <2>3, <2>4 DEF Fits
<1> QED BY <1>1, <1>3 DEF Fresh

(* The header leaves.                                                        *)
LEMMA HeaderSent ==
  ASSUME AppFits, NEW c \in Reqs, NEW u, Fresh(u), u.hdr
  PROVE  /\ Prepared(u) = u
         /\ ReadTo(c, Consumed(u), After(Sent(c - 1), c, Offered(u)))
         /\ After(Sent(c - 1), c, Offered(u)).ok
<1> DEFINE s == After(Sent(c - 1), c, Offered(u))
           v == Consumed(u)
<1>1. /\ u \in Ctrls /\ u.chk = << >> /\ u.wcnt = 0 /\ u.rcnt = 0 /\ ~u.eos /\ u.resp
      /\ u.te <=> u.clen = Chunked
      /\ ~u.te /\ u.strm # NoStrm => u.strm = u.clen
      /\ u.te => u.strm # 0
  BY FreshIs
<1>2. Prepared(u) = u
  BY DEF Prepared
<1>3. u.clen \in -1 .. MaxLen /\ u.clen \in Int /\ u.strm \in Int
  BY <1>1, MaxLenAssumption DEF Ctrls, Chunked, NoStrm
<1>4. Tok("hdr", u.clen) \in Tokens /\ Sent(c - 1) \in Readings /\ c \in Int
  <2>1. c \in Int /\ c - 1 \in Int
    BY DEF Reqs
  <2> QED BY <1>3, <2>1, SentType DEF Tok, Tokens
<1>5. s = IF u.clen = Chunked THEN InBody(c, "size", 0)
          ELSE IF u.clen = 0 THEN Sent(c) ELSE InBody(c, "cl", u.clen)
  <2>1. Offered(u) = <<Tok("hdr", u.clen)>>
    BY DEF Offered
  <2>2. s = Receive(Sent(c - 1), Entry(c, Tok("hdr", u.clen)))
    BY <1>4, <2>1, AfterOne
  <2>3. Receive(Sent(c - 1), Entry(c, Tok("hdr", u.clen)))
          = IF u.clen = Chunked THEN InBody(c, "size", 0)
            ELSE IF u.clen = 0 THEN Sent(c) ELSE InBody(c, "cl", u.clen)
    BY <1>3, ReadsHdr
  <2> QED BY <2>2, <2>3
<1>6. /\ v.resp /\ ~v.hdr /\ v.te = u.te /\ v.strm = u.strm /\ v.clen = u.clen
      /\ v.chk = << >> /\ v.wcnt = 0 /\ v.rcnt = 0 /\ (v.eos <=> u.clen = 0)
  BY <1>1 DEF Consumed, Ctrls
<1> HIDE DEF s, v
<1>7. s.ok
  BY <1>5 DEF Sent, InBody
<1>8. CASE u.te
  <2>1. s = InBody(c, "size", 0) /\ ~v.eos
    BY <1>1, <1>5, <1>6, <1>8 DEF Chunked
  <2>2. After(s, c, << >>) = s
    BY <1>4, <2>1, InBodyType, AfterNone
  <2>3. s.n >= c - 1
    BY <1>4, <2>1 DEF InBody
  <2>4. ChunksAt(c, v, s)
    BY <1>1, <1>6, <1>8, <2>1, <2>2, <2>3 DEF ChunksAt
  <2> QED BY <1>2, <1>6, <1>7, <1>8, <2>4 DEF ReadTo, s, v
<1>9. CASE ~u.te /\ u.strm = NoStrm
  <2>1. ManualAt(c, v, s)
    BY <1>1, <1>3, <1>5, <1>6, <1>9 DEF ManualAt, Chunked
  <2> QED BY <1>2, <1>6, <1>7, <1>9, <2>1 DEF ReadTo, s, v
<1>10. CASE ~u.te /\ u.strm # NoStrm
  <2>1. StreamAt(c, v, s)
    BY <1>1, <1>3, <1>5, <1>6, <1>10 DEF StreamAt, Chunked
  <2> QED BY <1>2, <1>6, <1>7, <1>10, <2>1 DEF ReadTo, s, v
<1> QED BY <1>8, <1>9, <1>10

(* A piece of the body leaves through the transmit loop.                     *)
LEMMA PieceSent ==
  ASSUME NEW c \in Reqs, NEW u \in Ctrls, NEW s \in Readings, s.ok, ReadTo(c, u, s),
         Avail(u) = "some"
  PROVE  /\ ReadTo(c, Consumed(Prepared(u)), After(s, c, Offered(Prepared(u))))
         /\ After(s, c, Offered(Prepared(u))).ok
<1> DEFINE p == Prepared(u)
           v == Consumed(p)
           r == After(s, c, Offered(p))
<1>1. u.resp /\ ~u.hdr /\ c \in Int
  BY DEF ReadTo, Reqs
<1>0. /\ Sent(c).ok /\ Sent(c).n >= c - 1
      /\ \A ph, n : InBody(c, ph, n).ok /\ InBody(c, ph, n).n >= c - 1
  BY <1>1 DEF Sent, InBody
<1>2. CASE u.te /\ u.chk # << >>
  <2>1. u.strm = NoStrm /\ ChunksAt(c, u, s) /\ p = u
    BY <1>1, <1>2 DEF ReadTo, ChunksAt, Prepared
  <2>2. r = IF u.eos THEN Sent(c) ELSE InBody(c, "size", 0)
    BY <1>1, <1>2, <2>1 DEF ChunksAt, Offered
  <2>3. /\ v.resp /\ ~v.hdr /\ v.te /\ v.strm = NoStrm /\ v.chk = << >> /\ (v.eos <=> u.eos)
    BY <1>1, <1>2, <2>1 DEF Consumed, Ctrls, NoStrm
  <2>4. r \in Readings
    BY <1>1, <2>2, SentType, InBodyType
  <2> HIDE DEF p, v, r
  <2>5. After(r, c, << >>) = r
    BY <2>4, AfterNone
  <2> QED BY <1>0, <2>2, <2>3, <2>5 DEF ReadTo, ChunksAt, p, v, r
<1>3. CASE u.te /\ u.chk = << >>
  <2> DEFINE n == Slice1(u)
             toks == Chunk(n) \o (IF n = u.strm THEN Chunk(0) ELSE << >>)
  <2>1. u.strm # NoStrm /\ ~u.eos /\ ChunksAt(c, u, s)
    BY <1>1, <1>3 DEF ReadTo, Avail
  <2>2. u.strm \in Nat /\ u.strm # 0 /\ u.strm \in Int
    BY <2>1, MaxLenAssumption DEF ChunksAt, Ctrls, NoStrm
  <2>3. n \in 0 .. MaxLen /\ n <= u.strm /\ n # 0 /\ n \in Int
    BY <2>1, <2>2, Slice1Type, SliceAssumption DEF Slice1
  <2>4. s = InBody(c, "size", 0)
    <3>1. After(s, c, << >>) = s
      BY AfterNone
    <3> QED BY <1>3, <2>1, <3>1 DEF ChunksAt
  <2>5. /\ p = [u EXCEPT !.strm = u.strm - n, !.chk = toks] /\ Offered(p) = toks
    BY <1>1, <1>3, <2>1 DEF Prepared, Offered, Ctrls
  <2>6. Chunk(n) \in Seq(Tokens) /\ Chunk(0) \in Seq(Tokens) /\ << >> \in Seq(Tokens)
    BY <2>3, ChunkType, MaxLenAssumption DEF Chunk
  <2>7. After(s, c, Chunk(n)) = InBody(c, "size", 0) /\ After(s, c, Chunk(0)) = Sent(c)
        /\ After(s, c, << >>) = s
    BY <2>3, <2>4, ChunkRead, AfterNone, MaxLenAssumption
  <2> HIDE DEF n
  <2>8. r = IF n = u.strm THEN Sent(c) ELSE InBody(c, "size", 0)
    <3>1. CASE n = u.strm
      <4>1. r = After(s, c, Chunk(n) \o Chunk(0))
        BY <2>5, <3>1
      <4> QED BY <2>4, <2>6, <2>7, <3>1, <4>1, AfterConcat
    <3>2. CASE n # u.strm
      <4>1. r = After(s, c, Chunk(n) \o << >>)
        BY <2>5, <3>2
      <4> QED BY <2>4, <2>6, <2>7, <3>2, <4>1, AfterConcat
    <3> QED BY <3>1, <3>2
  <2>9. /\ v.resp /\ ~v.hdr /\ v.te /\ v.strm = u.strm - n /\ v.chk = << >>
        /\ (v.eos <=> u.strm - n = 0)
    <3> HIDE DEF toks
    <3> QED BY <1>1, <1>3, <2>1, <2>5 DEF Consumed, Ctrls
  <2>10. r \in Readings
    BY <1>1, <2>8, SentType, InBodyType
  <2> HIDE DEF p, v, r
  <2>11. After(r, c, << >>) = r
    BY <2>10, AfterNone
  <2>12. v.strm # NoStrm /\ (v.eos <=> n = u.strm) /\ (v.strm = 0 <=> n = u.strm)
    BY <2>2, <2>3, <2>9 DEF NoStrm
  <2> QED BY <1>0, <2>8, <2>9, <2>11, <2>12 DEF ReadTo, ChunksAt, p, v, r
<1>4. CASE ~u.te
  <2> DEFINE n == Slice1(u)
  <2>1. u.strm # NoStrm /\ u.strm > 0 /\ u.strm \in Int /\ StreamAt(c, u, s) /\ p = u
    BY <1>1, <1>4, MaxLenAssumption DEF ReadTo, Avail, Prepared, Ctrls, NoStrm
  <2>2. n \in 0 .. MaxLen /\ n <= u.strm /\ n \in Int
    BY <2>1, Slice1Type
  <2>3. s = InBody(c, "cl", u.strm) /\ u.rcnt \in Int
    BY <2>1 DEF StreamAt, Ctrls
  <2>4. Tok("data", n) \in Tokens /\ Offered(p) = <<Tok("data", n)>>
    BY <1>1, <1>4, <2>1, <2>2, MaxLenAssumption DEF Tok, Tokens, Offered
  <2> HIDE DEF n
  <2>5. r = IF n = u.strm THEN Sent(c) ELSE InBody(c, "cl", u.strm - n)
    <3>1. r = Receive(s, Entry(c, Tok("data", n)))
      BY <2>4, AfterOne
    <3> QED BY <2>1, <2>2, <2>3, <3>1, ReadsData
  <2>6. /\ v.resp /\ ~v.hdr /\ ~v.te /\ v.strm = u.strm - n /\ v.rcnt = u.rcnt + n
        /\ v.clen = u.clen
    BY <1>1, <1>4, <2>1 DEF Consumed, Ctrls, n
  <2> HIDE DEF p, v, r
  <2>7. v.strm # NoStrm /\ (v.strm = 0 <=> n = u.strm) /\ v.rcnt + v.strm = v.clen
    BY <2>1, <2>2, <2>3, <2>6 DEF NoStrm, StreamAt
  <2> QED BY <1>0, <2>5, <2>6, <2>7 DEF ReadTo, StreamAt, p, v, r
<1> QED BY <1>2, <1>3, <1>4

(* The transmit loop ends a controller when its response is behind the peer. *)
LEMMA EndIsSent ==
  ASSUME AppFits, NEW c \in Reqs, NEW u \in Ctrls, NEW s \in Readings, FrontAt(c, u, s),
         Avail(u) = "none" \/ (Avail(u) = "lack" /\ u.eos)
  PROVE  s = Sent(c)
<1>1. ReadTo(c, u, s)
  <2>1. Fresh(u) => u.resp /\ u.hdr
    BY FreshIs
  <2>2. u.hdr => Avail(u) = "some"
    BY DEF Avail
  <2> QED BY <2>1, <2>2 DEF FrontAt
<1>2. ~u.hdr /\ After(s, c, << >>) = s
  BY <1>1, AfterNone DEF ReadTo
<1>3. CASE u.te
  <2>1. u.chk = << >> /\ u.eos
    BY <1>2, <1>3 DEF Avail
  <2> QED BY <1>1, <1>2, <1>3, <2>1 DEF ReadTo, ChunksAt
<1>4. CASE ~u.te /\ u.strm = NoStrm
  BY <1>1, <1>2, <1>4 DEF Avail, ReadTo, ManualAt
<1>5. CASE ~u.te /\ u.strm # NoStrm
  <2>1. u.strm \in Int /\ u.strm >= -1 /\ ~(u.strm > 0)
    BY <1>2, <1>5, MaxLenAssumption DEF Avail, Ctrls, NoStrm
  <2>2. u.strm = 0
    BY <1>5, <2>1 DEF NoStrm
  <2> QED BY <1>1, <1>5, <2>2 DEF ReadTo, StreamAt
<1> QED BY <1>3, <1>4, <1>5

(* sendData() hands a piece to the socket.                                   *)
LEMMA DataSent ==
  ASSUME NEW c \in Reqs, NEW u \in Ctrls, NEW s \in Readings, ReadTo(c, u, s),
         ~u.te, u.strm = NoStrm, NEW len \in 0 .. MaxLen, len \in SendLens(u)
  PROVE  /\ ReadTo(c, Written(u, len, << >>), After(s, c, <<Tok("data", len)>>))
         /\ After(s, c, <<Tok("data", len)>>).ok
<1> DEFINE v == Written(u, len, << >>)
           r == After(s, c, <<Tok("data", len)>>)
<1>1. u.resp /\ ~u.hdr /\ ManualAt(c, u, s)
  BY DEF ReadTo
<1>2. len \in Nat /\ len # 0 /\ u.wcnt \in Nat /\ u.clen \in Int /\ ~u.eos
  BY MaxLenAssumption DEF SendLens, MaySend, Ctrls, Chunked
<1>3. u.wcnt + len <= u.clen
  BY <1>1, <1>2 DEF SendLens, MaySend, ManualAt, Chunked
<1>4. s = InBody(c, "cl", u.clen - u.wcnt)
  BY <1>1, <1>2 DEF ManualAt
<1>5. r = IF len = u.clen - u.wcnt THEN Sent(c) ELSE InBody(c, "cl", u.clen - u.wcnt - len)
  <2>1. Tok("data", len) \in Tokens
    BY MaxLenAssumption DEF Tok, Tokens
  <2>2. r = Receive(s, Entry(c, Tok("data", len)))
    BY <2>1, AfterOne
  <2>3. u.clen - u.wcnt \in Int /\ len \in Int /\ len <= u.clen - u.wcnt
    BY <1>2, <1>3
  <2> QED BY <1>4, <2>2, <2>3, ReadsData
<1>6. /\ v.resp /\ ~v.hdr /\ ~v.te /\ v.strm = NoStrm /\ v.wcnt = u.wcnt + len
      /\ v.clen = u.clen /\ (v.eos <=> u.wcnt + len = u.clen)
  BY <1>1, <1>2 DEF Written, Ctrls
<1> HIDE DEF v, r
<1>7. /\ len = u.clen - u.wcnt <=> v.wcnt = v.clen
      /\ u.clen - u.wcnt - len = v.clen - v.wcnt
  BY <1>2, <1>6
<1>8. ManualAt(c, v, r)
  BY <1>3, <1>5, <1>6, <1>7 DEF ManualAt
<1>9. r.ok
  BY <1>5 DEF Sent, InBody
<1> QED BY <1>6, <1>8, <1>9 DEF ReadTo, v, r

(* writeTec(): k pieces of the chunk leave, the others wait in mChkStrm,     *)
(* behind the pieces that wait there already.                                *)
LEMMA ChunkSent ==
  ASSUME NEW c \in Reqs, NEW u \in Ctrls, NEW s \in Readings, s.ok, ReadTo(c, u, s),
         u.te, u.strm = NoStrm, NEW len \in 0 .. MaxLen, len \in SendLens(u),
         NEW k \in 0 .. 3, k # 0 => u.chk = << >>
  PROVE  /\ ReadTo(c, Written(u, len, ChunkTail(len, k)), After(s, c, ChunkHead(len, k)))
         /\ After(s, c, ChunkHead(len, k)).ok
<1> DEFINE v == Written(u, len, ChunkTail(len, k))
           r == After(s, c, ChunkHead(len, k))
<1>1. u.resp /\ ~u.hdr /\ ChunksAt(c, u, s) /\ ~u.eos /\ u.chk \in Seq(Tokens)
  BY DEF ReadTo, SendLens, MaySend, Ctrls
<1>2. After(s, c, u.chk) = InBody(c, "size", 0)
  BY <1>1 DEF ChunksAt
<1>3. InBody(c, "size", 0) \in Readings
  BY InBodyType DEF Reqs
<1>4. /\ ChunkHead(len, k) \in Seq(Tokens) /\ ChunkTail(len, k) \in Seq(Tokens)
      /\ ChunkHead(len, k) \o ChunkTail(len, k) = Chunk(len)
      /\ k = 0 => ChunkHead(len, k) = << >>
  BY ChunkType, ChunkPieces
<1>5. /\ After(InBody(c, "size", 0), c, ChunkHead(len, k)).ok
      /\ After(InBody(c, "size", 0), c, ChunkHead(len, k)).n >= c - 1
      /\ After(InBody(c, "size", 0), c, Chunk(len)) = IF len = 0 THEN Sent(c) ELSE InBody(c, "size", 0)
  BY ChunkRead
<1>6. After(InBody(c, "size", 0), c, Chunk(len))
        = After(After(InBody(c, "size", 0), c, ChunkHead(len, k)), c, ChunkTail(len, k))
  <2> DEFINE b == InBody(c, "size", 0)
             h == ChunkHead(len, k)
             t == ChunkTail(len, k)
  <2>1. b \in Readings /\ h \in Seq(Tokens) /\ t \in Seq(Tokens) /\ Chunk(len) = h \o t
    BY <1>3, <1>4
  <2> HIDE DEF b, h, t
  <2>2. After(b, c, h \o t) = After(After(b, c, h), c, t)
    BY <2>1, AfterConcat
  <2> QED BY <2>1, <2>2 DEF b, h, t
<1>7. /\ v.resp /\ ~v.hdr /\ v.te /\ v.strm = NoStrm /\ v.chk = u.chk \o ChunkTail(len, k)
      /\ (v.eos <=> len = 0)
  BY <1>1 DEF Written, Ctrls
<1>8. r.ok /\ r.n >= c - 1 /\ After(r, c, u.chk \o ChunkTail(len, k)) = After(InBody(c, "size", 0), c, Chunk(len))
  <2>1. CASE k = 0
    <3>1. r = s
      BY <1>4, <2>1, AfterNone
    <3>2. After(s, c, u.chk \o ChunkTail(len, k)) = After(InBody(c, "size", 0), c, ChunkTail(len, k))
      BY <1>1, <1>2, <1>4, AfterConcat
    <3>3. After(InBody(c, "size", 0), c, ChunkHead(len, k)) = InBody(c, "size", 0)
      BY <1>3, <1>4, <2>1, AfterNone
    <3> QED BY <1>1, <1>6, <3>1, <3>2, <3>3 DEF ChunksAt
  <2>2. CASE k # 0
    <3>1. u.chk = << >> /\ s = InBody(c, "size", 0)
      BY <1>2, <2>2, AfterNone
    <3>2. u.chk \o ChunkTail(len, k) = ChunkTail(len, k)
      BY <1>4, <3>1, ConcatEmptySeq
    <3> QED BY <1>5, <1>6, <3>1, <3>2
  <2> QED BY <2>1, <2>2
<1> HIDE DEF v, r
<1>9. ChunksAt(c, v, r)
  BY <1>5, <1>7, <1>8 DEF ChunksAt
<1> QED BY <1>7, <1>8, <1>9 DEF ReadTo, v, r

-----------------------------------------------------------------------------
(* Steps.                                                                    *)

LEMMA ViewType ==
  ASSUME TypeOK
  PROVE  PeerView \in Readings
<1>1. wire \in Seq(Entries)
  BY DEF TypeOK, Entries
<1>2. Foldable(Readings, Entries, ReceiveF, Start, wire)
  BY <1>1, StartType, ReceiveFType DEF Foldable
<1> QED BY <1>1, <1>2, StartType, ReadingIsFold, FoldType DEF PeerView

LEMMA ViewSame == wire' = wire => PeerView' = PeerView
BY DEF PeerView

(* A step that leaves the wire, the list and the controllers alone.          *)
LEMMA FrameSame ==
  ASSUME FrameInv, UNCHANGED <<wire, nreq, ctrl, mCtrlList, cnn>>, asked' \subseteq asked,
         sock' # "broken" => sock # "broken"
  PROVE  FrameInv'
<1>1. PeerView' = PeerView /\ FrontCtrl' = FrontCtrl
  BY ViewSame DEF FrontCtrl
<1>2. BehindIsFresh => BehindIsFresh'
  BY <1>1 DEF BehindIsFresh
<1>3. PeerAtFront => PeerAtFront'
  BY <1>1 DEF PeerAtFront
<1>4. AskedAreFront'
  BY <1>1 DEF FrameInv, AskedAreFront
<1> QED BY <1>1, <1>2, <1>3, <1>4 DEF FrameInv

(* Only the front controller has changed, and the peer has read on.          *)
LEMMA FrameFront ==
  ASSUME IInv, BehindIsFresh, AskedAreFront, mCtrlList # << >>,
         NEW v, ctrl' = [ctrl EXCEPT ![FrontCtrl] = v],
         UNCHANGED <<nreq, mCtrlList, asked>>,
         PeerView'.ok, sock' # "broken" => FrontAt(FrontCtrl, v, PeerView')
  PROVE  FrameInv'
<1>1. FrontCtrl' = FrontCtrl /\ FrontCtrl \in Reqs /\ FrontCtrl <= nreq /\ nreq \in Nat
  <2>1. /\ Len(mCtrlList) \in 1 .. nreq /\ Head(mCtrlList) = FrontCtrl /\ FrontCtrl \in Reqs
        /\ nreq \in Nat
    BY FrontIs, NReqAssumption DEF IInv, TypeOK, FrontCtrl
  <2> QED BY <2>1 DEF FrontCtrl
<1>2. ctrl'[FrontCtrl] = v /\ \A c \in Reqs : c # FrontCtrl => ctrl'[c] = ctrl[c]
  BY <1>1 DEF IInv, TypeOK
<1>3. BehindIsFresh'
  <2> SUFFICES ASSUME NEW c \in Reqs, c > FrontCtrl \/ c > nreq PROVE Fresh(ctrl'[c])
    BY <1>1 DEF BehindIsFresh
  <2>1. c # FrontCtrl
    BY <1>1 DEF Reqs
  <2> QED BY <1>2, <2>1 DEF BehindIsFresh
<1>4. AskedAreFront'
  BY <1>1 DEF AskedAreFront
<1>5. sock' # "broken" => PeerAtFront'
  BY <1>1, <1>2 DEF PeerAtFront
<1> QED BY <1>3, <1>4, <1>5 DEF FrameInv

(* The front ends with its response behind the peer.                         *)
LEMMA FrameNext ==
  ASSUME IInv, AppFits, FrameInv, mCtrlList # << >>, EndCtrl(Head(mCtrlList)), cnn = "open",
         UNCHANGED <<nreq, wire, asked>>,
         sock' # "broken" => /\ sock # "broken" /\ UNCHANGED ctrl
                             /\ PeerView = Sent(FrontCtrl)
  PROVE  FrameInv'
<1>1. /\ Len(mCtrlList) \in 1 .. nreq /\ nreq \in Nat /\ Len(mCtrlList') = Len(mCtrlList) - 1
      /\ FrontCtrl' = FrontCtrl + 1 /\ FrontCtrl \in 1 .. nreq
  <2>1. Len(mCtrlList) \in 1 .. nreq /\ nreq \in Nat
    BY FrontIs, NReqAssumption DEF IInv, TypeOK
  <2>2. Len(mCtrlList') = Len(mCtrlList) - 1
    BY EndCtrlOrder DEF IInv
  <2> QED BY <2>1, <2>2 DEF FrontCtrl
<1>2. PeerView' = PeerView /\ nreq \in 0 .. NReq /\ mCtrlList' \in Seq(Reqs)
  <2>1. mCtrlList' \in Seq(Reqs)
    BY HeadTailProperties DEF EndCtrl, IInv, TypeOK
  <2> QED BY <2>1, ViewSame DEF IInv, TypeOK
<1>3. AskedAreFront'
  <2>1. \A c \in asked : c \in Nat
    BY DEF IInv, TypeOK, Reqs
  <2> QED BY <1>1, <2>1 DEF FrameInv, AskedAreFront
<1>4. ASSUME sock' # "broken" PROVE BehindIsFresh' /\ PeerAtFront'
  <2>1. BehindIsFresh /\ ctrl' = ctrl /\ PeerView = Sent(FrontCtrl)
    BY <1>4 DEF FrameInv
  <2>2. BehindIsFresh'
    BY <1>1, <2>1 DEF BehindIsFresh, Reqs
  <2>3. CASE mCtrlList' = << >>
    <3>1. Len(mCtrlList') = 0
      BY <2>3, EmptySeq
    <3>4. Len(mCtrlList) = 1
      BY <1>1, <3>1
    <3>2. FrontCtrl = nreq
      BY <1>1, <3>4 DEF FrontCtrl
    <3>3. PeerView' = Sent(nreq')
      BY <1>2, <2>1, <3>2
    <3> QED BY <2>2, <2>3, <3>3 DEF PeerAtFront
  <2>4. CASE mCtrlList' # << >>
    <3>1. Len(mCtrlList') # 0
      BY <1>2, <2>4, EmptySeq
    <3>4. Len(mCtrlList) \in 2 .. nreq
      BY <1>1, <3>1
    <3>5. FrontCtrl + 1 \in 1 .. nreq
      BY <1>1, <3>4 DEF FrontCtrl
    <3>2. FrontCtrl' \in Reqs /\ FrontCtrl' > FrontCtrl /\ FrontCtrl = FrontCtrl' - 1
      BY <1>1, <1>2, <3>5, NReqAssumption DEF Reqs
    <3>3. Fresh(ctrl'[FrontCtrl'])
      BY <2>1, <3>2 DEF BehindIsFresh
    <3> QED BY <1>2, <2>1, <2>2, <2>4, <3>2, <3>3 DEF PeerAtFront, FrontAt
  <2> QED BY <2>3, <2>4
<1> QED BY <1>2, <1>3, <1>4 DEF FrameInv

(* The peer is in the front response, or right before or behind it.          *)
LEMMA ReadsAreFront ==
  ASSUME NEW c \in Reqs, NEW u \in Ctrls, NEW s \in Readings, FrontAt(c, u, s)
  PROVE  s.n >= c - 1
<1>1. c \in Int
  BY DEF Reqs
<1>2. \A ph, m : InBody(c, ph, m).n >= c - 1 /\ Sent(c).n >= c - 1 /\ Sent(c - 1).n >= c - 1
  BY <1>1 DEF InBody, Sent
<1> QED BY <1>2 DEF FrontAt, ReadTo, ChunksAt, ManualAt, StreamAt

(* The loop's facts: it works on the front, which the peer has read up to.   *)
LEMMA FrontFacts ==
  ASSUME IInv, FrameInv, mCtrlList # << >>, cnn = "open"
  PROVE  /\ FrontCtrl \in Reqs /\ Head(mCtrlList) = FrontCtrl
         /\ ctrl[FrontCtrl] \in Ctrls /\ PeerView \in Readings /\ PeerView.ok
         /\ sock # "broken" => /\ BehindIsFresh
                               /\ FrontAt(FrontCtrl, ctrl[FrontCtrl], PeerView)
<1>1. FrontCtrl \in Reqs /\ Head(mCtrlList) = FrontCtrl
  BY FrontIs DEF IInv, FrontCtrl
<1>2. ctrl[FrontCtrl] \in Ctrls
  BY <1>1 DEF IInv, TypeOK
<1>3. PeerView \in Readings
  BY ViewType DEF IInv
<1> QED BY <1>1, <1>2, <1>3 DEF FrameInv, PeerAtFront

(* The front hands something to the socket: the header, or a piece.          *)
LEMMA FrontOffers ==
  ASSUME AppFits, NEW c \in Reqs, NEW u \in Ctrls, NEW s \in Readings, s.ok,
         FrontAt(c, u, s), Avail(u) = "some"
  PROVE  /\ After(s, c, Offered(Prepared(u))).ok
         /\ FrontAt(c, Consumed(Prepared(u)), After(s, c, Offered(Prepared(u))))
<1>1. CASE Fresh(u) /\ s = Sent(c - 1)
  <2>1. u.hdr
    BY <1>1, FreshIs
  <2> QED BY <1>1, <2>1, HeaderSent DEF FrontAt
<1>2. CASE ReadTo(c, u, s)
  BY <1>2, PieceSent DEF FrontAt
<1> QED BY <1>1, <1>2 DEF FrontAt

LEMMA TxSendFrame ==
  ASSUME IInv, AppFits, FrameInv, NEW r \in {"OK", "PENDING", "FAIL"}, TxSend(r),
         mCtrlList # << >>, cnn = "open", mRespCtrl = Head(mCtrlList)
  PROVE  FrameInv'
<1> DEFINE c == FrontCtrl
           u == ctrl[c]
<1>1. /\ c \in Reqs /\ Head(mCtrlList) = c /\ mRespCtrl = c
      /\ u \in Ctrls /\ PeerView \in Readings /\ PeerView.ok
      /\ sock # "broken" => BehindIsFresh /\ FrontAt(c, u, PeerView)
  BY FrontFacts
<1>2. nreq' = nreq /\ asked' = asked /\ Avail(u) = "some" /\ sock' = SockAfter(r)
  BY <1>1 DEF TxSend, reqVars
<1>3. CASE r = "FAIL"
  <2>1. sock' = "broken" /\ EndCtrl(Head(mCtrlList)) /\ wire' = wire
    BY <1>1, <1>2, <1>3 DEF TxSend, SockAfter
  <2> QED BY <1>2, <2>1, FrameNext
<1>4. CASE r # "FAIL"
  <2> DEFINE v == Consumed(Prepared(u))
             w == After(PeerView, c, Offered(Prepared(u)))
  <2>1. sock # "broken"
    BY <1>4 DEF TxSend, SendResults
  <2>2. /\ ctrl' = [ctrl EXCEPT ![c] = v] /\ wire' = wire \o OnWire(c, Offered(Prepared(u)))
        /\ mCtrlList' = mCtrlList
    BY <1>1, <1>4 DEF TxSend, listVars
  <2>3. w.ok /\ FrontAt(c, v, w)
    BY <1>1, <1>2, <2>1, FrontOffers
  <2>4. Offered(Prepared(u)) \in Seq(Tokens)
    BY <1>1, <1>2, SendType
  <2>5. PeerView' = w
    BY <1>1, <2>2, <2>4, WireAfter DEF IInv
  <2> HIDE DEF v, w, u
  <2>6. PeerView'.ok /\ FrontAt(c, v, PeerView')
    BY <2>3, <2>5
  <2> QED BY <1>1, <1>2, <2>1, <2>2, <2>6, FrameFront DEF FrameInv
<1> QED BY <1>3, <1>4

(* The transmit loop.                                                        *)
LEMMA TxFrame ==
  ASSUME IInv, AppFits, FrameInv, Tx
  PROVE  FrameInv'
<1>1. mCtrlList # << >> /\ cnn = "open" /\ mRespCtrl = Head(mCtrlList) /\ pc = "tx"
  BY DEF IInv, NoDanglingCtrl, TxAtFront, HandlerIsOpen, Tx, TxBlocked, TxSend, TxDone, TxLack
<1>2. /\ FrontCtrl \in Reqs /\ mRespCtrl = FrontCtrl
      /\ ctrl[FrontCtrl] \in Ctrls /\ PeerView \in Readings
      /\ sock # "broken" => FrontAt(FrontCtrl, ctrl[FrontCtrl], PeerView)
  BY <1>1, FrontFacts
<1>3. CASE TxBlocked
  BY <1>3, FrameSame DEF TxBlocked, reqVars, listVars, endVars
<1>4. ASSUME NEW r \in {"OK", "PENDING", "FAIL"}, TxSend(r) PROVE FrameInv'
  BY <1>1, <1>4, TxSendFrame
<1>5. ASSUME EndCtrl(mRespCtrl), UNCHANGED <<nreq, wire, asked, ctrl, sock>>,
             Avail(ctrl[mRespCtrl]) = "none"
             \/ (Avail(ctrl[mRespCtrl]) = "lack" /\ ctrl[mRespCtrl].eos)
      PROVE  FrameInv'
  <2>1. sock # "broken" => PeerView = Sent(FrontCtrl)
    BY <1>2, <1>5, EndIsSent
  <2> QED BY <1>1, <1>5, <2>1, FrameNext
<1>6. CASE TxDone
  BY <1>5, <1>6 DEF TxDone, reqVars
<1>7. CASE TxLack
  <2>1. CASE ctrl[mRespCtrl].eos
    BY <1>5, <1>7, <2>1 DEF TxLack, reqVars
  <2>2. CASE ~ctrl[mRespCtrl].eos
    <3>1. /\ UNCHANGED <<wire, nreq, ctrl, mCtrlList, cnn, sock>>
          /\ asked' = asked \cup {FrontCtrl}
      BY <1>2, <1>7, <2>2 DEF TxLack, reqVars, listVars, endVars
    <3>2. PeerView' = PeerView /\ FrontCtrl' = FrontCtrl
      BY <3>1, ViewSame DEF FrontCtrl
    <3>3. BehindIsFresh => BehindIsFresh'
      BY <3>1, <3>2 DEF BehindIsFresh
    <3>4. PeerAtFront => PeerAtFront'
      BY <3>1, <3>2 DEF PeerAtFront
    <3>5. AskedAreFront'
      <4>1. FrontCtrl <= FrontCtrl
        BY <1>2 DEF Reqs
      <4> QED BY <3>1, <3>2, <4>1 DEF FrameInv, AskedAreFront
    <3> QED BY <3>1, <3>2, <3>3, <3>4, <3>5 DEF FrameInv
  <2> QED BY <2>1, <2>2
<1> QED BY <1>3, <1>4, <1>6, <1>7 DEF Tx

(* A controller in the list is the front or behind it.                       *)
LEMMA LiveIsBehind ==
  ASSUME IInv, NEW c \in Reqs, Live(c)
  PROVE  mCtrlList # << >> /\ FrontCtrl <= c /\ c <= nreq
<1>1. mCtrlList \in Seq(Reqs) /\ nreq \in Nat
  BY NReqAssumption DEF IInv, TypeOK
<1>2. PICK i \in DOMAIN mCtrlList : mCtrlList[i] = c
  BY DEF Live
<1>3. Len(mCtrlList) \in Nat /\ i \in 1 .. Len(mCtrlList)
  BY <1>1, <1>2, LenProperties
<1>4. c = nreq - Len(mCtrlList) + i
  BY <1>2 DEF IInv, EndedInOrder
<1>5. mCtrlList # << >>
  BY <1>3, EmptySeq
<1> QED BY <1>1, <1>3, <1>4, <1>5 DEF FrontCtrl

(* sendData() of an application that waits to be asked.                      *)
LEMMA SendDataFrame ==
  ASSUME IInv, HdrGone, ~EagerSend, AppFits, FrameInv,
         NEW d \in Reqs, NEW len \in 0 .. MaxLen, SendData(d, len)
  PROVE  FrameInv'
<1> DEFINE c == FrontCtrl
           u == ctrl[c]
<1>1. /\ cnn = "open" /\ Live(d) /\ d \in asked /\ ctrl[d].resp /\ ctrl[d].strm = NoStrm
      /\ len \in SendLens(ctrl[d]) /\ ~ctrl[d].hdr
      /\ UNCHANGED <<nreq, mCtrlList, asked, cnn>>
  BY DEF SendData, HdrGone, reqVars, listVars, endVars
<1>2. mCtrlList # << >> /\ c <= d
  BY <1>1, LiveIsBehind
<1>3. /\ c \in Reqs /\ Head(mCtrlList) = c
      /\ u \in Ctrls /\ PeerView \in Readings /\ PeerView.ok
      /\ sock # "broken" => BehindIsFresh /\ FrontAt(c, u, PeerView)
  BY <1>1, <1>2, FrontFacts
<1>4. d = c
  <2>1. d <= c
    BY <1>1 DEF FrameInv, AskedAreFront
  <2> QED BY <1>2, <1>3, <2>1 DEF Reqs
<1>5. sock # "broken" => ReadTo(c, u, PeerView)
  <2>1. Fresh(u) => u.hdr
    BY <1>1, <1>4, FreshIs
  <2> QED BY <1>1, <1>3, <1>4, <2>1 DEF FrontAt
<1>6. ASSUME NEW v, NEW toks \in Seq(Tokens), sock # "broken",
             ctrl' = [ctrl EXCEPT ![c] = v], wire' = wire \o OnWire(c, toks),
             After(PeerView, c, toks).ok, ReadTo(c, v, After(PeerView, c, toks))
      PROVE  FrameInv'
  <2> HIDE DEF u, c
  <2>1. PeerView' = After(PeerView, c, toks)
    BY <1>3, <1>6, WireAfter DEF IInv
  <2>2. PeerView'.ok /\ FrontAt(c, v, PeerView')
    BY <1>6, <2>1 DEF FrontAt
  <2> QED BY <1>1, <1>2, <1>3, <1>6, <2>2, FrameFront DEF FrameInv, c
<1>7. ASSUME sock' = "broken", wire' = wire PROVE FrameInv'
  <2>1. PeerView' = PeerView /\ FrontCtrl' = FrontCtrl
    BY <1>1, <1>7, ViewSame DEF FrontCtrl
  <2> QED BY <1>1, <1>7, <2>1 DEF FrameInv, AskedAreFront
<1>8. ASSUME NEW r \in {"OK", "PENDING", "FAIL"}, SendPlain(d, len, r) PROVE FrameInv'
  <2>1. CASE r = "FAIL"
    <3>1. /\ UNCHANGED <<wire, ctrl>>
          /\ sock' # "broken" => sock # "broken"
      BY <1>8, <2>1 DEF SendPlain, SockAfter
    <3> QED BY <1>1, <3>1, FrameSame
  <2>2. CASE r # "FAIL"
    <3>1. Direct(c) /\ sock # "broken" /\ ~u.te
          /\ ctrl' = [ctrl EXCEPT ![c] = Written(u, len, << >>)]
          /\ wire' = wire \o OnWire(c, <<Tok("data", len)>>)
      BY <1>4, <1>8, <2>2 DEF SendPlain, SendResults
    <3>2. Tok("data", len) \in Tokens /\ <<Tok("data", len)>> \in Seq(Tokens)
      BY MaxLenAssumption DEF Tok, Tokens
    <3>3. /\ ReadTo(c, Written(u, len, << >>), After(PeerView, c, <<Tok("data", len)>>))
          /\ After(PeerView, c, <<Tok("data", len)>>).ok
      BY <1>1, <1>3, <1>4, <1>5, <3>1, DataSent
    <3> QED BY <1>6, <3>1, <3>2, <3>3
  <2> QED BY <2>1, <2>2
<1>9. ASSUME NEW k \in 0 .. 3, NEW r \in {"OK", "PENDING", "FAIL"}, SendTec(d, len, k, r)
      PROVE  FrameInv'
  <2>1. /\ u.te /\ ctrl' = [ctrl EXCEPT ![c] = Written(u, len, ChunkTail(len, k))]
        /\ wire' = wire \o OnWire(c, ChunkHead(len, k))
        /\ k # 0 => u.chk = << >>
        /\ sock = "broken" => k = 0 /\ sock' = "broken"
    <3>1. /\ u.te /\ ctrl' = [ctrl EXCEPT ![c] = Written(u, len, ChunkTail(len, k))]
          /\ wire' = wire \o OnWire(c, ChunkHead(len, k))
          /\ k # 0 => u.chk = << >>
      BY <1>4, <1>9 DEF SendTec
    <3>2. sock = "broken" => k = 0 /\ sock' = "broken"
      BY <1>4, <1>9 DEF SendTec, SendResults, SockAfter
    <3> QED BY <3>1, <3>2
  <2>2. CASE sock # "broken"
    <3>1. /\ ReadTo(c, Written(u, len, ChunkTail(len, k)), After(PeerView, c, ChunkHead(len, k)))
          /\ After(PeerView, c, ChunkHead(len, k)).ok
      BY <1>1, <1>3, <1>4, <1>5, <2>1, <2>2, ChunkSent
    <3>2. ChunkHead(len, k) \in Seq(Tokens)
      BY ChunkType
    <3> QED BY <1>6, <2>1, <2>2, <3>1, <3>2
  <2>3. CASE sock = "broken"
    <3>1. ChunkHead(len, k) = << >>
      BY <2>1, <2>3 DEF ChunkHead
    <3>2. OnWire(c, << >>) = << >>
      <4>1. OnWire(c, << >>) \in Seq([c : Reqs, tok : Tokens]) /\ Len(OnWire(c, << >>)) = 0
        BY <1>3, OnWireType, EmptySeq
      <4> QED BY <4>1, EmptySeq
    <3>3. wire' = wire
      BY <2>1, <3>1, <3>2, ConcatEmptySeq DEF IInv, TypeOK
    <3> QED BY <1>7, <2>1, <2>3, <3>3
  <2> QED BY <2>2, <2>3
<1> QED BY <1>8, <1>9 DEF SendData

(* A request arrives: its controller is fresh, also when it is the front.    *)
LEMMA RecvHdrFrame ==
  ASSUME IInv, FrameInv, NEW msgonly \in BOOLEAN, RecvHdr(msgonly)
  PROVE  FrameInv'
<1>1. /\ nreq \in Nat /\ nreq + 1 \in Reqs /\ nreq' = nreq + 1 /\ mCtrlList \in Seq(Reqs)
      /\ mCtrlList' = Append(mCtrlList, nreq + 1)
      /\ UNCHANGED <<ctrl, wire, asked, sock>> /\ cnn = "open"
  BY NReqAssumption DEF IInv, TypeOK, RecvHdr, Reqs, endVars
<1>2. /\ Len(mCtrlList) \in Nat /\ Len(mCtrlList') = Len(mCtrlList) + 1
      /\ mCtrlList' # << >>
  BY <1>1, AppendProperties, LenProperties
<1>3. FrontCtrl' = FrontCtrl /\ PeerView' = PeerView
  BY <1>1, <1>2, ViewSame DEF FrontCtrl
<1>4. BehindIsFresh => BehindIsFresh'
  BY <1>1, <1>3 DEF BehindIsFresh, Reqs
<1>5. BehindIsFresh /\ PeerAtFront => PeerAtFront'
  <2>1. CASE mCtrlList = << >>
    <3>1. FrontCtrl = nreq + 1
      BY <1>1, <2>1, EmptySeq DEF FrontCtrl
    <3>2. BehindIsFresh => Fresh(ctrl[FrontCtrl])
      <4>1. FrontCtrl \in Reqs /\ FrontCtrl > nreq
        BY <1>1, <3>1
      <4> QED BY <4>1 DEF BehindIsFresh
    <3>3. PeerAtFront => PeerView = Sent(FrontCtrl - 1)
      BY <1>1, <2>1, <3>1 DEF PeerAtFront
    <3> QED BY <1>1, <1>2, <1>3, <3>2, <3>3 DEF PeerAtFront, FrontAt
  <2>2. CASE mCtrlList # << >>
    BY <1>1, <1>2, <1>3, <2>2 DEF PeerAtFront
  <2> QED BY <2>1, <2>2
<1>6. AskedAreFront'
  BY <1>1, <1>3 DEF FrameInv, AskedAreFront
<1> QED BY <1>1, <1>3, <1>4, <1>5, <1>6 DEF FrameInv

(* The application responds: the controller is fresh and stays so.           *)
LEMMA ResponseFrame ==
  ASSUME IInv, AppFits, FrameInv, NEW c \in Reqs, NEW s \in AppShapes, Response(c, s)
  PROVE  FrameInv'
<1>1. /\ UNCHANGED <<nreq, mCtrlList, wire, sock>> /\ asked' = asked \ {c} /\ cnn = "open"
      /\ ~ctrl[c].resp /\ Live(c) /\ ctrl' = [ctrl EXCEPT ![c] = Responded(ctrl[c], s)]
  BY DEF Response, reqVars, listVars, endVars
<1>2. mCtrlList # << >> /\ FrontCtrl <= c
  BY <1>1, LiveIsBehind
<1>3. /\ FrontCtrl \in Reqs
      /\ sock # "broken" => BehindIsFresh /\ FrontAt(FrontCtrl, ctrl[FrontCtrl], PeerView)
  BY <1>1, <1>2, FrontFacts
<1>4. FrontCtrl' = FrontCtrl /\ PeerView' = PeerView
  BY <1>1, ViewSame DEF FrontCtrl
<1>5. /\ ctrl'[c] = Responded(ctrl[c], s) /\ \A d \in Reqs : d # c => ctrl'[d] = ctrl[d]
  BY <1>1 DEF IInv, TypeOK
<1>6. ASSUME sock # "broken" PROVE BehindIsFresh' /\ PeerAtFront'
  <2>1. Fresh(ctrl[c]) /\ (c = FrontCtrl => PeerView = Sent(c - 1))
    <3>1. CASE c = FrontCtrl
      BY <1>1, <1>3, <1>6, <3>1 DEF FrontAt, ReadTo
    <3>2. CASE c # FrontCtrl
      <4>1. c > FrontCtrl
        BY <1>2, <1>3, <3>2 DEF Reqs
      <4> QED BY <1>3, <1>6, <3>2, <4>1 DEF BehindIsFresh
    <3> QED BY <3>1, <3>2
  <2>2. Fresh(ctrl'[c])
    <3>1. ctrl[c] = NewCtrl
      BY <1>1, <2>1, FreshIs
    <3> QED BY <1>5, <3>1 DEF Fresh
  <2>3. BehindIsFresh'
    <3> SUFFICES ASSUME NEW d \in Reqs, d > FrontCtrl \/ d > nreq PROVE Fresh(ctrl'[d])
      BY <1>1, <1>4 DEF BehindIsFresh
    <3>1. CASE d = c
      BY <2>2, <3>1
    <3>2. CASE d # c
      BY <1>3, <1>5, <1>6, <3>2 DEF BehindIsFresh
    <3> QED BY <3>1, <3>2
  <2>4. FrontAt(FrontCtrl, ctrl'[FrontCtrl], PeerView)
    <3>1. CASE c = FrontCtrl
      BY <2>1, <2>2, <3>1 DEF FrontAt
    <3>2. CASE c # FrontCtrl
      BY <1>3, <1>5, <1>6, <3>2
    <3> QED BY <3>1, <3>2
  <2> QED BY <1>1, <1>2, <1>4, <2>3, <2>4 DEF PeerAtFront
<1>7. AskedAreFront'
  BY <1>1, <1>4 DEF FrameInv, AskedAreFront
<1> QED BY <1>1, <1>4, <1>6, <1>7 DEF FrameInv

(* close(): what is left ends, and only the wire matters from then on.       *)
LEMMA CloseFrame ==
  ASSUME IInv, FrameInv, NEW how \in {"closed", "freed"}, ClosedAs(how)
  PROVE  FrameInv'
<1>1. /\ nreq' = nreq /\ nreq \in Nat /\ mCtrlList' = << >> /\ wire' = wire /\ asked' = asked
      /\ cnn' # "open" /\ Len(mCtrlList') = 0 /\ Len(mCtrlList) \in Nat
  BY EmptySeq, LenProperties DEF IInv, TypeOK, ClosedAs, Close, reqVars
<1>2. PeerView' = PeerView /\ FrontCtrl' = nreq + 1 /\ FrontCtrl <= nreq + 1
      /\ FrontCtrl \in Int
  BY <1>1, ViewSame DEF FrontCtrl
<1>3. AskedAreFront'
  <2>1. \A c \in asked : c \in Nat
    BY DEF IInv, TypeOK, Reqs
  <2> QED BY <1>1, <1>2, <2>1 DEF FrameInv, AskedAreFront
<1> QED BY <1>1, <1>2, <1>3 DEF FrameInv

-----------------------------------------------------------------------------
(* The theorems.                                                             *)

LEMMA InitFrame == Init => FrameInv
<1> SUFFICES ASSUME Init PROVE FrameInv
  OBVIOUS
<1>1. /\ nreq = 0 /\ mCtrlList = << >> /\ asked = {} /\ wire = << >>
      /\ ctrl = [c \in Reqs |-> NewCtrl]
  BY DEF Init
<1>2. PeerView = Sent(0)
  <2>1. << >> \in Seq(Entries) /\ Start \in Readings
    BY StartType, EmptySeq
  <2>2. Foldable(Readings, Entries, ReceiveF, Start, << >>)
    BY <2>1, ReceiveFType DEF Foldable
  <2>3. FoldLeft(ReceiveOnce, Start, << >>) = Start
    BY <2>1, <2>2, ReadingIsFold, FoldEmpty
  <2> QED BY <1>1, <2>3 DEF PeerView, Start
<1>3. Sent(0).ok
  BY DEF Sent
<1> QED BY <1>1, <1>2, <1>3 DEF FrameInv, AskedAreFront, BehindIsFresh, PeerAtFront, Fresh

LEMMA StepFrame ==
  ASSUME ~EagerSend, AppFits
  PROVE  IInv /\ HdrGone /\ FrameInv /\ [Next]_vars => FrameInv'
<1> SUFFICES ASSUME IInv, HdrGone, FrameInv, [Next]_vars PROVE FrameInv'
  OBVIOUS
<1>1. ASSUME UNCHANGED <<wire, nreq, ctrl, mCtrlList, cnn, asked>>,
             sock' # "broken" => sock # "broken"
      PROVE  FrameInv'
  BY <1>1, FrameSame
<1>2. ASSUME NEW msgonly \in BOOLEAN, RecvHdr(msgonly) PROVE FrameInv'
  BY <1>2, RecvHdrFrame
<1>3. ASSUME NEW dataend \in BOOLEAN, NEW refused \in BOOLEAN, RecvData(dataend, refused)
      PROVE  FrameInv'
  BY <1>1, <1>3 DEF RecvData, listVars
<1>4. CASE CallbackReturns
  BY <1>1, <1>4 DEF CallbackReturns, listVars, endVars
<1>5. ASSUME NEW c \in Reqs, NEW s \in AppShapes, Response(c, s) PROVE FrameInv'
  BY <1>5, ResponseFrame
<1>6. CASE Tx
  BY <1>6, TxFrame
<1>7. CASE ReadyReturns
  BY <1>1, <1>7 DEF ReadyReturns, reqVars, listVars, endVars
<1>8. ASSUME NEW c \in Reqs, NEW len \in 0 .. MaxLen, SendData(c, len) PROVE FrameInv'
  BY <1>8, SendDataFrame
<1>9. CASE Writable
  BY <1>1, <1>9 DEF Writable, reqVars, listVars, endVars
<1>10. ASSUME NEW how \in {"closed", "freed"}, ClosedAs(how) PROVE FrameInv'
  BY <1>10, CloseFrame
<1>11. CASE TimerTick
  BY <1>1, <1>11 DEF TimerTick, reqVars, listVars, endVars
<1>12. CASE PeerDown
  BY <1>1, <1>12 DEF PeerDown, reqVars, listVars
<1>13. CASE UNCHANGED vars
  BY <1>1, <1>13 DEF vars
<1> QED
  BY <1>2, <1>3, <1>4, <1>5, <1>6, <1>7, <1>8, <1>9, <1>10, <1>11, <1>12, <1>13
  DEF Next, Disconnect, Disconnected, Timeout

(* The whole invariant of the connection, for an application that answers    *)
(* consistently and sends when it was asked.                                 *)
THEOREM FramingInvariance ==
  ASSUME ~EagerSend, AppFits
  PROVE  Spec => [](IInv /\ HdrGone /\ FrameInv)
<1>1. Init => HdrGone
  BY DEF Init, HdrGone
<1>2. IInv /\ HdrGone /\ [Next]_vars => HdrGone'
  BY StepHdrGone
<1> QED BY <1>1, <1>2, InitFrame, StepFrame, InitIInv, StepIInv, PTL DEF Spec

(* The peer can read every response: whichever of the transmit loop,         *)
(* sendData() and the pieces left in mChkStrm writes, and wherever the       *)
(* socket stops taking, the header, the chunks and the announced length of   *)
(* one response are complete before the next response begins.                *)
THEOREM Framing ==
  ASSUME ~EagerSend, AppFits
  PROVE  Spec => []ResponsesWellFramed
<1>1. FrameInv => ResponsesWellFramed
  BY DEF FrameInv, ResponsesWellFramed
<1> QED BY <1>1, FramingInvariance, PTL

(* OnHttpEnd() on a living socket says that the whole response was handed    *)
(* to it: nothing is cut by ending the controller.                           *)
THEOREM EndsWhole ==
  ASSUME ~EagerSend, AppFits
  PROVE  Spec => []EndedMeansSent
<1>1. IInv /\ FrameInv => EndedMeansSent
  <2> SUFFICES ASSUME IInv, FrameInv, cnn = "open", sock # "broken",
                      NEW c \in Reqs, ended[c] > 0
               PROVE  PeerView.n >= c
    BY DEF EndedMeansSent, Whole
  <2>1. c <= nreq - Len(mCtrlList) /\ c \in Nat
    BY DEF IInv, EndedInOrder, Reqs
  <2>2. nreq \in Nat /\ mCtrlList \in Seq(Reqs) /\ Len(mCtrlList) \in Nat
    BY NReqAssumption, LenProperties DEF IInv, TypeOK
  <2>3. CASE mCtrlList = << >>
    <3>1. PeerView = Sent(nreq)
      BY <2>3 DEF FrameInv, PeerAtFront
    <3>2. PeerView.n = nreq
      BY <3>1 DEF Sent
    <3> QED BY <2>1, <2>2, <3>2
  <2>4. CASE mCtrlList # << >>
    <3>1. FrontCtrl \in Reqs /\ FrontAt(FrontCtrl, ctrl[FrontCtrl], PeerView)
          /\ ctrl[FrontCtrl] \in Ctrls /\ PeerView \in Readings
      BY <2>4, FrontFacts
    <3>2. PeerView.n >= FrontCtrl - 1 /\ PeerView.n \in Int
      BY <3>1, ReadsAreFront DEF Readings
    <3> QED BY <2>1, <2>2, <3>1, <3>2 DEF FrontCtrl, Reqs
  <2> QED BY <2>3, <2>4
<1> QED BY <1>1, FramingInvariance, PTL

-----------------------------------------------------------------------------
(* Nothing is stranded: the loop only rests when the front controller has    *)
(* nothing to send.                                                          *)

(* Nothing is there and the response is not over.                            *)
Starved(u) == Avail(u) = "lack" /\ ~u.eos

FrontStarved == mCtrlList # << >> => Starved(ctrl[FrontCtrl])

(* A peer that waits for each response has at most one controller listed.    *)
(* On a socket that takes data the loop leaves that controller without data; *)
(* while it is called back, a write that was taken has reset mPauseSend.     *)
FrontRests ==
  /\ pc \in {"idle", "hdr", "msg"} => FrontStarved
  /\ pc = "ready" => /\ Avail(ctrl[FrontCtrl]) = "lack"
                     /\ mPauseSend => FrontStarved

UnallocatedIsNew == \A c \in Reqs : c > nreq => ctrl[c] = NewCtrl

RestInv ==
  /\ UnallocatedIsNew
  /\ Len(mCtrlList) <= 1
  /\ cnn = "open" /\ sock = "writable" => FrontRests

(* A starved controller's response is not over for the peer either.          *)
LEMMA StarvedIsOpen ==
  ASSUME AppFits, NEW c \in Reqs, NEW u \in Ctrls, NEW s \in Readings, FrontAt(c, u, s),
         Starved(u)
  PROVE  s.n < c
<1>1. c \in Int /\ \A ph, n : InBody(c, ph, n).n = c - 1
  BY DEF Reqs, InBody
<1>2. CASE Fresh(u) /\ s = Sent(c - 1)
  BY <1>1, <1>2 DEF Sent
<1>3. CASE ReadTo(c, u, s)
  <2>1. ~u.hdr /\ ~u.eos /\ u.strm = NoStrm /\ (u.te => u.chk = << >>)
    BY <1>3 DEF ReadTo, Starved, Avail
  <2>2. CASE u.te
    <3>1. After(s, c, << >>) = s
      BY AfterNone
    <3>2. s = InBody(c, "size", 0)
      BY <1>3, <2>1, <2>2, <3>1 DEF ReadTo, ChunksAt
    <3> QED BY <1>1, <3>2
  <2>3. CASE ~u.te
    <3>1. s = InBody(c, "cl", u.clen - u.wcnt)
      BY <1>3, <2>1, <2>3 DEF ReadTo, ManualAt
    <3> QED BY <1>1, <3>1
  <2> QED BY <2>2, <2>3
<1> QED BY <1>2, <1>3 DEF FrontAt

(* A peer that waits sends its next request when no controller is listed.    *)
LEMMA WaitingPeerFindsNone ==
  ASSUME AppFits, ~Pipelined, IInv, FrameInv, RestInv, NEW msgonly \in BOOLEAN, RecvHdr(msgonly)
  PROVE  mCtrlList = << >>
<1> SUFFICES ASSUME mCtrlList # << >> PROVE FALSE
  OBVIOUS
<1>1. pc = "idle" /\ cnn = "open" /\ sock = "writable" /\ PeerView.n >= nreq
  BY DEF RecvHdr, Whole
<1>2. /\ FrontCtrl \in Reqs /\ ctrl[FrontCtrl] \in Ctrls /\ PeerView \in Readings
      /\ FrontAt(FrontCtrl, ctrl[FrontCtrl], PeerView)
  BY <1>1, FrontFacts
<1>3. Starved(ctrl[FrontCtrl])
  BY <1>1 DEF RestInv, FrontRests, FrontStarved
<1>4. PeerView.n < FrontCtrl
  BY <1>2, <1>3, StarvedIsOpen
<1>5. FrontCtrl <= nreq /\ nreq \in Nat
  <2>1. Len(mCtrlList) \in 1 .. nreq /\ nreq \in Nat
    BY FrontIs, NReqAssumption DEF IInv, TypeOK
  <2> QED BY <2>1 DEF FrontCtrl
<1>6. PeerView.n \in Int /\ FrontCtrl \in Int
  BY <1>2 DEF Readings, Reqs
<1> QED BY <1>1, <1>4, <1>5, <1>6

LEMMA RecvHdrRests ==
  ASSUME AppFits, ~Pipelined, IInv, FrameInv, RestInv, NEW msgonly \in BOOLEAN, RecvHdr(msgonly)
  PROVE  RestInv'
<1>1. mCtrlList = << >>
  BY WaitingPeerFindsNone
<1>2. /\ mCtrlList' = Append(mCtrlList, nreq + 1) /\ nreq' = nreq + 1 /\ ctrl' = ctrl
      /\ sock = "writable" /\ cnn = "open" /\ pc' # "ready" /\ nreq + 1 \in Reqs /\ nreq \in Nat
  BY NReqAssumption DEF RecvHdr, IInv, TypeOK, Reqs
<1>3. Len(mCtrlList) = 0 /\ Len(mCtrlList') = 1 /\ FrontCtrl = nreq + 1 /\ FrontCtrl' = nreq + 1
  <2>1. Len(mCtrlList) = 0 /\ Len(mCtrlList') = 1
    BY <1>1, <1>2, EmptySeq
  <2> QED BY <1>2, <2>1 DEF FrontCtrl
<1>4. ctrl[nreq + 1] = NewCtrl
  BY <1>2 DEF RestInv, UnallocatedIsNew
<1>5. Starved(NewCtrl)
  BY DEF Starved, Avail, NewCtrl, NoStrm
<1>6. UnallocatedIsNew'
  BY <1>2 DEF RestInv, UnallocatedIsNew, Reqs
<1> QED BY <1>2, <1>3, <1>4, <1>5, <1>6 DEF RestInv, FrontRests, FrontStarved

(* A step that leaves the list and the controllers alone, and stays outside  *)
(* the loop or where it was in it.                                           *)
LEMMA RestSame ==
  ASSUME RestInv, UNCHANGED <<ctrl, nreq, mCtrlList>>,
         cnn' = "open" /\ sock' = "writable" => FrontRests'
  PROVE  RestInv'
BY DEF RestInv, UnallocatedIsNew

LEMMA RestFront ==
  ASSUME RestInv, UNCHANGED <<ctrl, nreq, mCtrlList>>
  PROVE  /\ FrontStarved => FrontStarved'
         /\ FrontCtrl' = FrontCtrl /\ ctrl'[FrontCtrl'] = ctrl[FrontCtrl]
BY DEF FrontStarved, FrontCtrl

(* A controller in the list has been allocated.                              *)
LEMMA FrontChanges ==
  ASSUME IInv, UnallocatedIsNew, NEW c \in Reqs, c <= nreq, NEW v,
         ctrl' = [ctrl EXCEPT ![c] = v], nreq' = nreq
  PROVE  UnallocatedIsNew'
<1>1. nreq \in Nat /\ c \in Nat /\ \A d \in Reqs : d # c => ctrl'[d] = ctrl[d]
  BY NReqAssumption DEF IInv, TypeOK, Reqs
<1> QED BY <1>1 DEF UnallocatedIsNew

(* The front ends: nothing is listed.                                        *)
LEMMA LastEnds ==
  ASSUME IInv, RestInv, mCtrlList # << >>, EndCtrl(Head(mCtrlList)), nreq' = nreq,
         UnallocatedIsNew', pc' # "ready"
  PROVE  RestInv'
<1>1. Len(mCtrlList) \in 1 .. nreq /\ Len(mCtrlList') = Len(mCtrlList) - 1
  BY FrontIs, EndCtrlOrder DEF IInv
<1>2. mCtrlList' \in Seq(Reqs)
  BY <1>1, FrontIs, EndCtrlType DEF IInv
<1>3. Len(mCtrlList') = 0
  BY <1>1 DEF RestInv
<1>4. mCtrlList' = << >>
  BY <1>2, <1>3, EmptySeq
<1> QED BY <1>3, <1>4 DEF RestInv, FrontRests, FrontStarved

(* The transmit loop leaves a starved controller, or a socket that does not  *)
(* take any more.                                                            *)
LEMMA TxRests ==
  ASSUME IInv, RestInv, Tx
  PROVE  RestInv'
<1>1. mCtrlList # << >> /\ mRespCtrl = Head(mCtrlList) /\ pc = "tx"
  BY DEF IInv, NoDanglingCtrl, TxAtFront, Tx, TxBlocked, TxSend, TxDone, TxLack
<1>2. /\ mRespCtrl = FrontCtrl /\ FrontCtrl \in Reqs /\ FrontCtrl <= nreq
      /\ ret \in {"idle", "hdr", "msg"} /\ nreq \in Nat
  <2>1. /\ Len(mCtrlList) \in 1 .. nreq /\ Head(mCtrlList) = FrontCtrl /\ FrontCtrl \in Reqs
        /\ nreq \in Nat /\ ret \in {"idle", "hdr", "msg"}
    BY <1>1, FrontIs, NReqAssumption DEF IInv, TypeOK, FrontCtrl
  <2> QED BY <1>1, <2>1 DEF FrontCtrl
<1>3. CASE TxBlocked
  <2>1. /\ UNCHANGED <<ctrl, nreq, mCtrlList, sock>> /\ sock # "writable"
    BY <1>3 DEF TxBlocked, reqVars, listVars, IsWritable
  <2> QED BY <2>1, RestSame
<1>4. ASSUME NEW r \in {"OK", "PENDING", "FAIL"}, TxSend(r) PROVE RestInv'
  <2>1. /\ nreq' = nreq
        /\ \E v : ctrl' = [ctrl EXCEPT ![FrontCtrl] = v]
        /\ r = "OK" => sock' = "writable" /\ pc' = "tx"
        /\ r # "OK" => sock' # "writable" /\ pc' # "ready"
        /\ r = "FAIL" => EndCtrl(Head(mCtrlList))
        /\ r # "FAIL" => mCtrlList' = mCtrlList
    BY <1>1, <1>2, <1>4 DEF TxSend, reqVars, listVars, SockAfter, LeaveTx
  <2>2. UnallocatedIsNew'
    BY <1>2, <2>1, FrontChanges DEF RestInv
  <2>3. CASE r = "FAIL"
    BY <1>1, <2>1, <2>2, <2>3, LastEnds
  <2>4. CASE r # "FAIL"
    BY <2>1, <2>2, <2>4 DEF RestInv, FrontRests
  <2> QED BY <2>3, <2>4
<1>5. ASSUME EndCtrl(mRespCtrl), nreq' = nreq, ctrl' = ctrl, pc' # "ready" PROVE RestInv'
  <2>1. UnallocatedIsNew'
    BY <1>5 DEF RestInv, UnallocatedIsNew
  <2> QED BY <1>1, <1>5, <2>1, LastEnds
<1>6. CASE TxDone
  <2>1. pc' # "ready"
    BY <1>2, <1>6 DEF TxDone, NextCtrl, LeaveTx
  <2> QED BY <1>5, <1>6, <2>1 DEF TxDone, reqVars
<1>7. CASE TxLack
  <2>1. CASE ctrl[mRespCtrl].eos
    <3>1. EndCtrl(mRespCtrl) /\ nreq' = nreq /\ ctrl' = ctrl /\ pc' = ret
      BY <1>7, <2>1 DEF TxLack, reqVars, LeaveTx
    <3> QED BY <1>2, <1>5, <3>1
  <2>2. CASE ~ctrl[mRespCtrl].eos
    <3>1. /\ UNCHANGED <<ctrl, nreq, mCtrlList>> /\ pc' = "ready"
          /\ Avail(ctrl[FrontCtrl]) = "lack" /\ ~ctrl[FrontCtrl].eos
      BY <1>2, <1>7, <2>2 DEF TxLack, reqVars, listVars
    <3>2. FrontStarved
      BY <3>1 DEF FrontStarved, Starved
    <3>3. FrontStarved' /\ FrontCtrl' = FrontCtrl /\ ctrl'[FrontCtrl'] = ctrl[FrontCtrl]
      BY <3>1, <3>2, RestFront
    <3>4. FrontRests'
      BY <3>1, <3>3 DEF FrontRests
    <3> QED BY <3>1, <3>4, RestSame
  <2> QED BY <2>1, <2>2
<1> QED BY <1>3, <1>4, <1>6, <1>7 DEF Tx

LEMMA ChunkTailAll == \A n \in 0 .. MaxLen : ChunkTail(n, 3) = << >>
<1> SUFFICES ASSUME NEW n \in 0 .. MaxLen PROVE ChunkTail(n, 3) = << >>
  OBVIOUS
<1>1. ChunkHead(n, 3) \in Seq(Tokens) /\ Len(ChunkHead(n, 3)) \in Nat
  BY ChunkType, LenProperties
<1> QED BY <1>1, SubSeqEmpty DEF ChunkTail

(* While it is asked for data, the application writes: what the socket took  *)
(* leaves the controller lacking data again and resets mPauseSend.           *)
LEMMA SendDataRests ==
  ASSUME ~TimerSend, IInv, RestInv, NEW c \in Reqs, NEW len \in 0 .. MaxLen, SendData(c, len)
  PROVE  RestInv'
<1> DEFINE u == ctrl[c]
<1>1. /\ pc = "ready" /\ c = mRespCtrl /\ cnn = "open" /\ u.strm = NoStrm /\ pc' = pc
      /\ UNCHANGED <<nreq, mCtrlList>>
  BY DEF SendData, reqVars, listVars
<1>2. mCtrlList # << >> /\ mRespCtrl = Head(mCtrlList)
  BY <1>1 DEF IInv, NoDanglingCtrl, TxAtFront
<1>3. c = FrontCtrl /\ FrontCtrl' = FrontCtrl /\ c <= nreq /\ u \in Ctrls
  <2>1. Len(mCtrlList) \in 1 .. nreq /\ Head(mCtrlList) = FrontCtrl /\ nreq \in Nat
    BY <1>2, FrontIs, NReqAssumption DEF IInv, TypeOK, FrontCtrl
  <2> QED BY <1>1, <1>2, <2>1 DEF FrontCtrl, IInv, TypeOK
<1>4. sock = "writable" => Avail(u) = "lack"
  BY <1>1, <1>3 DEF RestInv, FrontRests
<1>5. ASSUME NEW v, ctrl' = [ctrl EXCEPT ![c] = v],
             sock' = "writable" => Avail(v) = "lack" /\ ~mPauseSend'
      PROVE  RestInv'
  <2>1. UnallocatedIsNew' /\ ctrl'[FrontCtrl'] = v
    BY <1>1, <1>3, <1>5, FrontChanges DEF RestInv, IInv, TypeOK
  <2> QED BY <1>1, <1>5, <2>1 DEF RestInv, FrontRests
<1>6. ASSUME NEW r \in {"OK", "PENDING", "FAIL"}, SendPlain(c, len, r) PROVE RestInv'
  <2>1. CASE r = "FAIL"
    <3>1. UNCHANGED <<ctrl, nreq, mCtrlList>> /\ sock' # "writable"
      BY <1>1, <1>2, <1>6, <2>1 DEF SendPlain, SockAfter, Direct, IsWritable
    <3> QED BY <3>1, RestSame
  <2>2. CASE r # "FAIL"
    <3>1. /\ ~u.te /\ ctrl' = [ctrl EXCEPT ![c] = Written(u, len, << >>)]
          /\ Direct(c) /\ r \in SendResults
          /\ sock' = "writable" => r = "OK" /\ ~mPauseSend' /\ sock = "writable"
      BY <1>6, <2>2 DEF SendPlain, SockAfter, SendResults, Direct, IsWritable
    <3>2. sock' = "writable" => Avail(Written(u, len, << >>)) = "lack"
      <4>1. Avail(u) = "lack" => ~u.hdr
        BY DEF Avail
      <4>2. Written(u, len, << >>).hdr = u.hdr /\ Written(u, len, << >>).te = u.te
            /\ Written(u, len, << >>).strm = u.strm
        BY <1>3 DEF Written, Ctrls
      <4> QED BY <1>1, <1>4, <3>1, <4>1, <4>2 DEF Avail
    <3> QED BY <1>5, <3>1, <3>2
  <2> QED BY <2>1, <2>2
<1>7. ASSUME NEW k \in 0 .. 3, NEW r \in {"OK", "PENDING", "FAIL"}, SendTec(c, len, k, r)
      PROVE  RestInv'
  <2> DEFINE v == Written(u, len, ChunkTail(len, k))
  <2>1. u.te /\ ctrl' = [ctrl EXCEPT ![c] = v]
    BY <1>7 DEF SendTec
  <2>2. ASSUME sock' = "writable" PROVE Avail(v) = "lack" /\ ~mPauseSend'
    <3>1. u.chk = << >> /\ Direct(c)
      <4>1. CASE u.chk = << >> /\ Direct(c)
        BY <4>1
      <4>2. CASE ~(u.chk = << >> /\ Direct(c))
        <5>1. sock = "writable"
          BY <1>7, <2>2, <4>2 DEF SendTec
        <5>2. Direct(c)
          BY <1>1, <1>2, <5>1 DEF Direct, IsWritable
        <5>3. u.chk = << >>
          BY <1>1, <1>4, <2>1, <5>1 DEF Avail
        <5> QED BY <5>2, <5>3
      <4> QED BY <4>1, <4>2
    <3>2. r = "OK" /\ k = 3 /\ ~mPauseSend' /\ r \in SendResults
      BY <1>7, <2>2, <3>1 DEF SendTec, SockAfter
    <3>3. sock = "writable"
      BY <3>1, <3>2 DEF SendResults, Direct, IsWritable
    <3>4. v.chk = << >> \o << >> /\ v.hdr = u.hdr /\ v.te /\ v.strm = NoStrm
      BY <1>1, <1>3, <2>1, <3>1, <3>2, ChunkTailAll DEF Written, Ctrls
    <3>5. v.chk = << >>
      BY <3>4
    <3>6. ~u.hdr
      BY <1>4, <3>3 DEF Avail
    <3> HIDE DEF v
    <3>7. Avail(v) = "lack"
      BY <3>4, <3>5, <3>6 DEF Avail
    <3> QED BY <3>2, <3>7
  <2> HIDE DEF v
  <2> QED BY <1>5, <2>1, <2>2
<1> QED BY <1>6, <1>7 DEF SendData

(* starttx() is entered with what is listed.                                 *)
LEMMA ResponseRests ==
  ASSUME IInv, RestInv, NEW c \in Reqs, NEW s \in AppShapes, Response(c, s)
  PROVE  RestInv'
<1>1. /\ Live(c) /\ UNCHANGED <<nreq, mCtrlList>> /\ StartTx
      /\ ctrl' = [ctrl EXCEPT ![c] = Responded(ctrl[c], s)]
  BY DEF Response, reqVars, listVars
<1>2. mCtrlList # << >> /\ c <= nreq
  BY <1>1, LiveIsBehind
<1>3. pc' = "tx"
  BY <1>1, <1>2 DEF StartTx
<1>4. UnallocatedIsNew'
  BY <1>1, <1>2, FrontChanges DEF RestInv
<1> QED BY <1>1, <1>3, <1>4 DEF RestInv, FrontRests

LEMMA StepRest ==
  ASSUME AppFits, ~Pipelined, ~TimerSend
  PROVE  IInv /\ FrameInv /\ RestInv /\ [Next]_vars => RestInv'
<1> SUFFICES ASSUME IInv, FrameInv, RestInv, [Next]_vars PROVE RestInv'
  OBVIOUS
<1>1. ASSUME UNCHANGED <<ctrl, nreq, mCtrlList>>, pc' \in {"idle", "hdr", "msg"},
             cnn' = "open" /\ sock' = "writable" => FrontStarved
      PROVE  RestInv'
  BY <1>1, RestSame, RestFront DEF FrontRests
<1>2. ASSUME UNCHANGED <<ctrl, nreq, mCtrlList, sock, cnn, pc, mPauseSend>> PROVE RestInv'
  BY <1>2, RestSame, RestFront DEF FrontRests, RestInv
<1>3. ASSUME NEW msgonly \in BOOLEAN, RecvHdr(msgonly) PROVE RestInv'
  BY <1>3, RecvHdrRests
<1>4. ASSUME NEW dataend \in BOOLEAN, NEW refused \in BOOLEAN, RecvData(dataend, refused)
      PROVE  RestInv'
  BY <1>1, <1>4 DEF RecvData, listVars, RestInv, FrontRests
<1>5. CASE CallbackReturns
  BY <1>1, <1>5 DEF CallbackReturns, listVars, endVars, RestInv, FrontRests
<1>6. ASSUME NEW c \in Reqs, NEW s \in AppShapes, Response(c, s) PROVE RestInv'
  BY <1>6, ResponseRests
<1>7. CASE Tx
  BY <1>7, TxRests
<1>8. CASE ReadyReturns
  <2>1. /\ UNCHANGED <<ctrl, nreq, mCtrlList, sock, cnn>> /\ pc = "ready"
        /\ pc' = IF mPauseSend THEN ret ELSE "tx"
    BY <1>8 DEF ReadyReturns, reqVars, listVars, endVars, LeaveTx
  <2>2. ret \in {"idle", "hdr", "msg"}
    BY DEF IInv, TypeOK
  <2>3. CASE mPauseSend
    BY <1>1, <2>1, <2>2, <2>3 DEF RestInv, FrontRests
  <2>4. CASE ~mPauseSend
    BY <2>1, <2>4, RestSame DEF FrontRests
  <2> QED BY <2>3, <2>4
<1>9. ASSUME NEW c \in Reqs, NEW len \in 0 .. MaxLen, SendData(c, len) PROVE RestInv'
  BY <1>9, SendDataRests
<1>10. CASE Writable
  <2>1. UNCHANGED <<ctrl, nreq, mCtrlList>> /\ StartTx /\ pc = "idle"
    BY <1>10 DEF Writable, reqVars, listVars
  <2>2. CASE mCtrlList = << >>
    BY <1>1, <2>1, <2>2 DEF StartTx, FrontStarved
  <2>3. CASE mCtrlList # << >>
    BY <2>1, <2>3, RestSame DEF StartTx, FrontRests
  <2> QED BY <2>2, <2>3
<1>11. ASSUME NEW how \in {"closed", "freed"}, ClosedAs(how) PROVE RestInv'
  BY <1>11, EmptySeq DEF ClosedAs, Close, reqVars, RestInv, UnallocatedIsNew
<1>12. CASE TimerTick
  BY <1>2, <1>12 DEF TimerTick, reqVars, listVars, endVars
<1>13. CASE PeerDown
  BY <1>2, <1>13 DEF PeerDown, reqVars, listVars
<1>14. CASE UNCHANGED vars
  BY <1>2, <1>14 DEF vars
<1> QED
  BY <1>3, <1>4, <1>5, <1>6, <1>7, <1>8, <1>9, <1>10, <1>11, <1>12, <1>13, <1>14
  DEF Next, Disconnect, Disconnected, Timeout

(* Nothing is stranded, for a peer that waits for each response and an       *)
(* application that sends when OnHttpSendBufReady() asks: the event loop     *)
(* does not rest on a socket that takes data while the controller has some.  *)
(* A pipelining peer's next response may be left behind one without a body   *)
(* (ServCnn.cpp:268), or behind a chunked one that a timer has completed.    *)
THEOREM NothingIsStranded ==
  ASSUME ~Pipelined, ~TimerSend, ~EagerSend, AppFits
  PROVE  Spec => []NoStranded
<1>1. Init => RestInv
  <2> SUFFICES ASSUME Init PROVE RestInv
    OBVIOUS
  <2>1. mCtrlList = << >> /\ ctrl = [c \in Reqs |-> NewCtrl] /\ pc = "idle"
    BY DEF Init
  <2>2. Len(mCtrlList) = 0
    BY <2>1
  <2> QED BY <2>1, <2>2 DEF RestInv, UnallocatedIsNew, FrontRests, FrontStarved
<1>2. IInv /\ RestInv => NoStranded
  <2> SUFFICES ASSUME IInv, RestInv, cnn = "open", pc = "idle", sock = "writable",
                      mCtrlList # << >>
               PROVE  Avail(ctrl[Head(mCtrlList)]) # "some"
    BY DEF NoStranded
  <2>1. Head(mCtrlList) = FrontCtrl
    BY FrontIs DEF IInv, FrontCtrl
  <2> QED BY <2>1 DEF RestInv, FrontRests, FrontStarved, Starved
<1> QED BY <1>1, <1>2, StepRest, FramingInvariance, PTL DEF Spec
=============================================================================
