--------------------------- MODULE HttpCnnProofs ---------------------------
(* What a client connection promises, for every number of requests, every    *)
(* body and every way the responses are cut into packets.                    *)
(*                                                                           *)
(* First, when the application makes a request only after the one before has *)
(* its response.  CnnInv is the inductive invariant.  One: no request waits  *)
(* behind mCur.  Sending: how far the server has read the request made last. *)
(* Receiving: which of its responses the assembler is at, and what the       *)
(* requests have of them.                                                    *)
(*                                                                           *)
(* Then what the server reads, of requests in a pipeline too: SendInv says   *)
(* where it is by what the request at the cursor still holds, OnceInv what   *)
(* it has of the bodies the application writes.                              *)
EXTENDS HttpCnn, FrameLemmas, FiniteSetTheorems

(* What a request and the server's reader are made of.                       *)
BodyToks == [t : {"data", "chunk", "last"}, n : Int]
StrmVals == [hdr : BOOLEAN, te : BOOLEAN, strm : Int, clen : Int, part : Seq(BodyToks), eos : BOOLEAN]
BodyVals == [te : BOOLEAN, strm : Int, clen : Int]
ReqVals  == [body : BodyVals, strm : StrmVals, manual : BOOLEAN, wcnt : Int, buf : Seq(BodyToks),
             eos : BOOLEAN, pause : BOOLEAN, asked : BOOLEAN, active : BOOLEAN, msg : Nat,
             data : Seq(Nat), ends : Seq({0, -1})]
Readers  == [whole : Seq(Nat), cur : Nat, left : Int, got : [Reqs -> Int], ok : BOOLEAN]

-----------------------------------------------------------------------------
(* At most one request waits for its response, and starttx() runs for it or  *)
(* for none.                                                                 *)
One ==
  /\ nreq \in 0 .. NReq /\ req \in [Reqs -> ReqVals]
  /\ mCur \in {None, nreq} /\ mPipeList = << >> /\ mSendQueList = << >>
  /\ pc \in {"idle", "tx", "under", "read", "end"} /\ ret = "idle"
  /\ tx \in {None, mCur}
  /\ pc \notin {"tx", "under"} => tx = None
  /\ pc = "under" => tx # None
  /\ pc \in {"read", "end"} => mCur # None

(* The server has read the requests before q, and q not at all, in part or   *)
(* whole.                                                                    *)
UpTo(q)  == [i \in 1 .. q |-> i]
Fresh(q) == {s \in Readers : s.cur = None /\ s.whole = UpTo(q - 1)}
Part(q)  == {s \in Readers : s.cur = q /\ s.whole = UpTo(q - 1)}
Full(q)  == {s \in Readers : s.cur = None /\ s.whole = UpTo(q)}
Reached(q) == Fresh(q) \cup Part(q) \cup Full(q)

BodyPart(q) == [c : 1 .. q, tok : BodyToks]
Header(q)   == {<<[c |-> q, tok |-> Tok("hdr", n)]>> : n \in Int}

(* The header of a request goes once, before the rest of it; the packet that *)
(* waits in the socket holds it, or more of a body.                          *)
Unsent(q) == srv \in Fresh(q) /\ held \in Seq(BodyPart(q))
Carried(q) ==
  /\ srv \in Reached(q)
  /\ held \in Seq(BodyPart(q)) \/ (q \in Reqs /\ held \in Header(q) /\ srv \in Fresh(q))

Sending == Carried(nreq) /\ (nreq \in Reqs /\ req[nreq].strm.hdr => Unsent(nreq))

-----------------------------------------------------------------------------
(* A request ends well at most once, as its last; only the one that waits    *)
(* for its response is active.                                               *)
EndsWell(r) == \E i \in 1 .. Len(req[r].ends) : req[r].ends[i] = 0
Ends ==
  \A r \in Reqs :
    /\ \A i \in 1 .. Len(req[r].ends) : req[r].ends[i] = 0 => i = Len(req[r].ends)
    /\ r = mCur /\ pc # "end" => ~EndsWell(r) /\ req[r].msg = None
    /\ req[r].active => r = mCur /\ pc # "end"

(* The responses the server has sent, n of them: m[c] is that of request c.  *)
Units(s, r) == {i \in DOMAIN s : s[i].id = r /\ s[i].t = "body"}
Starts(s)   == {i \in DOMAIN s : s[i].t = "begin"}

Counted(m, n) ==
  /\ Cardinality(Starts(inflow)) = n
  /\ \A r \in Reqs : Cardinality(Units(inflow, r)) = IF r <= n THEN m[r].units ELSE 0

Owns(m, n) ==
  \A r \in Reqs :
    /\ AllOf(req[r].data, r)
    /\ EndsWell(r) => /\ req[r].msg = r /\ r <= n
                      /\ m[r].units <= MaxRecv => Len(req[r].data) = m[r].units

(* The response fetched last is received and read to its end, or none was.   *)
Over(m, c, k) ==
  /\ f.list = << >> /\ f.body = << >>
  /\ \/ mRecvMsg = 0 /\ c = 1 /\ k = 0
     \/ mRecvMsg = c /\ k = Length(m[c]) /\ k >= 2

(* No request waits, or the one that does has nothing of its response, its   *)
(* first bytes or more, or its header and what was given out of its body.    *)
NoneWaits(m, n, c, k) == mCur = None /\ mRecvMsg = nreq /\ n = nreq /\ Over(m, c, k)
Awaits(m, c, k) ==
  /\ mCur # None /\ mRecvMsg = nreq - 1 /\ req[nreq].data = << >>
  /\ pc \in {"idle", "tx", "under"} /\ Over(m, c, k)
Arrives(n, c, k) ==
  /\ mCur # None /\ mRecvMsg = nreq - 1 /\ req[nreq].data = << >>
  /\ c = nreq /\ c <= n /\ k >= 1 /\ ~Taken(f, c, mRecvMsg) /\ pc # "end"
  /\ pc # "read" => AtRest(f, c, k, mRecvMsg)
Fetched(m, c, k) ==
  /\ mCur # None /\ mRecvMsg = nreq /\ c = nreq /\ Taken(f, c, mRecvMsg)
  /\ pc = "end" => Finished(f, m, c, k)
  /\ pc \notin {"read", "end"} => AtRest(f, c, k, mRecvMsg)
  /\ pc # "end" /\ m[c].units <= MaxRecv => Len(req[c].data) = Given(f)

Receives(m, n, off, c, k) ==
  /\ Laid(inflow, m, n, off) /\ Len(inflow) = off[n + 1] /\ Counted(m, n)
  /\ n \in {nreq - 1, nreq} /\ (n = nreq => srv \in Full(nreq))
  /\ At(m, n, off, pos, c, k) /\ FrameAt(f, m, c, k, mRecvMsg)
  /\ Owns(m, n)
  /\ NoneWaits(m, n, c, k) \/ Awaits(m, c, k) \/ Arrives(n, c, k) \/ Fetched(m, c, k)

Receiving == inflow \in Seq(TokenVals) /\ \E m, n, off, c, k : Receives(m, n, off, c, k)

CnnInv == One /\ Sending /\ Ends /\ Receiving /\ asserted = {}

-----------------------------------------------------------------------------
(* What the server has after reading: FoldLeft() is a fold.                  *)
Closed(S, E) == \A s \in S, e \in E : Read(s, e) \in S
ReadF(S, E) == [p \in S \X E |-> Read(p[1], p[2])]

LEMMA ReadingIsFold ==
  ASSUME NEW S, NEW E, Closed(S, E), NEW a \in S, NEW w \in Seq(E)
  PROVE  ReadAll(a, w) = Fold(ReadF(S, E), a, w) /\ Foldable(S, E, ReadF(S, E), a, w)
<1> DEFINE P(h) == h = [s \in SUBSET DOMAIN w |->
                          IF s = {} THEN a ELSE Read(h[s \ {Max(s)}], w[Max(s)])]
           H == CHOOSE h : P(h)
           F == ReadF(S, E)
<1>0. F \in [S \X E -> S] /\ \A s \in S, e \in E : F[<<s, e>>] = Read(s, e)
  BY DEF ReadF, Closed
<1> HIDE DEF F
<1>1. PICK g \in [SUBSET DOMAIN w -> S] : SubsetFold(F, a, w, g)
  BY <1>0, SubsetFoldExists
<1>2. DOMAIN w = 1 .. Len(w) /\ Len(w) \in Nat
  BY LenProperties
<1>3. ASSUME NEW s \in SUBSET DOMAIN w, s # {}
      PROVE  Max(s) \in DOMAIN w /\ s \ {Max(s)} \in SUBSET DOMAIN w /\ w[Max(s)] \in E
  <2>1. Max(s) \in s
    BY <1>2, <1>3, MaxIs
  <2> QED BY <1>2, <2>1, ElementOfSeq
<1>4. P(g)
  <2>1. ASSUME NEW s \in SUBSET DOMAIN w
        PROVE  g[s] = IF s = {} THEN a ELSE Read(g[s \ {Max(s)}], w[Max(s)])
    <3>1. CASE s = {}
      BY <1>1, <3>1 DEF SubsetFold
    <3>2. CASE s # {}
      <4>1. g[s \ {Max(s)}] \in S /\ w[Max(s)] \in E
        BY <1>1, <1>3, <3>2
      <4>2. g[s] = F[<<g[s \ {Max(s)}], w[Max(s)]>>]
        BY <1>1, <3>2 DEF SubsetFold
      <4> QED BY <1>0, <3>2, <4>1, <4>2
    <3> QED BY <3>1, <3>2
  <2> QED BY <1>1, <2>1
<1>5. P(H)
  <2> HIDE DEF P
  <2> QED BY <1>4
<1>6. ReadAll(a, w) = H[DOMAIN w]
  BY Zenon DEF ReadAll, FoldLeft, MapThenFoldSet
<1> HIDE DEF H
<1>7. SubsetFollows(S, F, a, w, H)
  <2>1. H[{}] = a
    BY <1>5
  <2>2. ASSUME NEW s \in SUBSET DOMAIN w, s # {}, H[s \ {Max(s)}] \in S
        PROVE  H[s] = F[<<H[s \ {Max(s)}], w[Max(s)]>>]
    <3>1. H[s] = Read(H[s \ {Max(s)}], w[Max(s)])
      BY <1>5, <2>2
    <3>2. w[Max(s)] \in E
      BY <1>3, <2>2
    <3> QED BY <1>0, <2>2, <3>1, <3>2
  <2> QED BY <2>1, <2>2 DEF SubsetFollows
<1>8. Foldable(S, E, F, a, w)
  BY <1>0 DEF Foldable
<1>9. H[DOMAIN w] = Fold(F, a, w)
  BY <1>7, <1>8, SubsetFoldIsFold
<1> QED BY <1>6, <1>8, <1>9 DEF F

LEMMA ReadAllStays ==
  ASSUME NEW S, NEW E, Closed(S, E), NEW a \in S, NEW w \in Seq(E)
  PROVE  ReadAll(a, w) \in S
<1>1. ReadAll(a, w) = Fold(ReadF(S, E), a, w) /\ Foldable(S, E, ReadF(S, E), a, w)
  BY ReadingIsFold
<1> QED BY <1>1, FoldType

LEMMA ReadAllOne ==
  ASSUME NEW S, NEW E, Closed(S, E), NEW a \in S, NEW e \in E
  PROVE  ReadAll(a, <<e>>) = Read(a, e)
<1> DEFINE F == ReadF(S, E)
           none == << >>
<1>1. none \in Seq(E) /\ <<e>> = Append(none, e) /\ <<e>> \in Seq(E)
  OBVIOUS
<1>2. ReadAll(a, <<e>>) = Fold(F, a, <<e>>) /\ Foldable(S, E, F, a, none)
  BY <1>1, ReadingIsFold
<1>3. Fold(F, a, none) = a
  BY <1>2, FoldEmpty
<1>5. F[<<a, e>>] = Read(a, e)
  BY DEF ReadF
<1> HIDE DEF F, none
<1>4. Fold(F, a, Append(none, e)) = F[<<Fold(F, a, none), e>>]
  BY <1>2, FoldAppend
<1> QED BY <1>1, <1>2, <1>3, <1>4, <1>5

-----------------------------------------------------------------------------
(* What one entry does to the server's reader.                               *)
IsReader(d, whole, cur) == d \in Readers /\ d.whole = whole /\ d.cur = cur

LEMMA CurSet ==
  ASSUME NEW s, NEW whole, NEW cur, IsReader(s, whole, cur), NEW c \in Nat
  PROVE  IsReader([s EXCEPT !.cur = c], whole, c)
BY DEF Readers, IsReader

LEMMA WholeSet ==
  ASSUME NEW s, NEW whole, NEW cur, IsReader(s, whole, cur), NEW w \in Seq(Nat)
  PROVE  IsReader([s EXCEPT !.whole = w], w, cur)
BY DEF Readers, IsReader

LEMMA LeftSet ==
  ASSUME NEW s, NEW whole, NEW cur, IsReader(s, whole, cur), NEW n \in Int
  PROVE  IsReader([s EXCEPT !.left = n], whole, cur) /\ IsReader([s EXCEPT !.ok = FALSE], whole, cur)
BY DEF Readers, IsReader

LEMMA GotSet ==
  ASSUME NEW s, NEW whole, NEW cur, IsReader(s, whole, cur), NEW n \in Int, NEW r \in Reqs
  PROVE  IsReader([s EXCEPT !.got[r] = @ + n], whole, cur)
<1> DEFINE got == [s.got EXCEPT ![r] = @ + n]
<1>1. got \in [Reqs -> Int]
  BY DEF IsReader, Readers
<1>2. [s EXCEPT !.got[r] = @ + n] = [s EXCEPT !.got = got]
  OBVIOUS
<1> HIDE DEF got
<1>3. IsReader([s EXCEPT !.got = got], whole, cur)
  BY <1>1 DEF IsReader, Readers
<1> QED BY <1>2, <1>3

LEMMA ReadDone ==
  ASSUME NEW s, NEW whole, NEW cur, IsReader(s, whole, cur), NEW q \in Nat
  PROVE  IsReader([s EXCEPT !.whole = Append(@, q), !.cur = None, !.left = 0], Append(whole, q), None)
<1> DEFINE w == Append(s.whole, q)
           a == [s EXCEPT !.whole = w]
           b == [a EXCEPT !.cur = None]
           d == [b EXCEPT !.left = 0]
<1>1. w \in Seq(Nat) /\ None \in Nat /\ 0 \in Int /\ s.whole = whole
  BY AppendProperties DEF Readers, None, IsReader
<1>2. d = [s EXCEPT !.whole = Append(@, q), !.cur = None, !.left = 0]
  OBVIOUS
<1> HIDE DEF w
<1>3. IsReader(a, w, cur)
  BY <1>1, WholeSet
<1> HIDE DEF a
<1>4. IsReader(b, w, None)
  BY <1>1, <1>3, CurSet
<1> HIDE DEF b
<1>5. IsReader(d, w, None)
  BY <1>1, <1>4, LeftSet
<1> QED BY <1>1, <1>2, <1>5 DEF w

(* One entry of request q takes the reader from s to d.                      *)
Entry(q) == [c : {q}, tok : [t : {"hdr", "data", "chunk", "last"}, n : Int]]

ReadsOn(s, q, e, d) ==
  \/ /\ e.tok.t = "hdr" /\ s.cur = None
     /\ IsReader(d, s.whole, q) \/ IsReader(d, Append(s.whole, q), None)
  \/ /\ s.cur = q
     /\ IsReader(d, s.whole, q) \/ IsReader(d, Append(s.whole, q), None)
  \/ ~(e.tok.t = "hdr" /\ s.cur = None) /\ IsReader(d, s.whole, s.cur)

LEMMA ReadIs ==
  ASSUME NEW s \in Readers, NEW q \in Reqs, NEW e \in Entry(q)
  PROVE  ReadsOn(s, q, e, Read(s, e))
<1> DEFINE done == [s EXCEPT !.whole = Append(@, q), !.cur = None, !.left = 0]
           n == e.tok.n
           d == Read(s, e)
<1>1. /\ q \in Nat \ {0} /\ e.c = q /\ n \in Int /\ q # None /\ q \in Nat /\ s.left \in Int
      /\ IsReader(s, s.whole, s.cur)
  BY NReqAssumption DEF Reqs, Entry, None, Readers, IsReader
<1>2. IsReader(done, Append(s.whole, q), None)
  BY <1>1, ReadDone
<1>3. CASE s.cur = None /\ e.tok.t = "hdr"
  <2>1. d = IF n = 0 THEN done ELSE [s EXCEPT !.cur = q, !.left = n]
    BY <1>1, <1>3 DEF Read
  <2> DEFINE a == [s EXCEPT !.cur = q]
             b == [a EXCEPT !.left = n]
  <2>2. b = [s EXCEPT !.cur = q, !.left = n]
    OBVIOUS
  <2>3. IsReader(a, s.whole, q)
    BY <1>1, CurSet
  <2> HIDE DEF a
  <2>4. IsReader(b, s.whole, q)
    BY <1>1, <2>3, LeftSet
  <2> HIDE DEF b, d, done, n
  <2> QED BY <1>2, <1>3, <2>1, <2>2, <2>4 DEF ReadsOn, d
<1>4. CASE s.cur = q /\ e.tok.t = "data" /\ s.left # ChunkedLen /\ n <= s.left
  <2>1. d = IF n = s.left THEN done ELSE [s EXCEPT !.left = s.left - n]
    BY <1>1, <1>4 DEF Read
  <2>2. s.left - n \in Int
    BY <1>1
  <2>3. IsReader([s EXCEPT !.left = s.left - n], s.whole, s.cur)
    BY <1>1, <2>2, LeftSet
  <2> HIDE DEF d, done, n
  <2> QED BY <1>2, <1>4, <2>1, <2>3 DEF ReadsOn, d
<1>5. CASE s.cur = q /\ e.tok.t = "chunk" /\ s.left = ChunkedLen
  <2>1. d = [s EXCEPT !.got[q] = @ + n]
    BY <1>1, <1>5 DEF Read
  <2>2. IsReader([s EXCEPT !.got[q] = @ + n], s.whole, s.cur)
    BY <1>1, GotSet
  <2> HIDE DEF d, done, n
  <2> QED BY <1>5, <2>1, <2>2 DEF ReadsOn, d
<1>6. CASE s.cur = q /\ e.tok.t = "last" /\ s.left = ChunkedLen
  <2>1. d = done
    BY <1>1, <1>6 DEF Read
  <2> HIDE DEF d, done, n
  <2> QED BY <1>2, <1>6, <2>1 DEF ReadsOn, d
<1>7. CASE d = [s EXCEPT !.ok = FALSE] /\ ~(s.cur = None /\ e.tok.t = "hdr")
  <2>1. 0 \in Int
    OBVIOUS
  <2>2. IsReader([s EXCEPT !.ok = FALSE], s.whole, s.cur)
    BY <1>1, <2>1, LeftSet
  <2> HIDE DEF d, done, n
  <2> QED BY <1>7, <2>2 DEF ReadsOn, d
<1>8. \/ s.cur = None /\ e.tok.t = "hdr"
      \/ s.cur = q /\ e.tok.t = "data" /\ s.left # ChunkedLen /\ n <= s.left
      \/ s.cur = q /\ e.tok.t = "chunk" /\ s.left = ChunkedLen
      \/ s.cur = q /\ e.tok.t = "last" /\ s.left = ChunkedLen
      \/ d = [s EXCEPT !.ok = FALSE] /\ ~(s.cur = None /\ e.tok.t = "hdr")
  BY <1>1 DEF Read
<1> HIDE DEF d, done, n
<1> QED BY <1>3, <1>4, <1>5, <1>6, <1>7, <1>8 DEF d

-----------------------------------------------------------------------------
(* How the server gets on with the requests.                                 *)
LEMMA UpToIs ==
  ASSUME NEW q \in Nat
  PROVE  /\ UpTo(q) \in Seq(Nat) /\ Len(UpTo(q)) = q
         /\ Append(UpTo(q), q + 1) = UpTo(q + 1)
<1>1. UpTo(q) \in Seq(Nat) /\ Len(UpTo(q)) = q
  BY DEF UpTo
<1>2. Append(UpTo(q), q + 1) = UpTo(q + 1)
  <2> DEFINE a == Append(UpTo(q), q + 1)
             b == UpTo(q + 1)
  <2>1. /\ a \in Seq(Nat) /\ Len(a) = q + 1 /\ a[q + 1] = q + 1
        /\ \A i \in 1 .. q : a[i] = UpTo(q)[i]
    BY <1>1, AppendProperties
  <2>2. b \in Seq(Nat) /\ Len(b) = q + 1 /\ \A i \in 1 .. q + 1 : b[i] = i
    BY DEF UpTo
  <2>3. \A i \in 1 .. q : UpTo(q)[i] = i
    BY DEF UpTo
  <2> HIDE DEF a, b
  <2>4. \A i \in 1 .. q + 1 : a[i] = b[i]
    <3>1. \A i \in 1 .. q + 1 : i = q + 1 \/ i \in 1 .. q
      OBVIOUS
    <3> QED BY <2>1, <2>2, <2>3, <3>1
  <2>5. a = b
    BY <2>1, <2>2, <2>4, SeqEqual
  <2> QED BY <2>5 DEF a, b
<1> QED BY <1>1, <1>2

LEMMA ReachedIs ==
  ASSUME NEW q
  PROVE  \A s : /\ s \in Fresh(q) <=> IsReader(s, UpTo(q - 1), None)
                /\ s \in Part(q) <=> IsReader(s, UpTo(q - 1), q)
                /\ s \in Full(q) <=> IsReader(s, UpTo(q), None)
BY DEF Fresh, Part, Full, IsReader

(* What is not a header leaves those alone of whom no header came, and reads *)
(* on in the others.                                                         *)
LEMMA PartsRead ==
  ASSUME NEW q \in 0 .. NReq
  PROVE  /\ Closed(Fresh(q), BodyPart(q)) /\ Closed(Full(q), BodyPart(q))
         /\ Closed(Reached(q), BodyPart(q))
<1>1. ASSUME NEW s, NEW e \in BodyPart(q), s \in Reached(q)
      PROVE  LET d == Read(s, e) IN
             /\ d \in Reached(q)
             /\ s \in Fresh(q) => d \in Fresh(q)
             /\ s \in Full(q) => d \in Full(q)
  <2> DEFINE d == Read(s, e)
  <2>1. /\ e.c \in Reqs /\ e \in Entry(e.c) /\ e.tok.t # "hdr" /\ q \in Reqs /\ e.c # None
        /\ NReq \in Nat /\ q \in Nat \ {0}
    BY NReqAssumption DEF BodyPart, Entry, Reqs, BodyToks, None
  <2>2. s \in Readers
    BY <1>1 DEF Reached, Fresh, Part, Full
  <2>3. ReadsOn(s, e.c, e, d)
    BY <2>1, <2>2, ReadIs
  <2>4. Append(UpTo(q - 1), q) = UpTo(q)
    <3>1. q - 1 \in Nat /\ q - 1 + 1 = q
      BY <2>1
    <3> QED BY <3>1, UpToIs
  <2> HIDE DEF d
  <2>5. CASE s \in Fresh(q) \/ s \in Full(q)
    <3>1. IsReader(d, s.whole, None)
      BY <2>1, <2>3, <2>5 DEF ReadsOn, Fresh, Full
    <3>2. (s \in Fresh(q) => d \in Fresh(q)) /\ (s \in Full(q) => d \in Full(q))
      BY <3>1 DEF IsReader, Fresh, Full
    <3> QED BY <2>5, <3>2 DEF Reached, d
  <2>6. CASE s \in Part(q)
    <3>1. s.cur = q /\ s.whole = UpTo(q - 1) /\ q # None
      BY <2>1, <2>6 DEF Part, None
    <3>2. IsReader(d, s.whole, q) \/ IsReader(d, Append(s.whole, q), None)
      BY <2>1, <2>3, <3>1 DEF ReadsOn
    <3>3. d \in Part(q) \/ d \in Full(q)
      BY <2>4, <3>1, <3>2, ReachedIs
    <3>4. s \notin Fresh(q) /\ s \notin Full(q)
      BY <3>1 DEF Fresh, Full
    <3> QED BY <3>3, <3>4 DEF Reached, d
  <2> QED BY <1>1, <2>5, <2>6 DEF Reached
<1> QED BY <1>1 DEF Closed, Reached

LEMMA PartsArrive ==
  ASSUME NEW q \in 0 .. NReq, NEW w \in Seq(BodyPart(q))
  PROVE  /\ \A s \in Reached(q) : ReadAll(s, w) \in Reached(q)
         /\ \A s \in Full(q) : ReadAll(s, w) \in Full(q)
         /\ \A s \in Fresh(q) : ReadAll(s, w) \in Fresh(q)
<1>1. /\ Closed(Fresh(q), BodyPart(q)) /\ Closed(Full(q), BodyPart(q))
      /\ Closed(Reached(q), BodyPart(q))
  BY PartsRead
<1> QED BY <1>1, ReadAllStays

(* The header begins the request.                                            *)
LEMMA HeaderArrives ==
  ASSUME NEW q \in Reqs, NEW w \in Header(q), NEW s \in Fresh(q)
  PROVE  ReadAll(s, w) \in Part(q) \cup Full(q)
<1>1. PICK n \in Int : w = <<[c |-> q, tok |-> Tok("hdr", n)]>>
  BY DEF Header
<1> DEFINE e == [c |-> q, tok |-> Tok("hdr", n)]
<1>2. e \in Entry(q) /\ e.tok.t = "hdr"
  BY DEF Entry, Tok
<1> HIDE DEF e
<1>3. Closed(Readers, Entry(q))
  <2> SUFFICES ASSUME NEW x \in Readers, NEW y \in Entry(q) PROVE Read(x, y) \in Readers
    BY DEF Closed
  <2> QED BY ReadIs DEF ReadsOn, IsReader
<1>4. s \in Readers /\ s.cur = None /\ s.whole = UpTo(q - 1)
  BY DEF Fresh
<1>5. ReadAll(s, <<e>>) = Read(s, e)
  BY <1>2, <1>3, <1>4, ReadAllOne
<1>6. IsReader(Read(s, e), UpTo(q - 1), q) \/ IsReader(Read(s, e), Append(UpTo(q - 1), q), None)
  <2>1. ReadsOn(s, q, e, Read(s, e))
    BY <1>2, <1>4, ReadIs
  <2> QED BY <1>2, <1>4, <2>1 DEF ReadsOn
<1>7. Append(UpTo(q - 1), q) = UpTo(q)
  <2>1. q - 1 \in Nat /\ q - 1 + 1 = q
    BY NReqAssumption DEF Reqs
  <2> QED BY <2>1, UpToIs
<1>8. ReadAll(s, <<e>>) \in Part(q) \cup Full(q)
  BY <1>5, <1>6, <1>7, ReachedIs
<1> QED BY <1>1, <1>8 DEF e

-----------------------------------------------------------------------------
(* A packet of request q goes out, waits or is refused.                      *)
Packet(q, toks) == [i \in DOMAIN toks |-> [c |-> q, tok |-> toks[i]]]

LEMMA PacketIs ==
  ASSUME NEW q \in Reqs
  PROVE  /\ \A toks \in Seq(BodyToks) : Packet(q, toks) \in Seq(BodyPart(q))
         /\ \A n \in Int : Packet(q, <<Tok("hdr", n)>>) \in Header(q)
<1>1. ASSUME NEW toks \in Seq(BodyToks) PROVE Packet(q, toks) \in Seq(BodyPart(q))
  <2>1. DOMAIN toks = 1 .. Len(toks) /\ Len(toks) \in Nat /\ \A i \in 1 .. Len(toks) : toks[i] \in BodyToks
    BY LenProperties, ElementOfSeq
  <2>2. q \in 1 .. q
    BY NReqAssumption DEF Reqs
  <2>3. \A i \in 1 .. Len(toks) : Packet(q, toks)[i] \in BodyPart(q)
    BY <2>1, <2>2 DEF Packet, BodyPart
  <2>4. Packet(q, toks) = [i \in 1 .. Len(toks) |-> Packet(q, toks)[i]]
    BY <2>1 DEF Packet
  <2> QED BY <2>1, <2>3, <2>4
<1>2. ASSUME NEW n \in Int PROVE Packet(q, <<Tok("hdr", n)>>) \in Header(q)
  <2> DEFINE t == Tok("hdr", n)
             e == [c |-> q, tok |-> t]
  <2>1. Packet(q, <<t>>) = <<e>>
    <3> HIDE DEF t
    <3> QED BY DEF Packet
  <2> QED BY <2>1 DEF Header
<1> QED BY <1>1, <1>2

LEMMA SentIs ==
  ASSUME NEW r, NEW q, NEW toks, SendPacket(r, q, toks)
  PROVE  /\ r = "OK" => srv' = ReadAll(srv, Packet(q, toks)) /\ held' = held
         /\ r = "PENDING" => srv' = srv /\ held' = Packet(q, toks)
         /\ r \notin {"OK", "PENDING"} => srv' = srv /\ held' = held
BY DEF SendPacket, Packet

LEMMA BodySent ==
  ASSUME NEW q \in Reqs, Carried(q), NEW r, NEW toks \in Seq(BodyToks), SendPacket(r, q, toks)
  PROVE  /\ Carried(q)' /\ (srv \in Full(q) => srv' \in Full(q))
         /\ Unsent(q) => Unsent(q)'
<1> DEFINE w == Packet(q, toks)
<1>1. w \in Seq(BodyPart(q)) /\ q \in 0 .. NReq
  BY PacketIs, NReqAssumption DEF Reqs
<1>2. /\ \A s \in Reached(q) : ReadAll(s, w) \in Reached(q)
      /\ \A s \in Full(q) : ReadAll(s, w) \in Full(q)
      /\ \A s \in Fresh(q) : ReadAll(s, w) \in Fresh(q)
  BY <1>1, PartsArrive
<1>3. /\ r = "OK" => srv' = ReadAll(srv, w) /\ held' = held
      /\ r = "PENDING" => srv' = srv /\ held' = w
      /\ r \notin {"OK", "PENDING"} => srv' = srv /\ held' = held
  BY SentIs
<1> HIDE DEF w
<1>4. srv' \in Reached(q) /\ (srv \in Full(q) => srv' \in Full(q)) /\ (srv \in Fresh(q) => srv' \in Fresh(q))
  BY <1>2, <1>3 DEF Carried
<1>5. held' \in Seq(BodyPart(q)) \/ held' = held
  BY <1>1, <1>3
<1> QED BY <1>4, <1>5 DEF Carried, Unsent

LEMMA HeaderSent ==
  ASSUME NEW q \in Reqs, Unsent(q), NEW r, NEW n \in Int, SendPacket(r, q, <<Tok("hdr", n)>>)
  PROVE  /\ Carried(q)'
         /\ r \notin {"OK", "PENDING"} => Unsent(q)'
<1> DEFINE w == Packet(q, <<Tok("hdr", n)>>)
<1>1. w \in Header(q)
  BY PacketIs
<1>2. ReadAll(srv, w) \in Part(q) \cup Full(q)
  BY <1>1, HeaderArrives DEF Unsent
<1>3. /\ r = "OK" => srv' = ReadAll(srv, w) /\ held' = held
      /\ r = "PENDING" => srv' = srv /\ held' = w
      /\ r \notin {"OK", "PENDING"} => srv' = srv /\ held' = held
  BY SentIs
<1> HIDE DEF w
<1> QED BY <1>1, <1>2, <1>3 DEF Carried, Unsent, Reached

(* The packet that waited goes.                                              *)
LEMMA HeldGoes ==
  ASSUME NEW q \in 0 .. NReq, Carried(q), srv' = ReadAll(srv, held), held' = << >>
  PROVE  /\ Carried(q)' /\ (srv \in Full(q) => srv' \in Full(q))
         /\ Unsent(q) => Unsent(q)'
<1>1. held' \in Seq(BodyPart(q))
  OBVIOUS
<1>2. CASE held \in Seq(BodyPart(q))
  <2>1. /\ srv \in Reached(q) => srv' \in Reached(q)
        /\ srv \in Full(q) => srv' \in Full(q)
        /\ srv \in Fresh(q) => srv' \in Fresh(q)
    BY <1>2, PartsArrive
  <2> QED BY <1>1, <2>1 DEF Carried, Unsent
<1>3. CASE held \notin Seq(BodyPart(q))
  <2>1. q \in Reqs /\ held \in Header(q) /\ srv \in Fresh(q)
    BY <1>3 DEF Carried
  <2>2. srv' \in Part(q) \cup Full(q)
    BY <2>1, HeaderArrives
  <2>3. srv \notin Full(q)
    <3>1. q \in Nat /\ q - 1 \in Nat /\ q - 1 # q
      BY <2>1, NReqAssumption DEF Reqs
    <3>2. Len(UpTo(q - 1)) # Len(UpTo(q))
      BY <3>1, UpToIs
    <3> QED BY <2>1, <3>2 DEF Fresh, Full
  <2> QED BY <1>1, <1>3, <2>2, <2>3 DEF Carried, Unsent, Reached
<1> QED BY <1>2, <1>3

-----------------------------------------------------------------------------
(* The stream of a request.                                                  *)
LEMMA BodyTokIs ==
  ASSUME NEW t \in {"data", "chunk", "last"}, NEW n \in Int
  PROVE  Tok(t, n) \in BodyToks
BY DEF Tok, BodyToks

LEMMA SliceIs ==
  ASSUME NEW s \in StrmVals
  PROVE  Slice1(s) \in Int
BY SliceAssumption DEF Slice1, StrmVals

LEMMA PreparedIs ==
  ASSUME NEW s \in StrmVals
  PROVE  Prepared(s) \in StrmVals /\ Prepared(s).hdr = s.hdr /\ Prepared(s).clen = s.clen
<1> DEFINE n == Slice1(s)
           last == n = s.strm
           a == IF n > 0 THEN <<Tok("chunk", n)>> ELSE << >>
           b == IF last THEN <<Tok("last", 0)>> ELSE << >>
           ab == a \o b
           left == s.strm - n
           x == [s EXCEPT !.strm = left, !.eos = last, !.part = ab]
<1>1. Prepared(s) = IF ~s.hdr /\ s.te /\ s.strm # NoStrm /\ s.part = << >> /\ ~s.eos THEN x ELSE s
  BY DEF Prepared
<1>2. ab \in Seq(BodyToks)
  <2>1. n \in Int /\ 0 \in Int
    BY SliceIs
  <2>2. Tok("chunk", n) \in BodyToks /\ Tok("last", 0) \in BodyToks
    BY <2>1, BodyTokIs
  <2>3. \A t \in BodyToks : <<t>> \in Seq(BodyToks)
    OBVIOUS
  <2>4. << >> \in Seq(BodyToks)
    OBVIOUS
  <2>5. a \in Seq(BodyToks) /\ b \in Seq(BodyToks)
    BY <2>2, <2>3, <2>4
  <2> HIDE DEF a, b
  <2> QED BY <2>5, ConcatProperties
<1>3. left \in Int /\ last \in BOOLEAN
  <2>1. n \in Int /\ s.strm \in Int
    BY SliceIs DEF StrmVals
  <2> QED BY <2>1
<1> HIDE DEF left, last, ab
<1>4. x \in StrmVals /\ x.hdr = s.hdr /\ x.clen = s.clen
  <2> DEFINE y == [s EXCEPT !.strm = left]
             z == [y EXCEPT !.eos = last]
             v == [z EXCEPT !.part = ab]
  <2>1. y \in StrmVals /\ y.hdr = s.hdr /\ y.clen = s.clen
    BY <1>3 DEF StrmVals
  <2>2. v = x
    OBVIOUS
  <2> HIDE DEF y
  <2>3. z \in StrmVals /\ z.hdr = s.hdr /\ z.clen = s.clen
    BY <1>3, <2>1 DEF StrmVals
  <2> HIDE DEF z
  <2>4. v \in StrmVals /\ v.hdr = s.hdr /\ v.clen = s.clen
    BY <1>2, <2>3 DEF StrmVals
  <2> QED BY <2>2, <2>4
<1> HIDE DEF x
<1> QED BY <1>1, <1>4

LEMMA OfferedIs ==
  ASSUME NEW s \in StrmVals
  PROVE  /\ s.hdr => Offered(s) = <<Tok("hdr", s.clen)>>
         /\ ~s.hdr => Offered(s) \in Seq(BodyToks)
         /\ Consumed(s) \in StrmVals /\ Consumed(s).hdr = FALSE
<1>1. s.hdr => Offered(s) = <<Tok("hdr", s.clen)>>
  BY DEF Offered
<1>2. ASSUME ~s.hdr PROVE Offered(s) \in Seq(BodyToks)
  <2>1. Tok("data", Slice1(s)) \in BodyToks
    BY SliceIs, BodyTokIs
  <2>2. \A t \in BodyToks : <<t>> \in Seq(BodyToks)
    OBVIOUS
  <2>3. s.part \in Seq(BodyToks)
    BY DEF StrmVals
  <2> QED BY <1>2, <2>1, <2>2, <2>3 DEF Offered
<1>3. Consumed(s) \in StrmVals /\ Consumed(s).hdr = FALSE
  <2>1. CASE s.hdr
    BY <2>1 DEF Consumed, StrmVals
  <2>2. CASE ~s.hdr /\ s.te
    <3>1. << >> \in Seq(BodyToks)
      OBVIOUS
    <3> QED BY <2>2, <3>1 DEF Consumed, StrmVals
  <2>3. CASE ~s.hdr /\ ~s.te
    <3> DEFINE left == s.strm - Slice1(s)
    <3>1. left \in Int
      BY SliceIs DEF StrmVals
    <3>2. Consumed(s) = [s EXCEPT !.strm = left]
      BY <2>3 DEF Consumed
    <3> HIDE DEF left
    <3> QED BY <2>3, <3>1, <3>2 DEF StrmVals
  <2>4. s.hdr \in BOOLEAN /\ s.te \in BOOLEAN
    BY DEF StrmVals
  <2> QED BY <2>1, <2>2, <2>3, <2>4
<1> QED BY <1>1, <1>2, <1>3

-----------------------------------------------------------------------------
(* Steps that leave what was received alone.                                 *)
Sends(p) == p \in {"idle", "tx", "under"}

SameFor(r) ==
  /\ req'[r].data = req[r].data /\ req'[r].msg = req[r].msg
  /\ EndsWell(r)' <=> EndsWell(r)

LEMMA ReceivingKept ==
  ASSUME One, Receiving, UNCHANGED <<nreq, mCur, inflow, pos, f, mRecvMsg>>,
         pc' = pc \/ (Sends(pc) /\ Sends(pc')), srv \in Full(nreq) => srv' \in Full(nreq),
         \A r \in Reqs : SameFor(r)
  PROVE  Receiving'
<1>1. PICK m, n, off, c, k : Receives(m, n, off, c, k)
  BY DEF Receiving
<1>2. mCur # None => nreq \in Reqs
  BY DEF One, Reqs, None
<1>3. \A r \in Reqs : req'[r].data = req[r].data /\ req'[r].msg = req[r].msg /\ (EndsWell(r)' <=> EndsWell(r))
  BY DEF SameFor
<1>4. Owns(m, n)'
  BY <1>1, <1>3 DEF Receives, Owns
<1>5. NoneWaits(m, n, c, k) \/ Awaits(m, c, k) \/ Arrives(n, c, k) \/ Fetched(m, c, k)
  BY <1>1 DEF Receives
<1>6. Over(m, c, k)' <=> Over(m, c, k)
  BY DEF Over
<1>7. (NoneWaits(m, n, c, k) \/ Awaits(m, c, k) \/ Arrives(n, c, k) \/ Fetched(m, c, k))'
  <2>1. CASE NoneWaits(m, n, c, k)
    BY <1>6, <2>1 DEF NoneWaits
  <2>2. CASE Awaits(m, c, k)
    BY <1>2, <1>3, <1>6, <2>2 DEF Awaits, Sends
  <2>3. CASE Arrives(n, c, k)
    BY <1>2, <1>3, <2>3 DEF Arrives, Sends
  <2>4. CASE Fetched(m, c, k)
    BY <1>2, <1>3, <2>4 DEF Fetched, Sends
  <2> QED BY <1>5, <2>1, <2>2, <2>3, <2>4
<1>8. Counted(m, n)' <=> Counted(m, n)
  BY DEF Counted
<1>9. Receives(m, n, off, c, k)'
  BY <1>1, <1>4, <1>7, <1>8 DEF Receives
<1> QED BY <1>9 DEF Receiving

LEMMA QuietKeeps ==
  ASSUME CnnInv, UNCHANGED <<nreq, req, mCur, srv, held, inflow, pos, f, mRecvMsg, asserted>>, One',
         pc' = pc \/ (Sends(pc) /\ Sends(pc'))
  PROVE  CnnInv'
<1>1. One /\ Sending /\ Ends /\ Receiving /\ asserted = {}
  BY DEF CnnInv
<1>2. \A r \in Reqs : SameFor(r)
  BY DEF SameFor, EndsWell
<1>3. Receiving'
  BY <1>1, <1>2, ReceivingKept
<1>4. Sending'
  BY <1>1 DEF Sending, Carried, Unsent
<1>5. Ends'
  BY <1>1 DEF Ends, EndsWell, Sends
<1> QED BY <1>1, <1>3, <1>4, <1>5 DEF CnnInv

LEMMA QuietSteps ==
  ASSUME CnnInv, Connected \/ TxTake \/ TxBlocked \/ TxDone \/ UnderReturns \/ Writable \/ Close \/ PeerDown
  PROVE  CnnInv'
<1>1. One
  BY DEF CnnInv
<1>2. CASE Connected \/ Writable
  BY <1>1, <1>2, QuietKeeps DEF Connected, Writable, StartTx, One, Sends, reqVars, pipeVars, inVars
<1>3. CASE TxTake
  <2>1. mSendQueList = << >>
    BY <1>1 DEF One
  <2>2. LeaveTx /\ UNCHANGED mSendQueList
    BY <1>3, <2>1 DEF TxTake
  <2> QED BY <1>1, <1>3, <2>2, QuietKeeps DEF TxTake, LeaveTx, One, Sends, reqVars, sockVars, inVars
<1>4. CASE TxBlocked \/ TxDone
  BY <1>1, <1>4, QuietKeeps DEF TxBlocked, TxDone, LeaveTx, One, Sends, reqVars, pipeVars, sockVars, inVars
<1>5. CASE UnderReturns
  BY <1>1, <1>5, QuietKeeps DEF UnderReturns, LeaveTx, One, Sends, reqVars, pipeVars, sockVars, inVars
<1>6. CASE Close \/ PeerDown
  BY <1>1, <1>6, QuietKeeps DEF Close, PeerDown, One, reqVars, pipeVars, sockVars, txVars, inVars
<1> QED BY <1>2, <1>3, <1>4, <1>5, <1>6

-----------------------------------------------------------------------------
(* The requests are what they should be.                                     *)
LEMMA NewReqIs ==
  ASSUME NEW b \in BodyVals
  PROVE  /\ NewReq(b) \in ReqVals /\ NewReq(b).data = << >> /\ NewReq(b).ends = << >>
         /\ NewReq(b).msg = None /\ NewReq(b).strm.hdr = TRUE
<1> DEFINE s == NewStrm(b)
           manual == b.strm = NoStrm /\ b.clen # 0
           none == << >>
<1>1. none \in Seq(BodyToks) /\ none \in Seq(Nat) /\ none \in Seq({0, -1})
  OBVIOUS
<1>2. s \in StrmVals /\ s.hdr = TRUE
  <2>1. s = [hdr |-> TRUE, te |-> b.te, strm |-> b.strm, clen |-> b.clen, part |-> none, eos |-> FALSE]
    BY DEF NewStrm
  <2> HIDE DEF none, s
  <2> QED BY <1>1, <2>1 DEF StrmVals, BodyVals
<1>3. manual \in BOOLEAN /\ None \in Nat /\ 0 \in Int
  BY DEF None
<1>4. NewReq(b) = [body |-> b, strm |-> s, manual |-> manual, wcnt |-> 0, buf |-> none, eos |-> FALSE,
                   pause |-> FALSE, asked |-> FALSE, active |-> TRUE, msg |-> None, data |-> none,
                   ends |-> none]
  BY DEF NewReq
<1>5. none = << >>
  OBVIOUS
<1> HIDE DEF s, manual, none
<1> QED BY <1>1, <1>2, <1>3, <1>4, <1>5 DEF ReqVals

LEMMA NoReqIs ==
  NoReq \in ReqVals /\ NoReq.data = << >> /\ NoReq.ends = << >> /\ NoReq.msg = None /\ NoReq.active = FALSE
<1> DEFINE b == [te |-> FALSE, strm |-> NoStrm, clen |-> 0]
           q == NewReq(b)
<1>1. b \in BodyVals
  BY DEF BodyVals, NoStrm
<1> HIDE DEF b
<1>2. q \in ReqVals /\ q.data = << >> /\ q.ends = << >> /\ q.msg = None
  BY <1>1, NewReqIs
<1>3. NoReq = [q EXCEPT !.active = FALSE]
  BY DEF NoReq, q, b
<1> HIDE DEF q
<1> QED BY <1>2, <1>3 DEF ReqVals

(* HTTP_REQ_END.                                                             *)
LEMMA EndedIsReq ==
  ASSUME NEW q \in ReqVals, NEW status \in {0, -1}
  PROVE  LET x == Ended(q, status) IN
         /\ x \in ReqVals /\ x.data = q.data /\ x.msg = q.msg /\ x.active = FALSE /\ x.strm = q.strm
         /\ x.ends = Append(q.ends, status)
<1> DEFINE a == [q EXCEPT !.active = FALSE]
           e == Append(q.ends, status)
           x == [a EXCEPT !.ends = e]
<1>1. Ended(q, status) = x
  BY DEF Ended
<1>2. e \in Seq({0, -1})
  <2>1. q.ends \in Seq({0, -1})
    BY DEF ReqVals
  <2> QED BY <2>1, AppendProperties
<1>3. a \in ReqVals /\ a.data = q.data /\ a.msg = q.msg /\ a.active = FALSE /\ a.strm = q.strm
  BY DEF ReqVals
<1> HIDE DEF a, e
<1>4. x \in ReqVals /\ x.data = a.data /\ x.msg = a.msg /\ x.active = a.active /\ x.strm = a.strm /\ x.ends = e
  BY <1>2, <1>3 DEF ReqVals
<1> HIDE DEF x
<1> QED BY <1>1, <1>3, <1>4 DEF e

LEMMA StrmSet ==
  ASSUME NEW q \in ReqVals, NEW s \in StrmVals
  PROVE  LET x == [q EXCEPT !.strm = s] IN
         /\ x \in ReqVals /\ x.data = q.data /\ x.msg = q.msg /\ x.active = q.active /\ x.ends = q.ends
         /\ x.strm = s
BY DEF ReqVals

LEMMA CnnInit == Init => CnnInv
<1> SUFFICES ASSUME Init PROVE CnnInv
  OBVIOUS
<1> DEFINE none == << >>
           off == [c \in 1 .. 1 |-> 0]
<1>1. /\ nreq = 0 /\ req = [r \in Reqs |-> NoReq] /\ mCur = 0 /\ mPipeList = << >> /\ mSendQueList = << >>
      /\ held = << >> /\ srv = Start /\ tx = 0 /\ pc = "idle" /\ ret = "idle"
      /\ inflow = none /\ pos = 0 /\ f = NewFrame /\ mRecvMsg = 0 /\ asserted = {}
  BY DEF Init, None
<1>2. /\ none \in Seq(TokenVals) /\ none \in Seq(Nat) /\ none \in Seq(Entries) /\ none \in Seq(BodyPart(0))
      /\ Len(none) = 0 /\ none = << >> /\ DOMAIN none = {}
  <2>1. Len(none) = 0 /\ DOMAIN none = 1 .. 0
    OBVIOUS
  <2> QED BY <2>1
<1>3. NReq \in Nat \ {0} /\ 0 \notin Reqs
  BY NReqAssumption DEF Reqs
<1>4. One
  BY <1>1, <1>3, NoReqIs DEF One, None
<1>5. srv \in Fresh(0) /\ srv \in Full(0)
  <2> DEFINE got == [r \in Reqs |-> 0]
  <2>1. UpTo(0 - 1) = none /\ UpTo(0) = none
    <3>1. 1 .. 0 - 1 = {} /\ 1 .. 0 = {}
      OBVIOUS
    <3>2. UpTo(0 - 1) = [i \in {} |-> i] /\ UpTo(0) = [i \in {} |-> i]
      BY <3>1 DEF UpTo
    <3>3. UpTo(0) = << >>
      <4>1. 0 \in Nat
        OBVIOUS
      <4>2. UpTo(0) \in Seq(Nat) /\ Len(UpTo(0)) = 0
        BY <4>1, UpToIs
      <4> QED BY <4>2, EmptySeq
    <3> QED BY <3>2, <3>3
  <2>2. got \in [Reqs -> Int] /\ Start = [whole |-> none, cur |-> 0, left |-> 0, got |-> got, ok |-> TRUE]
    BY DEF Start, None
  <2> HIDE DEF got, none
  <2>3. Start \in Readers /\ Start.whole = none /\ Start.cur = 0
    BY <1>2, <2>2 DEF Readers
  <2> QED BY <1>1, <2>1, <2>3 DEF Fresh, Full, None
<1>6. Sending
  BY <1>1, <1>2, <1>3, <1>5 DEF Sending, Carried, Reached
<1>7. /\ \A r \in Reqs : req[r].data = << >> /\ req[r].ends = << >> /\ req[r].active = FALSE
      /\ Len(<< >>) = 0 /\ \A i \in 1 .. 0 : FALSE
  BY <1>1, NoReqIs
<1>8. Ends /\ \A r \in Reqs : ~EndsWell(r)
  BY <1>1, <1>3, <1>7 DEF Ends, EndsWell
<1>9. Laid(inflow, none, 0, off) /\ Len(inflow) = off[0 + 1]
  BY <1>1, <1>2 DEF Laid
<1>10. Counted(none, 0)
  <2>1. Starts(inflow) = {} /\ \A r \in Reqs : Units(inflow, r) = {}
    BY <1>1, <1>2 DEF Starts, Units
  <2>2. Cardinality({}) = 0 /\ \A r \in Reqs : ~(r <= 0)
    BY FS_EmptySet DEF Reqs
  <2> QED BY <2>1, <2>2 DEF Counted
<1>11. At(none, 0, off, pos, 1, 0)
  BY <1>1 DEF At
<1>12. f = Frame("INIT", NoMsg, none, 0, 0, {}, none)
  BY <1>1 DEF NewFrame, Frame
<1> HIDE DEF none, off
<1>13. /\ f \in Frames /\ f.msg = NoMsg /\ f.body = << >> /\ f.clen = 0 /\ f.rlen = 0
       /\ f.stat = {} /\ f.list = << >> /\ Len(f.list) = 0
  <2>1. NoMsg \in MsgVals /\ {} \in Statuses
    BY DEF NoMsg, MsgVals, Statuses
  <2>2. FrameIs(f, "INIT", NoMsg, none, 0, 0, {}, none)
    <3>1. none \in Seq(Nat) /\ none \in Seq(Entries)
      BY <1>2
    <3> QED BY <1>12, <2>1, <3>1, FrameIn
  <2> QED BY <1>2, <2>2 DEF FrameIs
<1>14. FrameAt(f, none, 1, 0, mRecvMsg)
  <2>1. ~Taken(f, 1, mRecvMsg)
    BY <1>1, <1>13 DEF Taken
  <2>2. Sized(f, 1, 0, mRecvMsg)
    <3> DEFINE l == Len(f.list)
    <3>1. l = 0 /\ mRecvMsg = 0
      BY <1>1, <1>13
    <3> HIDE DEF l
    <3>2. l <= 1 - 1 /\ mRecvMsg = 1 - 1 - l /\ mRecvMsg \in Nat /\ 1 \in Nat \ {0} /\ 0 \in Nat
      BY <3>1
    <3> QED BY <1>13, <2>1, <3>2 DEF Sized, l
  <2>3. \A i \in 1 .. 0 : FALSE
    OBVIOUS
  <2>4. Listed(f, none, 1, mRecvMsg)
    BY <1>13, <2>3 DEF Listed
  <2>5. Current(f, none, 1, 0, mRecvMsg)
    BY <1>13 DEF Current, Blank
  <2> QED BY <2>2, <2>4, <2>5 DEF FrameAt
<1>15. Owns(none, 0)
  BY <1>7, <1>8 DEF Owns, AllOf
<1>16. NoneWaits(none, 0, 1, 0)
  BY <1>1, <1>13 DEF NoneWaits, Over, None
<1>17. Receives(none, 0, off, 1, 0)
  BY <1>1, <1>5, <1>9, <1>10, <1>11, <1>14, <1>15, <1>16 DEF Receives
<1>18. inflow \in Seq(TokenVals)
  BY <1>1, <1>2
<1> QED BY <1>1, <1>4, <1>6, <1>8, <1>17, <1>18 DEF CnnInv, Receiving

-----------------------------------------------------------------------------
(* Steps that send: only the request that waits for its response changes.    *)
Likewise(x, q) ==
  x \in ReqVals /\ x.data = q.data /\ x.msg = q.msg /\ x.active = q.active /\ x.ends = q.ends /\ x.strm = q.strm

LEMMA FieldSet ==
  ASSUME NEW q \in ReqVals, NEW b \in BOOLEAN, NEW n \in Int, NEW buf \in Seq(BodyToks)
  PROVE  /\ Likewise([q EXCEPT !.pause = b], q) /\ Likewise([q EXCEPT !.asked = b], q)
         /\ Likewise([q EXCEPT !.eos = b], q) /\ Likewise([q EXCEPT !.wcnt = n], q)
         /\ Likewise([q EXCEPT !.buf = buf], q)
<1>1. Likewise([q EXCEPT !.pause = b], q) /\ Likewise([q EXCEPT !.asked = b], q)
  BY DEF ReqVals, Likewise
<1>2. Likewise([q EXCEPT !.eos = b], q) /\ Likewise([q EXCEPT !.wcnt = n], q)
  BY DEF ReqVals, Likewise
<1>3. Likewise([q EXCEPT !.buf = buf], q)
  BY DEF ReqVals, Likewise
<1> QED BY <1>1, <1>2, <1>3

LEMMA Likewise2 ==
  ASSUME NEW x, NEW y, NEW q, Likewise(x, y), Likewise(y, q)
  PROVE  Likewise(x, q)
BY DEF Likewise

(* The one that waits is as before, or is told that it ended badly.          *)
GoesOn(x, q) ==
  /\ x \in ReqVals /\ x.data = q.data /\ x.msg = q.msg
  /\ \/ x.ends = q.ends /\ x.active = q.active
     \/ x.ends = Append(q.ends, -1) /\ x.active = FALSE

LEMMA ToldBadly ==
  ASSUME NEW s \in Seq({0, -1})
  PROVE  LET e == Append(s, -1) IN
         /\ (\E i \in 1 .. Len(e) : e[i] = 0) <=> (\E i \in 1 .. Len(s) : s[i] = 0)
         /\ (~\E i \in 1 .. Len(s) : s[i] = 0) => \A i \in 1 .. Len(e) : e[i] # 0
<1> DEFINE e == Append(s, -1)
           n == Len(s)
<1>1. Len(e) = n + 1 /\ n \in Nat /\ e[n + 1] = -1 /\ \A i \in 1 .. n : e[i] = s[i]
  BY AppendProperties, LenProperties
<1> HIDE DEF e, n
<1>2. \A i \in 1 .. n + 1 : i = n + 1 \/ i \in 1 .. n
  BY <1>1
<1>3. \A i \in 1 .. n : i \in 1 .. n + 1
  BY <1>1
<1>4. \A i \in 1 .. n + 1 : e[i] = 0 => i \in 1 .. n /\ s[i] = 0
  BY <1>1, <1>2
<1>5. (\E i \in 1 .. n + 1 : e[i] = 0) <=> (\E i \in 1 .. n : s[i] = 0)
  BY <1>1, <1>3, <1>4
<1> QED BY <1>1, <1>4, <1>5 DEF e, n

LEMMA OnlyOne ==
  ASSUME CnnInv, mCur # None, NEW x, GoesOn(x, req[mCur]), req' = [req EXCEPT ![mCur] = x],
         UNCHANGED <<nreq, mCur, inflow, pos, f, mRecvMsg, asserted>>, One', Sends(pc), Sends(pc'),
         srv \in Full(nreq) => srv' \in Full(nreq), Sending'
  PROVE  CnnInv'
<1>1. One /\ Ends /\ Receiving /\ asserted = {}
  BY DEF CnnInv
<1>2. mCur \in Reqs /\ mCur = nreq /\ req \in [Reqs -> ReqVals]
  BY <1>1 DEF One, Reqs, None
<1>3. req'[mCur] = x /\ \A r \in Reqs : r # mCur => req'[r] = req[r]
  BY <1>2
<1>4. req[mCur].ends \in Seq({0, -1})
  BY <1>2 DEF ReqVals
<1>5. pc # "end" /\ ~EndsWell(mCur)
  BY <1>1, <1>2 DEF Ends, Sends
<1>6. /\ ~EndsWell(mCur)' /\ \A i \in 1 .. Len(x.ends) : x.ends[i] # 0
  <2>1. CASE x.ends = req[mCur].ends
    BY <1>3, <1>5, <2>1 DEF EndsWell
  <2>2. CASE x.ends = Append(req[mCur].ends, -1)
    <3> DEFINE s == req[mCur].ends
    <3>1. s \in Seq({0, -1}) /\ x.ends = Append(s, -1) /\ ~\E i \in 1 .. Len(s) : s[i] = 0
      BY <1>4, <1>5, <2>2 DEF EndsWell
    <3> HIDE DEF s
    <3>2. \A i \in 1 .. Len(x.ends) : x.ends[i] # 0
      BY <3>1, ToldBadly
    <3> QED BY <1>3, <3>2 DEF EndsWell
  <2> QED BY <2>1, <2>2 DEF GoesOn
<1>7. \A r \in Reqs : SameFor(r)
  <2> SUFFICES ASSUME NEW r \in Reqs PROVE SameFor(r)
    OBVIOUS
  <2>1. CASE r = mCur
    BY <1>3, <1>5, <1>6, <2>1 DEF SameFor, GoesOn
  <2>2. CASE r # mCur
    BY <1>3, <2>2 DEF SameFor, EndsWell
  <2> QED BY <2>1, <2>2
<1>8. Receiving'
  BY <1>1, <1>7, ReceivingKept
<1>9. Ends'
  <2> SUFFICES ASSUME NEW r \in Reqs
               PROVE  /\ \A i \in 1 .. Len(req'[r].ends) : req'[r].ends[i] = 0 => i = Len(req'[r].ends)
                      /\ r = mCur' /\ pc' # "end" => ~EndsWell(r)' /\ req'[r].msg = None
                      /\ req'[r].active => r = mCur' /\ pc' # "end"
    BY DEF Ends
  <2>1. CASE r = mCur
    <3>1. req'[r].msg = None
      BY <1>1, <1>3, <1>5, <2>1 DEF Ends, GoesOn
    <3> QED BY <1>3, <1>6, <2>1, <3>1 DEF Sends
  <2>2. CASE r # mCur
    <3>1. req'[r] = req[r]
      BY <1>3, <2>2
    <3> QED BY <1>1, <2>2, <3>1 DEF Ends
  <2> QED BY <2>1, <2>2
<1> QED BY <1>1, <1>8, <1>9 DEF CnnInv

LEMMA FreshNotFull ==
  ASSUME NEW q \in Reqs, NEW s \in Fresh(q)
  PROVE  s \notin Full(q)
<1>1. q \in Nat /\ q - 1 \in Nat /\ q - 1 # q
  BY NReqAssumption DEF Reqs
<1>2. Len(UpTo(q - 1)) # Len(UpTo(q))
  BY <1>1, UpToIs
<1> QED BY <1>2 DEF Fresh, Full

LEMMA WaitingOne ==
  ASSUME CnnInv, mCur # None
  PROVE  /\ mCur \in Reqs /\ mCur = nreq /\ req \in [Reqs -> ReqVals] /\ req[mCur] \in ReqVals
         /\ req[mCur].strm \in StrmVals /\ Carried(mCur) /\ (req[mCur].strm.hdr => Unsent(mCur))
<1>1. mCur \in Reqs /\ mCur = nreq /\ req \in [Reqs -> ReqVals]
  BY DEF CnnInv, One, Reqs, None
<1>2. req[mCur] \in ReqVals
  BY <1>1
<1>3. req[mCur].strm \in StrmVals
  BY <1>2 DEF ReqVals
<1> QED BY <1>1, <1>2, <1>3 DEF CnnInv, Sending

LEMMA TxSendKeeps ==
  ASSUME CnnInv, NEW r \in {"OK", "PENDING", "FAIL"}, TxSend(r)
  PROVE  CnnInv'
<1> DEFINE q == mCur
           s == Prepared(req[q].strm)
           toks == Offered(s)
           x == IF r = "FAIL" THEN Ended([req[q] EXCEPT !.strm = s], -1)
                ELSE [req[q] EXCEPT !.strm = Consumed(s)]
<1>1. /\ pc = "tx" /\ tx = q /\ q # None
      /\ SendPacket(r, q, toks) /\ req' = [req EXCEPT ![q] = x]
      /\ IF r = "OK" THEN UNCHANGED <<pc, tx>> ELSE pc' = ret /\ tx' = None
      /\ UNCHANGED <<nreq, mCur, mPipeList, mSendQueList, inflow, pos, f, mRecvMsg, asserted, ret>>
  <2>1. tx = q
    BY DEF TxSend, CnnInv, One
  <2> QED BY <2>1, Zenon DEF TxSend, LeaveTx, pipeVars, inVars
<1>2. /\ q \in Reqs /\ q = nreq /\ req \in [Reqs -> ReqVals] /\ req[q] \in ReqVals
      /\ req[q].strm \in StrmVals /\ Carried(q) /\ (req[q].strm.hdr => Unsent(q))
  BY <1>1, WaitingOne
<1>3. s \in StrmVals /\ s.hdr = req[q].strm.hdr /\ s.clen \in Int /\ s.hdr \in BOOLEAN
  <2>1. s \in StrmVals /\ s.hdr = req[q].strm.hdr
    BY <1>2, PreparedIs
  <2> QED BY <2>1 DEF StrmVals
<1> HIDE DEF s
<1>4. /\ s.hdr => toks = <<Tok("hdr", s.clen)>>
      /\ ~s.hdr => toks \in Seq(BodyToks)
      /\ Consumed(s) \in StrmVals /\ Consumed(s).hdr = FALSE
  BY <1>3, OfferedIs
<1> HIDE DEF toks
<1>5. GoesOn(x, req[q]) /\ (r = "FAIL" => x.strm = s) /\ (r # "FAIL" => x.strm.hdr = FALSE)
  <2>1. CASE r = "FAIL"
    <3> DEFINE y == [req[q] EXCEPT !.strm = s]
    <3>1. /\ y \in ReqVals /\ y.data = req[q].data /\ y.msg = req[q].msg /\ y.ends = req[q].ends
          /\ y.strm = s
      BY <1>2, <1>3, StrmSet
    <3>2. x = Ended(y, -1) /\ -1 \in {0, -1}
      BY <2>1
    <3> HIDE DEF y, x
    <3>3. /\ x \in ReqVals /\ x.data = y.data /\ x.msg = y.msg /\ x.active = FALSE /\ x.strm = y.strm
          /\ x.ends = Append(y.ends, -1)
      BY <3>1, <3>2, EndedIsReq
    <3> QED BY <2>1, <3>1, <3>3 DEF GoesOn
  <2>2. CASE r # "FAIL"
    <3> DEFINE u == Consumed(s)
    <3>1. x = [req[q] EXCEPT !.strm = u] /\ u \in StrmVals /\ u.hdr = FALSE
      BY <1>4, <2>2
    <3> HIDE DEF u, x
    <3>2. /\ x \in ReqVals /\ x.data = req[q].data /\ x.msg = req[q].msg /\ x.ends = req[q].ends
          /\ x.active = req[q].active /\ x.strm = u
      BY <1>2, <3>1, StrmSet
    <3> QED BY <2>2, <3>1, <3>2 DEF GoesOn
  <2> QED BY <2>1, <2>2
<1> HIDE DEF x
<1>6. /\ Carried(q)' /\ (srv \in Full(q) => srv' \in Full(q))
      /\ r = "FAIL" /\ s.hdr => Unsent(q)'
  <2>1. CASE s.hdr
    <3>1. Unsent(q) /\ SendPacket(r, q, <<Tok("hdr", s.clen)>>)
      BY <1>1, <1>2, <1>3, <1>4, <2>1
    <3>2. Carried(q)' /\ (r \notin {"OK", "PENDING"} => Unsent(q)')
      BY <1>1, <1>2, <1>3, <3>1, HeaderSent
    <3>3. srv \notin Full(q)
      BY <1>2, <3>1, FreshNotFull DEF Unsent
    <3> QED BY <3>2, <3>3
  <2>2. CASE ~s.hdr
    BY <1>1, <1>2, <1>4, <2>2, BodySent
  <2> QED BY <2>1, <2>2
<1>7. req' \in [Reqs -> ReqVals] /\ req'[q] = x
  BY <1>1, <1>2, <1>5 DEF GoesOn
<1>8. One'
  BY <1>1, <1>7 DEF CnnInv, One
<1>9. Sending'
  BY <1>1, <1>2, <1>5, <1>6, <1>7 DEF Sending, Carried, Unsent
<1>10. Sends(pc) /\ Sends(pc')
  BY <1>1 DEF CnnInv, One, Sends
<1> QED BY <1>1, <1>2, <1>5, <1>6, <1>8, <1>9, <1>10, OnlyOne DEF q

LEMMA LackKeeps ==
  ASSUME CnnInv, TxLack
  PROVE  CnnInv'
<1> DEFINE q == mCur
           y == [req[q] EXCEPT !.pause = TRUE]
           x == [y EXCEPT !.asked = TRUE]
<1>1. /\ pc = "tx" /\ tx = q /\ q # None /\ pc' = "under"
      /\ req' = [req EXCEPT ![q].pause = TRUE, ![q].asked = TRUE]
      /\ UNCHANGED <<nreq, mCur, mPipeList, mSendQueList, inflow, pos, f, mRecvMsg, asserted, tx, ret, srv, held>>
  <2>1. tx = q
    BY DEF TxLack, CnnInv, One
  <2> QED BY <2>1, Zenon DEF TxLack, pipeVars, inVars, txVars, sockVars
<1>2. /\ q \in Reqs /\ q = nreq /\ req \in [Reqs -> ReqVals] /\ req[q] \in ReqVals
  BY <1>1, WaitingOne
<1>3. req' = [req EXCEPT ![q] = x]
  BY <1>1, <1>2
<1>4. Likewise(x, req[q])
  <2>1. 0 \in Int /\ << >> \in Seq(BodyToks)
    OBVIOUS
  <2>2. Likewise(y, req[q])
    BY <1>2, <2>1, FieldSet
  <2> HIDE DEF y
  <2>3. Likewise(x, y)
    BY <2>1, <2>2, FieldSet DEF Likewise
  <2> QED BY <2>2, <2>3, Likewise2
<1> HIDE DEF x
<1>5. GoesOn(x, req[q])
  BY <1>4 DEF GoesOn, Likewise
<1>6. req' \in [Reqs -> ReqVals] /\ req'[q] = x /\ x.strm = req[q].strm
  BY <1>2, <1>3, <1>4 DEF Likewise
<1>7. One'
  BY <1>1, <1>6 DEF CnnInv, One
<1>8. Sending'
  BY <1>1, <1>2, <1>6 DEF CnnInv, Sending, Carried, Unsent
<1>9. Sends(pc) /\ Sends(pc')
  BY <1>1 DEF Sends
<1> QED BY <1>1, <1>3, <1>5, <1>7, <1>8, <1>9, OnlyOne DEF q

LEMMA BodyKeeps ==
  ASSUME CnnInv, mCur # None, NEW toks \in Seq(BodyToks), NEW res, SendPacket(res, mCur, toks),
         NEW x, Likewise(x, req[mCur]), req' = [req EXCEPT ![mCur] = x], Sends(pc),
         UNCHANGED <<nreq, mCur, mPipeList, mSendQueList, inflow, pos, f, mRecvMsg, asserted, tx, ret, pc>>
  PROVE  CnnInv'
<1>1. /\ mCur \in Reqs /\ mCur = nreq /\ req \in [Reqs -> ReqVals] /\ Carried(mCur)
      /\ (req[mCur].strm.hdr => Unsent(mCur))
  BY WaitingOne
<1>2. /\ Carried(mCur)' /\ (srv \in Full(mCur) => srv' \in Full(mCur))
      /\ Unsent(mCur) => Unsent(mCur)'
  BY <1>1, BodySent
<1>3. GoesOn(x, req[mCur])
  BY DEF GoesOn, Likewise
<1>4. req' \in [Reqs -> ReqVals] /\ req'[mCur] = x /\ x.strm = req[mCur].strm
  BY <1>1 DEF Likewise
<1>5. One'
  BY <1>4 DEF CnnInv, One
<1>6. Sending'
  BY <1>1, <1>2, <1>4 DEF Sending
<1>7. srv \in Full(nreq) => srv' \in Full(nreq)
  BY <1>1, <1>2
<1> QED BY <1>3, <1>5, <1>6, <1>7, OnlyOne DEF Sends

LEMMA SendDataKeeps ==
  ASSUME CnnInv, NEW r \in Reqs, NEW n \in 0 .. MaxLen, SendData(r, n)
  PROVE  CnnInv'
<1>1. /\ (pc = "under" /\ r = tx) \/ (pc = "idle" /\ req[r].active)
      /\ UNCHANGED <<nreq, mCur, mPipeList, mSendQueList, inflow, pos, f, mRecvMsg, asserted, tx, ret, pc>>
  BY Zenon DEF SendData, pipeVars, inVars, txVars
<1>2. PICK res : SendPlain(r, n, res) \/ SendTec(r, n, res)
  BY DEF SendData
<1>3. r = mCur /\ mCur # None /\ Sends(pc)
  <2>1. r # None
    BY DEF Reqs, None
  <2> QED BY <1>1, <2>1 DEF CnnInv, One, Ends, Sends
<1>4. req \in [Reqs -> ReqVals] /\ req[r] \in ReqVals
  BY <1>3, WaitingOne
<1> DEFINE q == req[r]
           sent == q.wcnt + n
           over == q.wcnt + n >= q.body.clen
           last == n = 0
           none == << >>
<1>5. /\ n \in Int /\ 0 \in Int /\ q.wcnt \in Int /\ q.body.clen \in Int /\ q.buf \in Seq(BodyToks)
      /\ none \in Seq(BodyToks)
  <2>1. q.body \in BodyVals /\ q.wcnt \in Int /\ q.buf \in Seq(BodyToks)
    BY <1>4 DEF ReqVals
  <2> QED BY <2>1, MaxLenAssumption DEF BodyVals
<1>6. sent \in Int /\ over \in BOOLEAN /\ last \in BOOLEAN /\ FALSE \in BOOLEAN
  BY <1>5
<1>7. \A t \in BodyToks : <<t>> \in Seq(BodyToks)
  OBVIOUS
<1>8. CASE SendPlain(r, n, res)
  <2> DEFINE toks == <<Tok("data", n)>>
             a == [q EXCEPT !.pause = FALSE]
             b == [a EXCEPT !.wcnt = sent]
             d == [b EXCEPT !.eos = over]
             x == IF res = "FAIL" THEN q ELSE d
  <2>1. toks \in Seq(BodyToks)
    BY <1>5, <1>7, BodyTokIs
  <2>2. SendPacket(res, r, toks)
    BY <1>8 DEF SendPlain
  <2>3. req' = [req EXCEPT ![r] = x]
    <3>1. CASE res = "FAIL"
      BY <1>4, <1>8, <3>1 DEF SendPlain
    <3>2. CASE res # "FAIL"
      BY <1>4, <1>8, <3>2 DEF SendPlain
    <3> QED BY <3>1, <3>2
  <2>4. Likewise(x, q)
    <3> HIDE DEF q, over, sent
    <3>0. q \in ReqVals /\ Likewise(q, q)
      BY <1>4 DEF q, Likewise
    <3>1. Likewise(a, q)
      BY <1>5, <1>6, <3>0, FieldSet
    <3> HIDE DEF a
    <3>2. a \in ReqVals
      BY <3>1 DEF Likewise
    <3>3. Likewise(b, a)
      BY <1>5, <1>6, <3>2, FieldSet
    <3> HIDE DEF b
    <3>4. b \in ReqVals
      BY <3>3 DEF Likewise
    <3>5. Likewise(d, b)
      BY <1>5, <1>6, <3>4, FieldSet
    <3> HIDE DEF d
    <3>6. Likewise(d, q)
      BY <3>1, <3>3, <3>5, Likewise2
    <3> QED BY <3>0, <3>6
  <2> HIDE DEF x, toks
  <2> QED BY <1>1, <1>3, <2>1, <2>2, <2>3, <2>4, BodyKeeps DEF q
<1>9. CASE SendTec(r, n, res)
  <2> DEFINE tok == IF n = 0 THEN Tok("last", 0) ELSE Tok("chunk", n)
             toks == Append(q.buf, tok)
             buf == IF res = "FAIL" THEN toks ELSE none
             a == [q EXCEPT !.buf = buf]
             b == [a EXCEPT !.eos = last]
             d == [b EXCEPT !.pause = FALSE]
             e == [d EXCEPT !.wcnt = sent]
             x == IF res = "FAIL" THEN b ELSE e
  <2>1. toks \in Seq(BodyToks) /\ buf \in Seq(BodyToks)
    <3>1. tok \in BodyToks
      BY <1>5, BodyTokIs
    <3> HIDE DEF tok, none
    <3> QED BY <1>5, <3>1, AppendProperties
  <2>2. SendPacket(res, r, toks)
    BY <1>9 DEF SendTec
  <2>3. req' = [req EXCEPT ![r] = x]
    <3>1. CASE res = "FAIL"
      BY <1>4, <1>9, <3>1 DEF SendTec
    <3>2. CASE res # "FAIL"
      BY <1>4, <1>9, <3>2 DEF SendTec
    <3> QED BY <3>1, <3>2
  <2>4. Likewise(x, q)
    <3> HIDE DEF q, last, sent, toks, buf
    <3>0. q \in ReqVals
      BY <1>4 DEF q
    <3>1. Likewise(a, q)
      BY <1>5, <1>6, <2>1, <3>0, FieldSet
    <3> HIDE DEF a
    <3>2. a \in ReqVals
      BY <3>1 DEF Likewise
    <3>3. Likewise(b, a)
      BY <1>5, <1>6, <3>2, FieldSet
    <3> HIDE DEF b
    <3>4. b \in ReqVals /\ Likewise(b, q)
      BY <3>1, <3>3, Likewise2 DEF Likewise
    <3>5. Likewise(d, b)
      BY <1>5, <1>6, <3>4, FieldSet
    <3> HIDE DEF d
    <3>6. d \in ReqVals /\ Likewise(d, q)
      BY <3>4, <3>5, Likewise2 DEF Likewise
    <3>7. Likewise(e, d)
      BY <1>5, <1>6, <3>6, FieldSet
    <3> HIDE DEF e
    <3>8. Likewise(e, q)
      BY <3>6, <3>7, Likewise2
    <3> QED BY <3>4, <3>8
  <2> HIDE DEF x, toks
  <2> QED BY <1>1, <1>3, <2>1, <2>2, <2>3, <2>4, BodyKeeps DEF q
<1> QED BY <1>2, <1>8, <1>9

(* The packet that waited goes, and the connection ends: every request that  *)
(* waits is told.                                                            *)
LEMMA FlushKeeps ==
  ASSUME CnnInv, Flush
  PROVE  CnnInv'
<1>1. /\ srv' = ReadAll(srv, held) /\ held' = << >>
      /\ UNCHANGED <<nreq, req, mCur, mPipeList, mSendQueList, inflow, pos, f, mRecvMsg, asserted, tx, ret, pc>>
  BY Zenon DEF Flush, reqVars, pipeVars, inVars, txVars
<1>2. One /\ Sending /\ Ends /\ Receiving /\ asserted = {}
  BY DEF CnnInv
<1>3. nreq \in 0 .. NReq /\ Carried(nreq)
  BY <1>2 DEF One, Sending
<1>4. Carried(nreq)' /\ (srv \in Full(nreq) => srv' \in Full(nreq)) /\ (Unsent(nreq) => Unsent(nreq)')
  BY <1>1, <1>3, HeldGoes
<1>5. \A r \in Reqs : SameFor(r)
  BY <1>1 DEF SameFor, EndsWell
<1>6. Receiving'
  BY <1>1, <1>2, <1>4, <1>5, ReceivingKept
<1>7. Sending'
  BY <1>1, <1>2, <1>4 DEF Sending
<1>8. Ends' /\ One'
  BY <1>1, <1>2 DEF Ends, EndsWell, One
<1> QED BY <1>1, <1>2, <1>6, <1>7, <1>8 DEF CnnInv

LEMMA DisconnectedKeeps ==
  ASSUME CnnInv, Disconnected
  PROVE  CnnInv'
<1>1. /\ pc = "idle"
      /\ req' = [r \in Reqs |->
                 IF ~Waiting(r) THEN req[r] ELSE Ended(req[r], IF req[r].msg = None THEN -1 ELSE 0)]
      /\ UNCHANGED <<nreq, mCur, mPipeList, mSendQueList, inflow, pos, f, mRecvMsg, asserted, tx, ret, pc,
                     held, srv>>
  BY Zenon DEF Disconnected, pipeVars, inVars, txVars
<1>2. /\ mPipeList = << >> /\ One /\ req \in [Reqs -> ReqVals]
      /\ \A r \in Reqs : r = mCur => req[r].msg = None
  BY <1>1 DEF CnnInv, One, Ends
<1>3. \A r : Waiting(r) <=> r = mCur
  <2>1. DOMAIN mPipeList = {}
    BY <1>2
  <2> QED BY <2>1 DEF Waiting
<1>4. \A r \in Reqs : r # mCur => req'[r] = req[r]
  BY <1>1, <1>3
<1>5. CASE mCur = None
  <2>1. req' = req
    <3>1. \A r \in Reqs : r # mCur
      BY <1>5 DEF Reqs, None
    <3> QED BY <1>1, <1>2, <1>3, <3>1
  <2>2. One'
    BY <1>1, <1>2, <2>1 DEF One
  <2> QED BY <1>1, <2>1, <2>2, QuietKeeps
<1>6. CASE mCur # None
  <2> DEFINE x == Ended(req[mCur], -1)
  <2>1. mCur \in Reqs /\ req[mCur] \in ReqVals /\ mCur = nreq /\ req[mCur].msg = None
    BY <1>2, <1>6, WaitingOne
  <2>2. /\ x \in ReqVals /\ x.data = req[mCur].data /\ x.msg = req[mCur].msg /\ x.active = FALSE
        /\ x.strm = req[mCur].strm /\ x.ends = Append(req[mCur].ends, -1)
    <3>1. -1 \in {0, -1}
      OBVIOUS
    <3> QED BY <2>1, <3>1, EndedIsReq
  <2>3. req'[mCur] = x
    BY <1>1, <1>3, <2>1
  <2> HIDE DEF x
  <2>4. GoesOn(x, req[mCur])
    BY <2>2 DEF GoesOn
  <2>5. req' = [req EXCEPT ![mCur] = x]
    <3> DEFINE y == [req EXCEPT ![mCur] = x]
    <3>1. y \in [Reqs -> ReqVals] /\ y[mCur] = x /\ \A r \in Reqs : r # mCur => y[r] = req[r]
      BY <1>2, <2>1, <2>2
    <3>2. \A r \in Reqs : req'[r] = y[r]
      BY <1>4, <2>3, <3>1
    <3>3. DOMAIN y = Reqs /\ DOMAIN req' = Reqs
      BY <1>1, <3>1
    <3> HIDE DEF y
    <3>4. req' = [r \in Reqs |-> req'[r]] /\ y = [r \in Reqs |-> y[r]]
      BY <1>1, <3>1, <3>3
    <3> QED BY <3>2, <3>4 DEF y
  <2>6. req' \in [Reqs -> ReqVals]
    BY <1>2, <2>1, <2>2, <2>5
  <2>7. One'
    BY <1>1, <1>2, <2>6 DEF One
  <2>8. Sending'
    BY <1>1, <2>1, <2>2, <2>3 DEF CnnInv, Sending, Carried, Unsent
  <2>9. Sends(pc) /\ Sends(pc')
    BY <1>1 DEF Sends
  <2> QED BY <1>1, <1>6, <2>4, <2>5, <2>7, <2>8, <2>9, OnlyOne
<1> QED BY <1>5, <1>6

-----------------------------------------------------------------------------
(* A request is made: none waits, so the server has read those before whole, *)
(* and every response was read to its end.                                   *)
LEMMA OldPackets ==
  ASSUME NEW q \in Nat, NEW w \in Seq(BodyPart(q))
  PROVE  w \in Seq(BodyPart(q + 1))
<1>1. BodyPart(q) \subseteq BodyPart(q + 1)
  <2>1. 1 .. q \subseteq 1 .. q + 1
    OBVIOUS
  <2> QED BY <2>1 DEF BodyPart
<1>2. w = [i \in 1 .. Len(w) |-> w[i]] /\ Len(w) \in Nat /\ \A i \in 1 .. Len(w) : w[i] \in BodyPart(q)
  BY LenProperties, ElementOfSeq
<1>3. \A i \in 1 .. Len(w) : w[i] \in BodyPart(q + 1)
  BY <1>1, <1>2
<1> HIDE DEF BodyPart
<1> QED BY <1>2, <1>3

LEMMA RequestKeeps ==
  ASSUME CnnInv, ~Pipelined, NEW b \in ReqBodies, Request(b)
  PROVE  CnnInv'
<1> DEFINE r == nreq + 1
           x == NewReq(b)
<1>1. /\ One /\ Sending /\ Ends /\ Receiving /\ asserted = {} /\ nreq \in 0 .. NReq /\ req \in [Reqs -> ReqVals]
      /\ NReq \in Nat \ {0}
  BY NReqAssumption DEF CnnInv, One
<1>2. /\ mCur = None /\ nreq < NReq /\ pc \in {"idle", "end"} /\ nreq' = r /\ req' = [req EXCEPT ![r] = x]
      /\ mCur' = r /\ UNCHANGED <<mPipeList, mSendQueList, held, srv, inflow, pos, f, mRecvMsg, asserted>>
  BY DEF Request, AddMsgStream, inVars
<1>3. pc = "idle" /\ tx = None /\ ret = "idle"
  BY <1>1, <1>2 DEF One
<1>4. \/ tx' = mCur' /\ ret' = pc /\ pc' = "tx"
      \/ UNCHANGED <<pc, tx, ret>>
  BY DEF Request, StartTx, txVars
<1>5. x \in ReqVals /\ x.data = << >> /\ x.ends = << >> /\ x.msg = None
  <2>1. b \in BodyVals
    <3>1. b \in Bodies
      BY BodiesAssumption
    <3> QED BY <3>1, MaxLenAssumption DEF Bodies, BodyVals, NoStrm, ChunkedLen
  <2> QED BY <2>1, NewReqIs
<1> HIDE DEF x
<1>6. r \in Reqs /\ r # None /\ r - 1 = nreq /\ r # nreq /\ nreq \in Nat
  BY <1>1, <1>2 DEF Reqs, None
<1>7. req' \in [Reqs -> ReqVals] /\ req'[r] = x /\ \A q \in Reqs : q # r => req'[q] = req[q]
  BY <1>1, <1>2, <1>5, <1>6
<1>8. PICK m, n, off, c, k : Receives(m, n, off, c, k)
  BY <1>1 DEF Receiving
<1>9. NoneWaits(m, n, c, k)
  BY <1>2, <1>8 DEF Receives, Awaits, Arrives, Fetched
<1>10. n = nreq /\ mRecvMsg = nreq /\ Over(m, c, k) /\ srv \in Full(nreq)
  BY <1>8, <1>9 DEF NoneWaits, Receives
<1>11. Unsent(r)
  <2>1. srv \in Fresh(r)
    BY <1>6, <1>10 DEF Fresh, Full
  <2>2. held \in Seq(BodyPart(nreq))
    BY <1>1, <1>10, FreshNotFull DEF Sending, Carried
  <2>3. held \in Seq(BodyPart(r))
    BY <1>6, <2>2, OldPackets
  <2> QED BY <2>1, <2>3 DEF Unsent
<1>12. One'
  <2>1. r \in 0 .. NReq
    BY <1>1, <1>6 DEF Reqs
  <2> QED BY <1>1, <1>2, <1>3, <1>4, <1>7, <2>1 DEF One
<1>13. Sending'
  BY <1>2, <1>11 DEF Sending, Carried, Unsent, Reached
<1>14. Len(<< >>) = 0 /\ \A i \in 1 .. 0 : FALSE
  OBVIOUS
<1>15. \A q \in Reqs : q # r => (EndsWell(q)' <=> EndsWell(q))
  BY <1>7 DEF EndsWell
<1>16. Ends'
  <2> SUFFICES ASSUME NEW q \in Reqs
               PROVE  /\ \A i \in 1 .. Len(req'[q].ends) : req'[q].ends[i] = 0 => i = Len(req'[q].ends)
                      /\ q = mCur' /\ pc' # "end" => ~EndsWell(q)' /\ req'[q].msg = None
                      /\ req'[q].active => q = mCur' /\ pc' # "end"
    BY DEF Ends
  <2>1. CASE q = r
    <3>1. ~EndsWell(q)'
      BY <1>2, <1>7, <1>5, <1>14, <2>1 DEF EndsWell
    <3>2. pc' # "end"
      BY <1>3, <1>4
    <3> QED BY <1>2, <1>5, <1>7, <1>14, <2>1, <3>1, <3>2
  <2>2. CASE q # r
    <3>1. req'[q] = req[q] /\ q # mCur' /\ q # mCur
      <4>1. q # None
        BY DEF Reqs, None
      <4> QED BY <1>2, <1>7, <2>2, <4>1
    <3> QED BY <1>1, <3>1 DEF Ends
  <2> QED BY <2>1, <2>2
<1>17. Owns(m, n)'
  <2> SUFFICES ASSUME NEW q \in Reqs
               PROVE  /\ AllOf(req'[q].data, q)
                      /\ EndsWell(q)' => /\ req'[q].msg = q /\ q <= n
                                         /\ m[q].units <= MaxRecv => Len(req'[q].data) = m[q].units
    BY DEF Owns
  <2>1. CASE q = r
    <3>1. ~EndsWell(q)'
      BY <1>2, <1>7, <1>5, <1>14, <2>1 DEF EndsWell
    <3> QED BY <1>5, <1>7, <1>14, <2>1, <3>1 DEF AllOf
  <2>2. CASE q # r
    <3>1. req'[q] = req[q] /\ (EndsWell(q)' <=> EndsWell(q))
      BY <1>7, <1>15, <2>2
    <3> QED BY <1>8, <3>1 DEF Receives, Owns
  <2> QED BY <2>1, <2>2
<1>18. Awaits(m, c, k)'
  <2>1. Over(m, c, k)'
    BY <1>2, <1>10 DEF Over
  <2>2. pc' \in {"idle", "tx", "under"}
    BY <1>3, <1>4
  <2>3. req'[nreq'].data = << >>
    BY <1>2, <1>5, <1>7
  <2>4. mCur' # None /\ mRecvMsg' = nreq' - 1
    BY <1>2, <1>6, <1>10
  <2> QED BY <2>1, <2>2, <2>3, <2>4 DEF Awaits
<1>19. Receives(m, n, off, c, k)'
  <2>1. Counted(m, n)'
    BY <1>2, <1>8 DEF Receives, Counted
  <2>2. n \in {nreq' - 1, nreq'} /\ n # nreq'
    BY <1>2, <1>6, <1>10
  <2> QED BY <1>2, <1>8, <1>17, <1>18, <2>1, <2>2 DEF Receives
<1> QED BY <1>1, <1>2, <1>12, <1>13, <1>16, <1>19 DEF CnnInv, Receiving

-----------------------------------------------------------------------------
(* The server answers: one more response is laid after those it sent.        *)
LEMMA KindsAre ==
  ASSUME NEW c, NEW x \in Msgs, NEW k \in 1 .. Length(x), NEW e, IsTok(e, c, x, k)
  PROVE  e.id = c /\ (e.t = "begin" <=> k = 1) /\ (e.t = "body" <=> k \in 3 .. 2 + x.units)
<1>1. x.units \in Nat /\ k \in Nat /\ k >= 1 /\ k <= Length(x)
      /\ (Length(x) = 3 + x.units \/ Length(x) = 2 + x.units)
  BY LengthIs
<1>2. k = 1 \/ k = 2 \/ (k > 2 /\ k <= 2 + x.units) \/ k = 3 + x.units
  BY <1>1
<1>3. k > 2 /\ k <= 2 + x.units <=> k \in 3 .. 2 + x.units
  BY <1>1
<1>4. k = 3 + x.units => k # 1 /\ ~(k > 2 /\ k <= 2 + x.units)
  BY <1>1
<1> QED BY <1>1, <1>2, <1>3, <1>4 DEF IsTok

LEMMA CountsGrow ==
  ASSUME NEW s \in Seq(TokenVals), NEW t \in Seq(TokenVals), NEW c \in Nat, NEW x \in Msgs,
         Len(t) = Length(x), \A k \in 1 .. Length(x) : IsTok(t[k], c, x, k)
  PROVE  /\ Cardinality(Starts(s \o t)) = Cardinality(Starts(s)) + 1
         /\ \A r : r # c => Units(s \o t, r) = Units(s, r)
         /\ Cardinality(Units(s, c)) = 0 => Cardinality(Units(s \o t, c)) = x.units
<1> DEFINE n == Len(s)
           l == Length(x)
           st == s \o t
<1>1. /\ n \in Nat /\ l \in Nat /\ l >= 2 /\ x.units \in Nat /\ 2 + x.units <= l
      /\ DOMAIN s = 1 .. n
  BY LengthIs, LenProperties
<1>2. /\ st \in Seq(TokenVals) /\ Len(st) = n + l
      /\ \A i \in 1 .. n + l : st[i] = IF i <= n THEN s[i] ELSE t[i - n]
  BY ConcatProperties
<1> HIDE DEF st
<1>3. DOMAIN st = 1 .. n + l
  BY <1>2, LenProperties
<1>4. \A k \in 1 .. l : t[k].id = c /\ (t[k].t = "begin" <=> k = 1) /\ (t[k].t = "body" <=> k \in 3 .. 2 + x.units)
  BY KindsAre
<1> HIDE DEF n, l
<1>5. /\ \A i \in 1 .. n : i \in DOMAIN st /\ st[i] = s[i]
      /\ \A i \in DOMAIN st : i \in 1 .. n \/ (i - n \in 1 .. l /\ st[i] = t[i - n] /\ i \notin 1 .. n)
      /\ \A k \in 1 .. l : n + k \in DOMAIN st /\ n + k \notin 1 .. n /\ st[n + k] = t[k]
  <2>1. \A i \in 1 .. n : i \in 1 .. n + l /\ i <= n
    BY <1>1
  <2>2. \A i \in 1 .. n + l : i \in 1 .. n \/ (i - n \in 1 .. l /\ ~(i <= n) /\ i \notin 1 .. n)
    BY <1>1
  <2>3. ASSUME NEW k \in 1 .. l PROVE n + k \in 1 .. n + l /\ n + k \notin 1 .. n /\ st[n + k] = t[k]
    <3> DEFINE j == n + k
    <3>1. j \in 1 .. n + l /\ ~(j <= n) /\ j \notin 1 .. n /\ j - n = k
      BY <1>1
    <3> HIDE DEF j
    <3>2. st[j] = t[k]
      BY <1>2, <3>1
    <3> QED BY <3>1, <3>2 DEF j
  <2> QED BY <1>2, <1>3, <2>1, <2>2, <2>3
<1>6. IsFiniteSet(Starts(s)) /\ \A r : IsFiniteSet(Units(s, r))
  <2>1. IsFiniteSet(1 .. n)
    BY <1>1, FS_Interval
  <2>2. Starts(s) \in SUBSET (1 .. n) /\ \A r : Units(s, r) \in SUBSET (1 .. n)
    BY <1>1 DEF Starts, Units
  <2> QED BY <2>1, <2>2, FS_Subset
<1>7. Cardinality(Starts(st)) = Cardinality(Starts(s)) + 1
  <2>1. 1 \in 1 .. l
    BY <1>1
  <2>2. Starts(st) = Starts(s) \cup {n + 1}
    <3>1. ASSUME NEW i \in Starts(st) PROVE i \in Starts(s) \/ i = n + 1
      <4>1. i \in DOMAIN st /\ st[i].t = "begin"
        BY <3>1 DEF Starts
      <4>2. CASE i \in 1 .. n
        BY <1>1, <1>5, <4>1, <4>2 DEF Starts
      <4>3. CASE i \notin 1 .. n
        <5>1. i - n = 1
          BY <1>4, <1>5, <4>1, <4>3
        <5>2. i \in Int
          BY <1>3, <4>1
        <5> QED BY <1>1, <5>1, <5>2
      <4> QED BY <4>2, <4>3
    <3>2. ASSUME NEW i \in Starts(s) PROVE i \in Starts(st)
      BY <1>1, <1>5 DEF Starts
    <3>3. n + 1 \in Starts(st)
      <4>1. st[n + 1] = t[1]
        BY <1>5, <2>1
      <4> QED BY <1>4, <1>5, <2>1, <4>1 DEF Starts
    <3> QED BY <3>1, <3>2, <3>3
  <2>3. n + 1 \notin Starts(s)
    BY <1>1, <1>5, <2>1 DEF Starts
  <2> QED BY <1>6, <2>2, <2>3, FS_AddElement
<1>8. ASSUME NEW r, r # c PROVE Units(st, r) = Units(s, r)
  <2>1. \A i \in DOMAIN st : st[i].id = r => i \in 1 .. n
    BY <1>4, <1>5, <1>8
  <2>2. ASSUME NEW i PROVE i \in Units(st, r) <=> i \in Units(s, r)
    <3>1. CASE i \in 1 .. n
      <4>1. i \in DOMAIN st /\ i \in DOMAIN s /\ st[i] = s[i]
        BY <1>1, <1>5, <3>1
      <4> QED BY <4>1 DEF Units
    <3>2. CASE i \notin 1 .. n
      BY <1>1, <2>1, <3>2 DEF Units
    <3> QED BY <3>1, <3>2
  <2> QED BY <2>2
<1>9. ASSUME Cardinality(Units(s, c)) = 0 PROVE Cardinality(Units(st, c)) = x.units
  <2>1. Units(s, c) = {}
    BY <1>6, <1>9, FS_EmptySet
  <2> DEFINE a == n + 3
             b == n + 2 + x.units
  <2>2. Units(st, c) = a .. b
    <3>1. ASSUME NEW i \in Units(st, c) PROVE i \in a .. b
      <4>1. i \in DOMAIN st /\ st[i].id = c /\ st[i].t = "body" /\ i \in Int
        BY <1>3, <3>1 DEF Units
      <4>2. i \notin 1 .. n
        <5>1. ASSUME i \in 1 .. n PROVE FALSE
          <6>1. i \in Units(s, c)
            BY <1>1, <1>5, <4>1, <5>1 DEF Units
          <6> QED BY <2>1, <6>1
        <5> QED BY <5>1
      <4>3. i - n \in 3 .. 2 + x.units
        BY <1>4, <1>5, <4>1, <4>2
      <4> QED BY <1>1, <4>1, <4>3
    <3>2. ASSUME NEW i \in a .. b PROVE i \in Units(st, c)
      <4> DEFINE k == i - n
      <4>1. k \in 3 .. 2 + x.units /\ k \in 1 .. l /\ n + k = i
        BY <1>1
      <4> HIDE DEF k
      <4>2. i \in DOMAIN st /\ st[i] = t[k]
        <5>1. n + k \in DOMAIN st /\ st[n + k] = t[k]
          BY <1>5, <4>1
        <5> QED BY <4>1, <5>1
      <4> QED BY <1>4, <4>1, <4>2 DEF Units
    <3> QED BY <3>1, <3>2
  <2>3. a \in Int /\ b \in Int /\ (a > b => x.units = 0) /\ (~(a > b) => b - a + 1 = x.units)
    BY <1>1
  <2> HIDE DEF a, b
  <2> QED BY <2>2, <2>3, FS_Interval
<1> QED BY <1>7, <1>8, <1>9 DEF st

(* What is known of the messages received does not change with the last one. *)
LEMMA FrameAgrees ==
  ASSUME NEW g, NEW m, NEW mm, NEW c, NEW k, NEW h, FrameAt(g, m, c, k, h),
         \A d \in 1 .. c : d < c \/ k >= 2 => mm[d] = m[d]
  PROVE  FrameAt(g, mm, c, k, h)
<1>1. c \in Nat \ {0} /\ k \in Nat /\ g \in Frames /\ Len(g.list) <= c - 1
  BY DEF FrameAt, Sized
<1>2. Len(g.list) \in Nat
  BY <1>1, LenProperties DEF Frames
<1>3. Listed(g, mm, c, h)
  <2> SUFFICES ASSUME NEW i \in 1 .. Len(g.list)
               PROVE  LET d == c - 1 - Len(g.list) + i IN
                      /\ Whole(g.list[i], mm, d)
                      /\ IF i = 1 /\ Taken(g, c, h) THEN Begun(g.list[i], mm, d) ELSE Waits(g.list[i], mm, d)
    BY DEF Listed
  <2> DEFINE d == c - 1 - Len(g.list) + i
  <2>1. d \in 1 .. c /\ d < c
    BY <1>1, <1>2
  <2>2. /\ Whole(g.list[i], m, d)
        /\ IF i = 1 /\ Taken(g, c, h) THEN Begun(g.list[i], m, d) ELSE Waits(g.list[i], m, d)
    BY DEF FrameAt, Listed
  <2> HIDE DEF d
  <2>3. mm[d] = m[d]
    BY <2>1
  <2>4. /\ Whole(g.list[i], mm, d)
        /\ IF i = 1 /\ Taken(g, c, h) THEN Begun(g.list[i], mm, d) ELSE Waits(g.list[i], mm, d)
    BY <2>2, <2>3 DEF Whole, Begun, Waits
  <2> QED BY <2>4 DEF d
<1>4. Current(g, mm, c, k, h)
  <2>1. k >= 2 => mm[c] = m[c]
    <3>1. c \in 1 .. c
      BY <1>1
    <3> QED BY <3>1
  <2> QED BY <2>1 DEF FrameAt, Current, Holds, Unread, Reading
<1> QED BY <1>3, <1>4 DEF FrameAt

AddsUp(m, n, off) == off[1] = 0 /\ \A d \in 1 .. n : off[d + 1] = off[d] + Length(m[d])

LEMMA OffsetsAgree ==
  ASSUME NEW m, NEW mm, NEW n \in Nat, NEW off, NEW on, AddsUp(m, n, off), AddsUp(mm, n, on),
         \A d \in 1 .. n : mm[d] = m[d]
  PROVE  \A d \in 1 .. n + 1 : on[d] = off[d]
<1> DEFINE T == {d \in Nat : d \in 1 .. n + 1 => on[d] = off[d]}
<1>1. 0 \in T
  OBVIOUS
<1>2. ASSUME NEW d \in T PROVE d + 1 \in T
  <2>1. CASE d = 0
    BY <2>1 DEF AddsUp
  <2>2. CASE d # 0 /\ d + 1 \in 1 .. n + 1
    <3>1. d \in 1 .. n /\ d \in 1 .. n + 1
      BY <2>2
    <3>2. on[d] = off[d]
      BY <3>1
    <3>3. on[d + 1] = off[d + 1]
      BY <3>1, <3>2 DEF AddsUp
    <3> QED BY <3>3
  <2> QED BY <2>1, <2>2
<1>3. T = Nat
  <2> HIDE DEF T
  <2>1. T \in SUBSET Nat
    BY DEF T
  <2> QED BY <1>1, <1>2, <2>1, NatSetInduction
<1> QED BY <1>3

(* One more response y after n of them.                                      *)
Added(m, n, y) == [d \in 1 .. n + 1 |-> IF d = n + 1 THEN y ELSE m[d]]

LEMMA OneMore ==
  ASSUME NEW s \in Seq(TokenVals), NEW m, NEW n, NEW off, Laid(s, m, n, off), Len(s) = off[n + 1],
         NEW y \in Msgs, NEW t, t = MsgTokens(n + 1, y.clen, y.units), NEW p, NEW c, NEW k,
         At(m, n, off, p, c, k)
  PROVE  /\ s \o t \in Seq(TokenVals)
         /\ LET st == s \o t
                mm == Added(m, n, y)
            IN \E on : Laid(st, mm, n + 1, on) /\ Len(st) = on[n + 1 + 1] /\ At(mm, n + 1, on, p, c, k)
<1> DEFINE mm == Added(m, n, y)
<1>1. n \in Nat /\ mm[n + 1] = y /\ \A d \in 1 .. n : mm[d] = m[d]
  BY DEF Laid, Added
<1> HIDE DEF mm
<1>2. LaidWhole(s, mm, n)
  <2>1. Laid(s, mm, n, off)
    BY <1>1 DEF Laid
  <2> QED BY <2>1 DEF LaidWhole
<1>3. LaidWhole(s \o t, mm, n + 1)
  BY <1>1, <1>2, LaidOn
<1> DEFINE st == s \o t
<1> HIDE DEF st
<1>4. st \in Seq(TokenVals) /\ \E on : Laid(st, mm, n + 1, on) /\ Len(st) = on[n + 1 + 1]
  BY <1>3 DEF LaidWhole, st
<1>5. PICK on : Laid(st, mm, n + 1, on) /\ Len(st) = on[n + 1 + 1]
  BY <1>4
<1>6. \A d \in 1 .. n + 1 : on[d] = off[d]
  <2>1. off[1] = 0 /\ \A d \in 1 .. n : off[d + 1] = off[d] + Length(m[d])
    BY DEF Laid
  <2>2. on[1] = 0 /\ \A d \in 1 .. n + 1 : on[d + 1] = on[d] + Length(mm[d])
    BY <1>5 DEF Laid
  <2>3. \A d \in 1 .. n : d \in 1 .. n + 1
    BY <1>1
  <2>4. n \in Nat /\ AddsUp(m, n, off) /\ AddsUp(mm, n, on)
    BY <1>1, <2>1, <2>2, <2>3 DEF AddsUp
  <2> QED BY <1>1, <2>4, OffsetsAgree
<1>7. At(mm, n + 1, on, p, c, k)
  <2>1. /\ c \in 1 .. n + 1 /\ k \in Nat /\ p = off[c] + k /\ (k = 0 => c = 1)
        /\ (c <= n => k <= Length(m[c])) /\ (c = n + 1 => k <= 1)
    BY DEF At
  <2>2. Length(y) \in Nat /\ Length(y) >= 2
    BY LengthIs
  <2>3. c <= n + 1 => k <= Length(mm[c])
    <3>1. CASE c = n + 1
      BY <1>1, <2>1, <2>2, <3>1
    <3>2. CASE c # n + 1
      <4>1. c \in 1 .. n
        BY <1>1, <2>1, <3>2
      <4> QED BY <1>1, <2>1, <4>1
    <3> QED BY <3>1, <3>2
  <2>4. c \in 1 .. n + 1 + 1 /\ c # n + 1 + 1
    BY <1>1, <2>1
  <2> QED BY <1>6, <2>1, <2>3, <2>4 DEF At
<1>8. \E o : Laid(st, mm, n + 1, o) /\ Len(st) = o[n + 1 + 1] /\ At(mm, n + 1, o, p, c, k)
  BY <1>5, <1>7
<1>9. st \in Seq(TokenVals)
  BY <1>4
<1> USE DEF st, mm
<1> QED BY Zenon, <1>8, <1>9

(* A response is sent for the request that waits, which the server has       *)
(* whole, and nothing of it was received before.                             *)
LEMMA AnsweredNext ==
  ASSUME CnnInv, NEW m, NEW n, NEW off, NEW c, NEW k, Receives(m, n, off, c, k),
         Answered < Len(srv.whole)
  PROVE  /\ Answered = n /\ n = nreq - 1 /\ nreq \in Reqs /\ srv \in Full(nreq) /\ srv.whole[n + 1] = nreq
         /\ Awaits(m, c, k)
<1>1. Answered = n /\ n \in Nat
  BY DEF Receives, Counted, Starts, Answered, Laid
<1>2. nreq \in Nat /\ srv \in Reached(nreq) /\ n \in {nreq - 1, nreq} /\ (n = nreq => srv \in Full(nreq))
  BY NReqAssumption DEF CnnInv, One, Sending, Carried, Receives
<1>3. /\ srv \in Full(nreq) => Len(srv.whole) = nreq
      /\ srv \notin Full(nreq) /\ nreq >= 1 => Len(srv.whole) = nreq - 1
  <2>1. Len(UpTo(nreq)) = nreq
    BY <1>2, UpToIs
  <2>2. nreq >= 1 => Len(UpTo(nreq - 1)) = nreq - 1
    <3>1. nreq >= 1 => nreq - 1 \in Nat
      BY <1>2
    <3> QED BY <3>1, UpToIs
  <2> QED BY <1>2, <2>1, <2>2 DEF Reached, Fresh, Part, Full
<1>4. n # nreq
  BY <1>1, <1>2, <1>3
<1>5. n = nreq - 1 /\ nreq >= 1 /\ srv \in Full(nreq)
  BY <1>1, <1>2, <1>3, <1>4
<1>6. nreq \in Reqs
  BY <1>5, NReqAssumption DEF CnnInv, One, Reqs
<1>7. srv.whole[n + 1] = nreq
  <2>1. srv.whole = UpTo(nreq) /\ nreq \in 1 .. nreq /\ n + 1 = nreq
    BY <1>2, <1>5 DEF Full
  <2> QED BY <2>1 DEF UpTo
<1>8. Awaits(m, c, k)
  <2>1. ~NoneWaits(m, n, c, k)
    BY <1>4 DEF NoneWaits
  <2>2. ~Arrives(n, c, k)
    BY <1>2, <1>5 DEF Arrives
  <2>3. ~Fetched(m, c, k)
    <3> SUFFICES ASSUME Fetched(m, c, k) PROVE FALSE
      OBVIOUS
    <3>1. c = nreq /\ mRecvMsg = nreq /\ Taken(f, c, mRecvMsg)
      BY DEF Fetched
    <3>2. f \in Frames /\ (f.list = << >> /\ Taken(f, c, mRecvMsg) => k >= 2)
      BY DEF Receives, FrameAt, Sized
    <3>3. f.list = << >>
      <4>1. f.list \in Seq(Entries) /\ Len(f.list) \in Nat
        BY <3>2, LenProperties DEF Frames
      <4>2. nreq = nreq - Len(f.list)
        BY <3>1 DEF Taken
      <4>3. Len(f.list) = 0
        BY <1>2, <4>1, <4>2
      <4> QED BY <4>1, <4>3, EmptySeq
    <3>4. k >= 2 /\ (c = n + 1 => k <= 1) /\ k \in Nat
      BY <3>1, <3>2, <3>3 DEF Receives, At
    <3> QED BY <1>2, <1>5, <3>1, <3>4
  <2> QED BY <2>1, <2>2, <2>3 DEF Receives
<1> QED BY <1>1, <1>5, <1>6, <1>7, <1>8

LEMMA AnswerKeeps ==
  ASSUME CnnInv, NEW x \in Resps, Answer(x)
  PROVE  CnnInv'
<1>1. /\ One /\ Sending /\ Ends /\ Receiving /\ asserted = {} /\ inflow \in Seq(TokenVals)
  BY DEF CnnInv, Receiving
<1>2. PICK m, n, off, c, k : Receives(m, n, off, c, k)
  BY <1>1 DEF Receiving
<1> DEFINE y == [clen |-> x.clen, units |-> x.units]
           t == MsgTokens(n + 1, y.clen, y.units)
           mm == Added(m, n, y)
<1>3. /\ Answered < Len(srv.whole)
      /\ inflow' = inflow \o MsgTokens(srv.whole[Answered + 1], x.clen, x.units)
      /\ UNCHANGED <<nreq, req, mCur, mPipeList, mSendQueList, held, srv, pos, f, mRecvMsg, asserted, tx, ret, pc>>
  BY Zenon DEF Answer, reqVars, pipeVars, sockVars, txVars
<1>4. /\ Answered = n /\ n = nreq - 1 /\ nreq \in Reqs /\ srv \in Full(nreq) /\ srv.whole[n + 1] = nreq
      /\ Awaits(m, c, k)
  BY <1>2, <1>3, AnsweredNext
<1>5. n \in Nat /\ n + 1 = nreq /\ n # nreq
  BY <1>2, <1>4 DEF Receives, Laid, Reqs
<1>6. y \in Msgs
  BY RespsAssumption DEF Msgs, ChunkedBody
<1>7. inflow' = inflow \o t
  BY <1>3, <1>4, <1>5
<1>8. t \in Seq(TokenVals) /\ Len(t) = Length(y) /\ \A j \in 1 .. Length(y) : IsTok(t[j], n + 1, y, j)
  <2>1. t \in Seq(TokenVals) /\ Len(t) = Length(y) /\ \A j \in 1 .. Length(y) : t[j] = TokAt(n + 1, y, j)
    <3> HIDE DEF y
    <3> QED BY <1>5, <1>6, TokensAre
  <2> HIDE DEF y, t
  <2> QED BY <1>6, <2>1, TokAtIs
<1>9. mm[n + 1] = y /\ \A d \in 1 .. n : mm[d] = m[d]
  BY <1>5 DEF Added
<1>10. /\ inflow' \in Seq(TokenVals)
       /\ \E on : Laid(inflow', mm, n + 1, on) /\ Len(inflow') = on[n + 1 + 1] /\ At(mm, n + 1, on, pos, c, k)
  <2>1. Laid(inflow, m, n, off) /\ Len(inflow) = off[n + 1] /\ At(m, n, off, pos, c, k)
    BY <1>2 DEF Receives
  <2> DEFINE st == inflow \o t
  <2>2. /\ st \in Seq(TokenVals)
        /\ \E on : Laid(st, mm, n + 1, on) /\ Len(st) = on[n + 1 + 1] /\ At(mm, n + 1, on, pos, c, k)
    <3> HIDE DEF y
    <3> QED BY <1>1, <1>6, <2>1, OneMore
  <2> HIDE DEF st, mm
  <2> QED BY <1>7, <2>2 DEF st
<1>11. PICK on : Laid(inflow', mm, n + 1, on) /\ Len(inflow') = on[n + 1 + 1] /\ At(mm, n + 1, on, pos, c, k)
  BY <1>10
<1> HIDE DEF t, mm, y
<1>12. Counted(mm, n + 1)'
  <2>1. /\ Cardinality(Starts(inflow)) = n
        /\ \A r \in Reqs : Cardinality(Units(inflow, r)) = IF r <= n THEN m[r].units ELSE 0
    BY <1>2 DEF Receives, Counted
  <2>2. /\ Cardinality(Starts(inflow \o t)) = Cardinality(Starts(inflow)) + 1
        /\ \A r : r # n + 1 => Units(inflow \o t, r) = Units(inflow, r)
        /\ Cardinality(Units(inflow, n + 1)) = 0 => Cardinality(Units(inflow \o t, n + 1)) = y.units
    <3>1. n + 1 \in Nat
      BY <1>5
    <3> QED BY <1>1, <1>6, <1>8, <3>1, CountsGrow
  <2>3. Cardinality(Units(inflow, n + 1)) = 0
    <3>1. n + 1 \in Reqs /\ ~(n + 1 <= n)
      BY <1>4, <1>5
    <3> QED BY <2>1, <3>1
  <2>4. Cardinality(Starts(inflow')) = n + 1
    BY <1>7, <2>1, <2>2
  <2>5. ASSUME NEW r \in Reqs
        PROVE  Cardinality(Units(inflow', r)) = IF r <= n + 1 THEN mm[r].units ELSE 0
    <3>1. CASE r = n + 1
      <4>1. r <= n + 1
        BY <1>5, <3>1
      <4> QED BY <1>7, <1>9, <2>2, <2>3, <3>1, <4>1
    <3>2. CASE r # n + 1
      <4>1. (r <= n + 1 <=> r <= n) /\ (r <= n => r \in 1 .. n)
        BY <1>5, <3>2 DEF Reqs
      <4>2. Units(inflow', r) = Units(inflow, r)
        BY <1>7, <2>2, <3>2
      <4> QED BY <1>9, <2>1, <4>1, <4>2
    <3> QED BY <3>1, <3>2
  <2> QED BY <2>4, <2>5 DEF Counted
<1>13. c \in 1 .. n + 1 /\ k \in Nat /\ (c = n + 1 => k <= 1)
  BY <1>2 DEF Receives, At
<1>14. \A d \in 1 .. c : d < c \/ k >= 2 => d \in 1 .. n
  BY <1>5, <1>13
<1>15. FrameAt(f, mm, c, k, mRecvMsg)
  <2>1. \A d \in 1 .. c : d < c \/ k >= 2 => mm[d] = m[d]
    BY <1>9, <1>14
  <2> QED BY <1>2, <2>1, FrameAgrees DEF Receives
<1>16. Awaits(mm, c, k)'
  <2>1. k >= 2 => mm[c] = m[c]
    <3>1. c \in 1 .. c
      BY <1>13
    <3> QED BY <1>9, <1>14, <3>1
  <2>2. Over(mm, c, k)'
    BY <1>3, <1>4, <2>1 DEF Awaits, Over
  <2> QED BY <1>3, <1>4, <2>2 DEF Awaits
<1>17. Owns(mm, n + 1)'
  <2> SUFFICES ASSUME NEW r \in Reqs
               PROVE  /\ AllOf(req[r].data, r)
                      /\ EndsWell(r) => /\ req[r].msg = r /\ r <= n + 1
                                        /\ mm[r].units <= MaxRecv => Len(req[r].data) = mm[r].units
    BY <1>3 DEF Owns, EndsWell
  <2>1. /\ AllOf(req[r].data, r)
        /\ EndsWell(r) => /\ req[r].msg = r /\ r <= n
                          /\ m[r].units <= MaxRecv => Len(req[r].data) = m[r].units
    BY <1>2 DEF Receives, Owns
  <2>2. r <= n => r \in 1 .. n /\ r <= n + 1
    BY <1>5 DEF Reqs
  <2> QED BY <1>9, <2>1, <2>2
<1>18. Receives(mm, n + 1, on, c, k)'
  <2>1. n + 1 \in {nreq' - 1, nreq'} /\ srv' \in Full(nreq')
    BY <1>3, <1>4, <1>5
  <2> QED BY <1>3, <1>11, <1>12, <1>15, <1>16, <1>17, <2>1 DEF Receives
<1>19. Receiving'
  BY <1>10, <1>18 DEF Receiving
<1>20. One' /\ Sending' /\ Ends'
  BY <1>1, <1>3 DEF One, Sending, Carried, Unsent, Ends, EndsWell
<1> QED BY <1>1, <1>3, <1>19, <1>20 DEF CnnInv

-----------------------------------------------------------------------------
(* A packet: it holds tokens of the response that is awaited, and no others. *)
LEMMA LastLaid ==
  ASSUME NEW s, NEW m, NEW n, NEW off, Laid(s, m, n, off), n # 0
  PROVE  /\ n \in Nat \ {0} /\ n \in 1 .. n + 1 /\ off[n] \in Nat /\ off[n + 1] = off[n] + Length(m[n])
         /\ m[n] \in Msgs /\ Length(m[n]) \in Nat /\ Length(m[n]) >= 2
         /\ \A k \in 1 .. Length(m[n]) : IsTok(s[off[n] + k], n, m[n], k)
<1>1. n \in Nat \ {0} /\ n \in 1 .. n + 1 /\ n \in 1 .. n
  BY DEF Laid
<1>2. off[n] \in Nat
  BY <1>1 DEF Laid
<1>3. /\ m[n] \in Msgs /\ off[n + 1] = off[n] + Length(m[n])
      /\ \A k \in 1 .. Length(m[n]) : IsTok(s[off[n] + k], n, m[n], k)
  BY <1>1 DEF Laid
<1> QED BY <1>1, <1>2, <1>3, LengthIs

LEMMA EndsInLast ==
  ASSUME NEW s, NEW m, NEW n, NEW off, Laid(s, m, n, off), n # 0, NEW to \in Nat,
         off[n] < to, to <= off[n + 1], NEW d, NEW i, At(m, n, off, to, d, i)
  PROVE  d = n /\ i \in Nat /\ i >= 1
<1>1. /\ n \in Nat \ {0} /\ off[n] \in Nat /\ off \in [1 .. n + 1 -> Nat]
      /\ \A e \in 1 .. n : Length(m[e]) \in Nat /\ off[e + 1] = off[e] + Length(m[e])
  <2>1. n \in Nat \ {0} /\ off[n] \in Nat
    BY LastLaid
  <2>2. off \in [1 .. n + 1 -> Nat] /\ \A e \in 1 .. n : m[e] \in Msgs /\ off[e + 1] = off[e] + Length(m[e])
    BY DEF Laid
  <2> QED BY <2>1, <2>2, LengthIs
<1>2. \A a \in 1 .. n, b \in 1 .. n + 1 : a < b => off[a] + Length(m[a]) <= off[b]
  BY <1>1, OffsetsGrow
<1>3. /\ d \in 1 .. n + 1 /\ i \in Nat /\ to = off[d] + i /\ (i = 0 => d = 1)
      /\ (d <= n => i <= Length(m[d])) /\ (d = n + 1 => i <= 1)
  BY DEF At
<1>4. off[d] \in Nat
  BY <1>1, <1>3
<1>5. CASE d < n
  <2>1. d \in 1 .. n /\ n \in 1 .. n + 1
    BY <1>1, <1>3, <1>5
  <2>2. off[d] + Length(m[d]) <= off[n] /\ Length(m[d]) \in Nat /\ i <= Length(m[d])
    BY <1>1, <1>2, <1>3, <1>5, <2>1
  <2>3. off[d] + i <= off[n] /\ off[n] \in Nat /\ to = off[d] + i
    <3> DEFINE a == off[d]
               b == off[n]
               l == Length(m[d])
    <3>1. a \in Nat /\ b \in Nat /\ l \in Nat /\ i \in Nat /\ a + l <= b /\ i <= l /\ to = a + i
      BY <1>1, <1>3, <1>4, <2>2
    <3> HIDE DEF a, b, l
    <3>2. a + i <= b
      BY <3>1
    <3> QED BY <3>1, <3>2 DEF a, b
  <2>4. FALSE
    BY <2>3
  <2> QED BY <2>4
<1>6. CASE d = n + 1
  <2>1. i = 1
    BY <1>1, <1>3, <1>6
  <2> QED BY <1>3, <1>4, <1>6, <2>1
<1>7. CASE d = n
  BY <1>3, <1>4, <1>7
<1>8. d < n \/ d = n + 1 \/ d = n
  BY <1>1, <1>3
<1> QED BY <1>5, <1>6, <1>7, <1>8

LEMMA WithinLast ==
  ASSUME NEW s, NEW m, NEW n, NEW off, Laid(s, m, n, off), n # 0, NEW from \in Nat,
         off[n] <= from, NEW toks, DOMAIN toks = 1 .. Len(toks), Len(toks) \in Nat,
         from + Len(toks) <= off[n + 1], \A i \in 1 .. Len(toks) : toks[i] = s[from + i]
  PROVE  ~EndsAndBegins(toks) /\ ~QueuesChunked(toks)
<1>1. /\ off[n] \in Nat /\ off[n + 1] = off[n] + Length(m[n])
      /\ m[n] \in Msgs /\ Length(m[n]) \in Nat
      /\ \A k \in 1 .. Length(m[n]) : IsTok(s[off[n] + k], n, m[n], k)
  BY LastLaid
<1>2. ASSUME NEW i \in 1 .. Len(toks), toks[i].t = "begin" PROVE i = 1
  <2> DEFINE k == from + i - off[n]
  <2>1. k \in 1 .. Length(m[n]) /\ off[n] + k = from + i /\ (k = 1 => i = 1)
    BY <1>1
  <2> HIDE DEF k
  <2>2. IsTok(s[off[n] + k], n, m[n], k)
    BY <1>1, <2>1
  <2>3. IsTok(toks[i], n, m[n], k)
    BY <2>1, <2>2
  <2>4. k = 1
    BY <1>1, <1>2, <2>1, <2>3, KindsAre
  <2> QED BY <2>1, <2>4
<1>3. ~EndsAndBegins(toks)
  <2> SUFFICES ASSUME EndsAndBegins(toks) PROVE FALSE
    OBVIOUS
  <2>1. PICK i \in 1 .. Len(toks) : toks[i].t = "begin"
    BY DEF EndsAndBegins
  <2>2. toks[1].t = "begin"
    BY <1>2, <2>1
  <2> QED BY <2>2 DEF EndsAndBegins
<1>4. ~QueuesChunked(toks)
  <2> SUFFICES ASSUME QueuesChunked(toks) PROVE FALSE
    OBVIOUS
  <2>1. PICK i \in 1 .. Len(toks), j \in 1 .. Len(toks) : i < j /\ toks[j].t = "begin"
    BY DEF QueuesChunked
  <2> QED BY <1>2, <2>1
<1> QED BY <1>3, <1>4

LEMMA TakenIs ==
  ASSUME NEW g \in Frames, NEW c \in Nat, Taken(g, c, c)
  PROVE  g.list = << >>
<1>1. g.list \in Seq(Entries) /\ Len(g.list) \in Nat
  BY LenProperties DEF Frames
<1>2. c = c - Len(g.list)
  BY DEF Taken
<1>3. Len(g.list) = 0
  BY <1>1, <1>2
<1> QED BY <1>1, <1>3, EmptySeq

LEMMA MoreComes ==
  ASSUME CnnInv, NEW m, NEW n, NEW off, NEW c, NEW k, Receives(m, n, off, c, k), pc = "idle",
         pos < Len(inflow)
  PROVE  /\ n = nreq /\ nreq \in Reqs /\ mCur # None /\ off[n] <= pos /\ pos \in Nat
         /\ AtRest(f, c, k, mRecvMsg)
         /\ \/ Awaits(m, c, k) /\ ~Unended(f, m, c, k, mRecvMsg)
            \/ Arrives(n, c, k)
            \/ Fetched(m, c, k) /\ c = n /\ k < Length(m[n])
<1>1. /\ Laid(inflow, m, n, off) /\ Len(inflow) = off[n + 1] /\ n \in {nreq - 1, nreq}
      /\ At(m, n, off, pos, c, k) /\ FrameAt(f, m, c, k, mRecvMsg)
  BY DEF Receives
<1>2. /\ c \in 1 .. n + 1 /\ k \in Nat /\ pos = off[c] + k /\ (k = 0 => c = 1)
      /\ (c <= n => k <= Length(m[c])) /\ (c = n + 1 => k <= 1)
  BY <1>1 DEF At
<1>3. /\ n \in Nat /\ off \in [1 .. n + 1 -> Nat] /\ off[1] = 0 /\ nreq \in Nat
      /\ \A d \in 1 .. n : off[d + 1] = off[d] + Length(m[d])
  BY <1>1 DEF Laid, CnnInv, One
<1>4. off[c] \in Nat /\ pos \in Nat
  <2>1. off[c] \in Nat
    BY <1>2, <1>3
  <2> QED BY <1>2, <2>1
<1>5. n # 0
  <2> SUFFICES ASSUME n = 0 PROVE FALSE
    OBVIOUS
  <2>1. off[n + 1] = 0
    BY <1>3
  <2> QED BY <1>1, <1>4, <2>1
<1>6. nreq \in Reqs
  <2>1. nreq # 0
    BY <1>1, <1>3, <1>5
  <2> QED BY <1>3, <2>1 DEF CnnInv, One, Reqs
<1>7. /\ n \in Nat \ {0} /\ off[n] \in Nat /\ off[n + 1] = off[n] + Length(m[n]) /\ Length(m[n]) \in Nat
  BY <1>1, <1>5, LastLaid
<1>8. f \in Frames /\ c \in Nat /\ (f.list = << >> /\ Taken(f, c, mRecvMsg) => k >= 2)
  BY <1>1 DEF FrameAt, Sized
<1>9. ~(c = n /\ k = Length(m[n]))
  BY <1>1, <1>2, <1>7
<1>10. c = n => off[n] <= pos
  BY <1>2, <1>4
<1>11. CASE NoneWaits(m, n, c, k)
  BY <1>3, <1>5, <1>9, <1>11 DEF NoneWaits, Over
<1>12. CASE Awaits(m, c, k)
  <2>1. mCur # None /\ mRecvMsg = nreq - 1 /\ Over(m, c, k)
    BY <1>12 DEF Awaits
  <2>2. AtRest(f, c, k, mRecvMsg)
    BY <2>1 DEF Over, AtRest
  <2>3. CASE mRecvMsg = 0 /\ c = 1 /\ k = 0
    <3>1. nreq = 1 /\ n = nreq
      BY <1>1, <1>3, <1>5, <2>1, <2>3
    <3>2. ~Taken(f, c, mRecvMsg)
      <4>1. Taken(f, c, mRecvMsg) => mRecvMsg = c - Len(f.list) /\ Len(f.list) = 0
        BY <2>2, EmptySeq DEF Taken, AtRest
      <4> QED BY <2>3, <4>1
    <3> QED BY <1>4, <1>6, <1>10, <1>12, <2>1, <2>2, <2>3, <3>1, <3>2 DEF Unended
  <2>4. CASE mRecvMsg = c /\ k = Length(m[c]) /\ k >= 2
    <3>1. n = nreq /\ c \in 1 .. n /\ n = c + 1
      BY <1>1, <1>2, <1>3, <1>9, <2>1, <2>4
    <3>2. pos = off[n]
      BY <1>2, <1>3, <2>4, <3>1
    <3>3. ~(k < Length(m[c]))
      BY <1>2, <2>4
    <3> QED BY <1>4, <1>6, <1>12, <2>1, <2>2, <3>1, <3>2, <3>3 DEF Unended
  <2> QED BY <2>1, <2>3, <2>4 DEF Over
<1>13. CASE Arrives(n, c, k)
  <2>1. n = nreq /\ c = n
    BY <1>1, <1>3, <1>13 DEF Arrives
  <2> QED BY <1>4, <1>6, <1>10, <1>13, <2>1 DEF Arrives
<1>14. CASE Fetched(m, c, k)
  <2>1. c = nreq /\ Taken(f, c, c) /\ mRecvMsg = c
    BY <1>14 DEF Fetched
  <2>2. k >= 2
    BY <1>8, <2>1, TakenIs
  <2>3. n = nreq
    BY <1>1, <1>2, <1>3, <2>1, <2>2
  <2>4. k < Length(m[n])
    BY <1>2, <1>7, <1>9, <2>1, <2>3
  <2> QED BY <1>4, <1>6, <1>10, <1>14, <2>1, <2>3, <2>4 DEF Fetched
<1> QED BY <1>11, <1>12, <1>13, <1>14 DEF Receives

LEMMA CutIs ==
  ASSUME NEW s \in Seq(TokenVals), NEW from \in Nat, NEW to \in Nat, from <= to, to <= Len(s)
  PROVE  LET toks == SubSeq(s, from + 1, to) IN
         /\ Len(toks) = to - from /\ Len(toks) \in Nat /\ DOMAIN toks = 1 .. Len(toks)
         /\ \A i \in 1 .. Len(toks) : toks[i] = s[from + i]
         /\ from + Len(toks) = to
<1> DEFINE toks == SubSeq(s, from + 1, to)
<1>1. Len(s) \in Nat /\ \A i \in 1 .. Len(s) : s[i] \in TokenVals
  BY LenProperties, ElementOfSeq
<1>2. \A i \in from + 1 .. to : s[i] \in TokenVals
  BY <1>1
<1>3. /\ toks \in Seq(TokenVals)
      /\ Len(toks) = IF from + 1 <= to THEN to - (from + 1) + 1 ELSE 0
      /\ \A i \in 1 .. to - (from + 1) + 1 : toks[i] = s[from + 1 + i - 1]
  <2>1. from + 1 \in Int /\ to \in Int
    OBVIOUS
  <2> QED BY <1>2, <2>1, SubSeqProperties
<1> HIDE DEF toks
<1>4. Len(toks) = to - from /\ Len(toks) \in Nat /\ from + Len(toks) = to /\ to - (from + 1) + 1 = to - from
  BY <1>3
<1>5. DOMAIN toks = 1 .. Len(toks)
  BY <1>3, LenProperties
<1>6. ASSUME NEW i \in 1 .. Len(toks) PROVE toks[i] = s[from + i]
  <2>1. from + 1 + i - 1 = from + i /\ i \in 1 .. to - (from + 1) + 1
    BY <1>4
  <2> QED BY <1>3, <2>1
<1> QED BY <1>4, <1>5, <1>6 DEF toks

LEMMA RecvKeeps ==
  ASSUME CnnInv, NEW to \in 1 .. Len(inflow), RecvPacket(to)
  PROVE  CnnInv'
<1> DEFINE toks == SubSeq(inflow, pos + 1, to)
           h == mRecvMsg
<1>1. /\ One /\ Sending /\ Ends /\ Receiving /\ asserted = {} /\ inflow \in Seq(TokenVals)
  BY DEF CnnInv, Receiving
<1>2. PICK m, n, off, c, k : Receives(m, n, off, c, k)
  BY <1>1 DEF Receiving
<1>3. /\ pc = "idle" /\ pos < to /\ to <= Len(inflow) /\ f' = FeedPacket(f, toks) /\ pos' = to /\ pc' = "read"
      /\ UNCHANGED <<nreq, req, mCur, mPipeList, mSendQueList, held, srv, inflow, mRecvMsg, asserted, tx, ret>>
  BY Zenon DEF RecvPacket, reqVars, pipeVars, sockVars, txVars
<1>4. to \in Nat /\ Len(inflow) \in Nat
  BY <1>1, LenProperties
<1>5. /\ Laid(inflow, m, n, off) /\ Len(inflow) = off[n + 1] /\ At(m, n, off, pos, c, k)
      /\ FrameAt(f, m, c, k, h) /\ Owns(m, n) /\ Counted(m, n)
  BY <1>2 DEF Receives
<1>6. pos \in Nat
  <2>1. off[c] \in Nat
    BY <1>5 DEF Laid, At
  <2> QED BY <1>5, <2>1 DEF At
<1>7. pos < Len(inflow)
  BY <1>3, <1>4, <1>6
<1>8. /\ n = nreq /\ nreq \in Reqs /\ mCur # None /\ off[n] <= pos
      /\ AtRest(f, c, k, h)
      /\ \/ Awaits(m, c, k) /\ ~Unended(f, m, c, k, h)
         \/ Arrives(n, c, k)
         \/ Fetched(m, c, k) /\ c = n /\ k < Length(m[n])
  BY <1>2, <1>3, <1>7, MoreComes
<1>9. /\ Len(toks) = to - pos /\ Len(toks) \in Nat /\ DOMAIN toks = 1 .. Len(toks)
      /\ \A i \in 1 .. Len(toks) : toks[i] = inflow[pos + i]
      /\ pos + Len(toks) = to
  <2>1. pos <= to
    BY <1>3, <1>4, <1>6
  <2> QED BY <1>1, <1>3, <1>4, <1>6, <2>1, CutIs
<1> HIDE DEF toks
<1>10. n # 0 /\ Len(toks) > 0
  BY <1>3, <1>4, <1>6, <1>8, <1>9 DEF Reqs
<1>11. ~EndsAndBegins(toks) /\ ~QueuesChunked(toks)
  <2>1. pos + Len(toks) <= off[n + 1]
    BY <1>3, <1>5, <1>9
  <2> QED BY <1>5, <1>6, <1>8, <1>9, <1>10, <2>1, WithinLast
<1>12. \E d, i : /\ At(m, n, off, to, d, i) /\ FrameAt(f', m, d, i, h)
                 /\ FedTo(f, m, c, k, h, toks, Len(toks), f', d, i)
  <2>1. pos + Len(toks) <= Len(inflow)
    BY <1>3, <1>9
  <2> DEFINE P(g, t) == \E d, i : /\ At(m, n, off, t, d, i) /\ FrameAt(g, m, d, i, h)
                                  /\ FedTo(f, m, c, k, h, toks, Len(toks), g, d, i)
  <2>2. P(FeedPacket(f, toks), pos + Len(toks))
    BY <1>5, <1>6, <1>8, <1>9, <1>11, <2>1, PacketFed
  <2> HIDE DEF P
  <2>3. P(f', to)
    BY <1>3, <1>9, <2>2
  <2> QED BY <2>3 DEF P
<1>13. PICK d, i : /\ At(m, n, off, to, d, i) /\ FrameAt(f', m, d, i, h)
                   /\ FedTo(f, m, c, k, h, toks, Len(toks), f', d, i)
  BY <1>12
<1>14. d = n /\ i \in Nat /\ i >= 1
  <2>1. off[n] \in Nat
    BY <1>5, <1>10, LastLaid
  <2>2. off[n] < to /\ to <= off[n + 1]
    BY <1>3, <1>4, <1>5, <1>6, <1>8, <2>1
  <2> QED BY <1>4, <1>5, <1>10, <1>13, <2>2, EndsInLast
<1>15. Arrives(n, d, i)' \/ Fetched(m, d, i)'
  <2>1. CASE Unended(f, m, c, k, h)
    <3>1. d = c /\ f'.list = << >> /\ f'.rlen = f.rlen /\ f.list = << >>
      BY <1>8, <1>10, <1>13, <2>1 DEF FedTo, AtRest
    <3>2. Fetched(m, c, k)
      BY <1>8, <2>1 DEF Unended, Arrives
    <3>3. Taken(f', d, h) /\ Given(f') = Given(f)
      BY <2>1, <3>1 DEF Unended, Taken, Given
    <3>4. Fetched(m, d, i)'
      BY <1>3, <3>1, <3>2, <3>3 DEF Fetched
    <3> QED BY <3>4
  <2>2. CASE ~Unended(f, m, c, k, h)
    <3>1. ~Taken(f', d, h)
      BY <1>10, <1>13, <2>2 DEF FedTo
    <3>2. Awaits(m, c, k) \/ Arrives(n, c, k)
      BY <1>8, <2>2 DEF Unended, Fetched
    <3>3. mCur # None /\ h = nreq - 1 /\ req[nreq].data = << >>
      BY <3>2 DEF Awaits, Arrives
    <3>4. d = nreq /\ d <= n
      BY <1>5, <1>8, <1>14 DEF Laid
    <3>5. Arrives(n, d, i)'
      BY <1>3, <1>14, <3>1, <3>3, <3>4 DEF Arrives
    <3> QED BY <3>5
  <2> QED BY <2>1, <2>2
<1>16. Receives(m, n, off, d, i)'
  <2>1. Counted(m, n)' /\ Owns(m, n)'
    BY <1>3, <1>5 DEF Counted, Owns, EndsWell
  <2>2. n \in {nreq' - 1, nreq'} /\ (n = nreq' => srv' \in Full(nreq'))
    BY <1>2, <1>3 DEF Receives
  <2> QED BY <1>3, <1>5, <1>13, <1>15, <2>1, <2>2 DEF Receives
<1>17. One'
  BY <1>1, <1>3, <1>8 DEF One
<1>18. Sending' /\ Ends'
  BY <1>1, <1>3 DEF Sending, Carried, Unsent, Ends, EndsWell
<1> QED BY <1>1, <1>3, <1>16, <1>17, <1>18 DEF CnnInv, Receiving

-----------------------------------------------------------------------------
(* The loop of procRead(): what is fetched belongs to the request that waits.*)
LEMMA CompletedIs ==
  ASSUME NEW q \in ReqVals, NEW id \in Nat
  PROVE  LET x == Completed(q, id) IN
         /\ x \in ReqVals /\ x.data = q.data /\ x.msg = id /\ x.active = FALSE /\ x.strm = q.strm
         /\ x.ends = Append(q.ends, 0)
<1> DEFINE a == [q EXCEPT !.msg = id]
<1>1. a \in ReqVals /\ a.data = q.data /\ a.msg = id /\ a.strm = q.strm /\ a.ends = q.ends
  BY DEF ReqVals
<1>2. Completed(q, id) = Ended(a, 0) /\ 0 \in {0, -1}
  BY DEF Completed
<1> HIDE DEF a
<1>3. LET x == Ended(a, 0) IN
      /\ x \in ReqVals /\ x.data = a.data /\ x.msg = a.msg /\ x.active = FALSE /\ x.strm = a.strm
      /\ x.ends = Append(a.ends, 0)
  BY <1>1, <1>2, EndedIsReq
<1> QED BY <1>1, <1>2, <1>3

LEMMA ToldWell ==
  ASSUME NEW s \in Seq({0, -1}), ~\E i \in 1 .. Len(s) : s[i] = 0
  PROVE  LET e == Append(s, 0) IN \A i \in 1 .. Len(e) : e[i] = 0 => i = Len(e)
<1> DEFINE e == Append(s, 0)
           n == Len(s)
<1>1. Len(e) = n + 1 /\ n \in Nat /\ \A i \in 1 .. n : e[i] = s[i]
  BY AppendProperties, LenProperties
<1> HIDE DEF e
<1>2. \A i \in 1 .. n + 1 : i = n + 1 \/ i \in 1 .. n
  BY <1>1
<1> QED BY <1>1, <1>2 DEF e

LEMMA EndsOnce ==
  ASSUME CnnInv, mCur # None, pc # "end", NEW x, x.ends = Append(req[mCur].ends, 0), x.active = FALSE,
         req' = [req EXCEPT ![mCur] = x], mCur' = mCur, pc' = "end"
  PROVE  Ends'
<1>1. mCur \in Reqs /\ req \in [Reqs -> ReqVals] /\ req[mCur].ends \in Seq({0, -1}) /\ ~EndsWell(mCur)
  BY WaitingOne DEF ReqVals, CnnInv, Ends
<1>2. req'[mCur] = x /\ \A r \in Reqs : r # mCur => req'[r] = req[r]
  BY <1>1
<1>3. \A i \in 1 .. Len(x.ends) : x.ends[i] = 0 => i = Len(x.ends)
  <2> DEFINE s == req[mCur].ends
  <2>1. s \in Seq({0, -1}) /\ x.ends = Append(s, 0) /\ ~\E i \in 1 .. Len(s) : s[i] = 0
    BY <1>1 DEF EndsWell
  <2> HIDE DEF s
  <2> QED BY <2>1, ToldWell
<1> SUFFICES ASSUME NEW r \in Reqs
             PROVE  /\ \A i \in 1 .. Len(req'[r].ends) : req'[r].ends[i] = 0 => i = Len(req'[r].ends)
                    /\ ~req'[r].active
  BY DEF Ends
<1>4. CASE r = mCur
  BY <1>2, <1>3, <1>4
<1>5. CASE r # mCur
  <2>1. req'[r] = req[r]
    BY <1>2, <1>5
  <2> QED BY <1>5, <2>1 DEF CnnInv, Ends
<1> QED BY <1>4, <1>5

LEMMA AtSane ==
  ASSUME NEW m, NEW n, NEW off, NEW c, NEW k, Receives(m, n, off, c, k)
  PROVE  /\ Sane(m, c, k) /\ c \in Nat \ {0} /\ k \in Nat /\ n \in Nat
         /\ k >= 2 => c <= n
         /\ c <= n => m[c] \in Msgs /\ k <= Length(m[c])
         /\ FrameAt(f, m, c, k, mRecvMsg) /\ mRecvMsg \in Nat /\ f \in Frames
<1>1. /\ c \in 1 .. n + 1 /\ k \in Nat /\ (c <= n => k <= Length(m[c])) /\ (c = n + 1 => k <= 1)
      /\ n \in Nat /\ (\A d \in 1 .. n : m[d] \in Msgs)
  BY DEF Receives, At, Laid
<1>2. k >= 2 => c <= n
  BY <1>1
<1>3. \A d \in 1 .. c : d < c \/ k >= 2 => d \in 1 .. n
  BY <1>1
<1>4. c <= n => c \in 1 .. n
  BY <1>1
<1>5. FrameAt(f, m, c, k, mRecvMsg) /\ mRecvMsg \in Nat /\ f \in Frames
  BY DEF Receives, FrameAt, Sized
<1> QED BY <1>1, <1>2, <1>3, <1>4, <1>5 DEF Sane

(* The message whose header was fetched last is the one being received.      *)
LEMMA TakenLast ==
  ASSUME NEW g, NEW m, NEW c, NEW k, FrameAt(g, m, c, k, c)
  PROVE  Taken(g, c, c) /\ g.list = << >> /\ k >= 2 /\ Reading(g, m, c) /\ Holds(g, m, c, k)
<1>1. /\ g \in Frames /\ c \in Nat \ {0} /\ k \in Nat /\ (c = c - 1 - Len(g.list) \/ Taken(g, c, c))
      /\ (g.list = << >> /\ Taken(g, c, c) => k >= 2)
  BY DEF FrameAt, Sized
<1>2. Len(g.list) \in Nat
  BY <1>1, LenProperties DEF Frames
<1>3. Taken(g, c, c)
  <2>1. c # c - 1 - Len(g.list)
    BY <1>1, <1>2
  <2> QED BY <1>1, <2>1
<1>4. g.list = << >>
  BY <1>1, <1>3, TakenIs
<1> QED BY <1>1, <1>3, <1>4 DEF FrameAt, Current

LEMMA LoopNoneKeeps ==
  ASSUME CnnInv, LoopNone
  PROVE  CnnInv'
<1>1. One /\ Sending /\ Ends /\ Receiving /\ asserted = {}
  BY DEF CnnInv
<1>2. PICK m, n, off, c, k : Receives(m, n, off, c, k)
  BY <1>1 DEF Receiving
<1>3. /\ pc = "read" /\ Status(f) = "FS_NONE" /\ pc' = "idle"
      /\ UNCHANGED <<nreq, req, mCur, mPipeList, mSendQueList, held, srv, inflow, pos, f, mRecvMsg, asserted,
                     tx, ret>>
  BY Zenon DEF LoopNone, reqVars, pipeVars, sockVars, txVars, inVars
<1>4. AtRest(f, c, k, mRecvMsg)
  BY <1>2, <1>3, AtSane, NothingLeft
<1>5. Arrives(n, c, k) \/ Fetched(m, c, k)
  BY <1>1, <1>2, <1>3 DEF Receives, NoneWaits, Awaits, One
<1>6. Arrives(n, c, k)' \/ Fetched(m, c, k)'
  BY <1>3, <1>4, <1>5 DEF Arrives, Fetched
<1>7. Receives(m, n, off, c, k)'
  <2>1. Counted(m, n)' /\ Owns(m, n)'
    BY <1>2, <1>3 DEF Receives, Counted, Owns, EndsWell
  <2> QED BY <1>2, <1>3, <1>6, <2>1 DEF Receives
<1>8. One' /\ Sending' /\ Ends' /\ inflow' \in Seq(TokenVals)
  BY <1>1, <1>3 DEF One, Sending, Carried, Unsent, Ends, EndsWell, Receiving
<1> QED BY <1>1, <1>3, <1>7, <1>8 DEF CnnInv, Receiving

LEMMA EndKeeps ==
  ASSUME CnnInv, EndReturns
  PROVE  CnnInv'
<1>1. One /\ Sending /\ Ends /\ Receiving /\ asserted = {} /\ mPipeList = << >>
  BY DEF CnnInv, One
<1>2. PICK m, n, off, c, k : Receives(m, n, off, c, k)
  BY <1>1 DEF Receiving
<1>3. /\ pc = "end" /\ pc' = "idle" /\ mCur' = None
      /\ UNCHANGED <<nreq, req, mPipeList, mSendQueList, held, srv, inflow, pos, f, mRecvMsg, asserted,
                     tx, ret>>
  BY Zenon, <1>1 DEF EndReturns, reqVars, sockVars, txVars, inVars
<1>4. Fetched(m, c, k)
  BY <1>1, <1>2, <1>3 DEF Receives, NoneWaits, Awaits, Arrives, One
<1>5. c = nreq /\ mRecvMsg = c /\ Finished(f, m, c, k)
  BY <1>3, <1>4 DEF Fetched
<1>6. k >= 2 /\ k \in Nat /\ c <= n /\ n = nreq
  <2>1. FrameAt(f, m, c, k, c) /\ c \in Nat \ {0} /\ k \in Nat /\ n \in Nat /\ (k >= 2 => c <= n)
    BY <1>2, <1>5, AtSane
  <2>2. k >= 2
    BY <2>1, TakenLast
  <2>3. n \in {nreq - 1, nreq}
    BY <1>2 DEF Receives
  <2> QED BY <1>5, <2>1, <2>2, <2>3
<1>7. NoneWaits(m, n, c, k)'
  BY <1>3, <1>5, <1>6 DEF NoneWaits, Over, Finished
<1>8. Receives(m, n, off, c, k)'
  <2>1. Counted(m, n)' /\ Owns(m, n)'
    BY <1>2, <1>3 DEF Receives, Counted, Owns, EndsWell
  <2> QED BY <1>2, <1>3, <1>7, <2>1 DEF Receives
<1>9. One'
  BY <1>1, <1>3 DEF One
<1>10. Sending' /\ inflow' \in Seq(TokenVals)
  BY <1>1, <1>3 DEF Sending, Carried, Unsent, Receiving
<1>11. Ends'
  <2>1. \A r \in Reqs : r # None
    BY DEF Reqs, None
  <2> QED BY <1>1, <1>3, <2>1 DEF Ends, EndsWell
<1> QED BY <1>1, <1>3, <1>8, <1>9, <1>10, <1>11 DEF CnnInv, Receiving

(* What a step of the loop makes of the request that waits.                  *)
LEMMA WaitsOn ==
  ASSUME CnnInv, mCur # None, pc = "read", pc' \in {"read", "end", "idle"}, NEW q \in ReqVals,
         q.strm = req[mCur].strm, req' = [req EXCEPT ![mCur] = q],
         UNCHANGED <<nreq, mCur, mPipeList, mSendQueList, held, srv, tx, ret>>
  PROVE  One' /\ Sending'
<1>1. One /\ Sending /\ mCur \in Reqs /\ mCur = nreq /\ req \in [Reqs -> ReqVals]
  BY WaitingOne DEF CnnInv
<1>2. req' \in [Reqs -> ReqVals] /\ req'[nreq].strm = req[nreq].strm
  BY <1>1
<1>3. One'
  BY <1>1, <1>2 DEF One
<1>4. Sending'
  BY <1>1, <1>2 DEF Sending, Carried, Unsent
<1> QED BY <1>3, <1>4

LEMMA OwnsStill ==
  ASSUME NEW m, NEW n, Owns(m, n), req \in [Reqs -> ReqVals], mCur \in Reqs, NEW q,
         req' = [req EXCEPT ![mCur] = q], AllOf(q.data, mCur),
         (\E i \in 1 .. Len(q.ends) : q.ends[i] = 0) =>
           /\ q.msg = mCur /\ mCur <= n
           /\ m[mCur].units <= MaxRecv => Len(q.data) = m[mCur].units
  PROVE  Owns(m, n)'
<1>1. req'[mCur] = q /\ \A r \in Reqs : r # mCur => req'[r] = req[r]
  OBVIOUS
<1> SUFFICES ASSUME NEW r \in Reqs
             PROVE  /\ AllOf(req'[r].data, r)
                    /\ (\E i \in 1 .. Len(req'[r].ends) : req'[r].ends[i] = 0) =>
                         /\ req'[r].msg = r /\ r <= n
                         /\ m[r].units <= MaxRecv => Len(req'[r].data) = m[r].units
  BY DEF Owns, EndsWell
<1>2. CASE r = mCur
  BY <1>1, <1>2
<1>3. CASE r # mCur
  BY <1>1, <1>3 DEF Owns, EndsWell
<1> QED BY <1>2, <1>3

LEMMA LoopHdrKeeps ==
  ASSUME CnnInv, LoopHdr
  PROVE  CnnInv'
<1> DEFINE x == FetchMsg(f)
           h == mRecvMsg
<1>1. One /\ Sending /\ Ends /\ Receiving /\ asserted = {}
  BY DEF CnnInv
<1>2. PICK m, n, off, c, k : Receives(m, n, off, c, k)
  BY <1>1 DEF Receiving
<1>3. pc = "read" /\ Status(f) = "FS_HDR"
  BY DEF LoopHdr
<1>4. mCur # None
  BY <1>1, <1>3 DEF One
<1>5. /\ f' = x.f /\ asserted' = asserted \cup x.failed /\ mRecvMsg' = x.msg.id
      /\ IF x.res = "MSG_ONLY"
         THEN pc' = "end" /\ req' = [req EXCEPT ![mCur] = Completed(@, x.msg.id)]
         ELSE UNCHANGED <<pc, req>>
      /\ UNCHANGED <<nreq, mCur, mPipeList, mSendQueList, held, srv, tx, ret, inflow, pos>>
  BY <1>4 DEF LoopHdr, pipeVars, sockVars, txVars
<1>6. /\ Sane(m, c, k) /\ c \in Nat \ {0} /\ k \in Nat /\ n \in Nat
      /\ c <= n => m[c] \in Msgs
      /\ FrameAt(f, m, c, k, h) /\ h \in Nat
  BY <1>2, AtSane
<1>7. HeaderFetched(f, m, c, k, h, x)
  BY <1>3, <1>6, MsgFetched
<1>8. Arrives(n, c, k)
  <2>1. ~Taken(f, c, h)
    BY <1>7 DEF HeaderFetched
  <2> QED BY <1>2, <1>3, <1>4, <2>1 DEF Receives, NoneWaits, Awaits, Fetched
<1>9. mCur \in Reqs /\ mCur = nreq /\ req \in [Reqs -> ReqVals] /\ req[mCur] \in ReqVals
  BY <1>4, WaitingOne
<1>10. c = nreq /\ h + 1 = c /\ c <= n /\ req[c].data = << >> /\ m[c] \in Msgs
  BY <1>6, <1>8, <1>9 DEF Arrives, Reqs
<1>11. /\ x.failed = {} /\ x.msg.id = c /\ (x.res = "MSG_ONLY" <=> m[c].clen = 0)
       /\ FrameAt(x.f, m, c, k, c)
       /\ m[c].clen = 0 => ~Taken(x.f, c, c) \/ Finished(x.f, m, c, k)
       /\ m[c].clen # 0 => Given(x.f) = 0
  <2>1. "MSG_ONLY" # "MSG_WITHDATA"
    OBVIOUS
  <2> HIDE DEF x
  <2> QED BY <1>7, <1>10, <2>1 DEF HeaderFetched
<1> HIDE DEF x
<1>12. Taken(x.f, c, c)
  BY <1>11, TakenLast
<1>13. m[c].clen = 0 => m[c].units = 0
  BY <1>10 DEF Msgs, ChunkedBody
<1>14. Len(req[c].data) = 0
  BY <1>10, EmptySeq
<1>15. CASE x.res = "MSG_ONLY"
  <2> DEFINE q == Completed(req[mCur], c)
  <2>1. pc' = "end" /\ req' = [req EXCEPT ![mCur] = q]
    BY <1>5, <1>11, <1>15
  <2>2. /\ q \in ReqVals /\ q.data = req[mCur].data /\ q.msg = c /\ q.active = FALSE
        /\ q.strm = req[mCur].strm /\ q.ends = Append(req[mCur].ends, 0)
    BY <1>6, <1>9, CompletedIs
  <2> HIDE DEF q
  <2>3. One' /\ Sending'
    BY <1>3, <1>4, <1>5, <2>1, <2>2, WaitsOn
  <2>4. Ends'
    BY <1>3, <1>4, <1>5, <2>1, <2>2, EndsOnce
  <2>5. Owns(m, n)'
    <3>1. Owns(m, n) /\ AllOf(req[mCur].data, mCur)
      BY <1>2, <1>9 DEF Receives, Owns
    <3>2. q.msg = mCur /\ mCur <= n /\ Len(q.data) = m[mCur].units /\ AllOf(q.data, mCur)
      BY <1>9, <1>10, <1>11, <1>13, <1>14, <1>15, <2>2, <3>1
    <3> QED BY <1>9, <2>1, <3>1, <3>2, OwnsStill
  <2>6. Fetched(m, c, k)'
    <3>1. Finished(x.f, m, c, k)
      BY <1>11, <1>12, <1>15
    <3> QED BY <1>4, <1>5, <1>10, <1>11, <1>12, <2>1, <3>1 DEF Fetched
  <2>7. Receives(m, n, off, c, k)'
    <3>1. Counted(m, n)'
      BY <1>2, <1>5 DEF Receives, Counted
    <3>2. FrameAt(f, m, c, k, mRecvMsg)'
      BY <1>5, <1>11
    <3> QED BY <1>2, <1>5, <2>5, <2>6, <3>1, <3>2 DEF Receives
  <2> QED BY <1>1, <1>5, <1>11, <2>3, <2>4, <2>7 DEF CnnInv, Receiving
<1>16. CASE x.res # "MSG_ONLY"
  <2>1. UNCHANGED <<pc, req>>
    BY <1>5, <1>16
  <2>2. One' /\ Sending' /\ Ends'
    BY <1>1, <1>5, <2>1 DEF One, Sending, Carried, Unsent, Ends, EndsWell
  <2>3. Fetched(m, c, k)'
    <3>1. Given(x.f) = 0
      BY <1>11, <1>16
    <3> QED BY <1>3, <1>4, <1>5, <1>10, <1>11, <1>12, <1>14, <2>1, <3>1 DEF Fetched
  <2>4. Receives(m, n, off, c, k)'
    <3>1. Counted(m, n)' /\ Owns(m, n)'
      BY <1>2, <1>5, <2>1 DEF Receives, Counted, Owns, EndsWell
    <3>2. FrameAt(f, m, c, k, mRecvMsg)'
      BY <1>5, <1>11
    <3> QED BY <1>2, <1>5, <2>3, <3>1, <3>2 DEF Receives
  <2> QED BY <1>1, <1>5, <1>11, <2>2, <2>4 DEF CnnInv, Receiving
<1> QED BY <1>15, <1>16

LEMMA ReceivedIs ==
  ASSUME NEW q \in ReqVals, NEW d \in Seq(Nat), NEW r, AllOf(q.data, r), AllOf(d, r)
  PROVE  LET y == Received(q, d) IN
         /\ y \in ReqVals /\ AllOf(y.data, r)
         /\ y.strm = q.strm /\ y.ends = q.ends /\ y.msg = q.msg /\ y.active = q.active
         /\ Len(q.data) + Len(d) <= MaxRecv => Len(y.data) = Len(q.data) + Len(d)
<1> DEFINE y == Received(q, d)
           a == q.data
           new == a \o d
           n == Len(a)
           l == Len(d)
<1>1. a \in Seq(Nat) /\ n \in Nat /\ l \in Nat
  BY LenProperties DEF ReqVals
<1>2. y = IF n + l <= MaxRecv THEN [q EXCEPT !.data = new] ELSE q
  BY DEF Received
<1>3. /\ new \in Seq(Nat) /\ Len(new) = n + l
      /\ \A i \in 1 .. n + l : new[i] = IF i <= n THEN a[i] ELSE d[i - n]
  <2> HIDE DEF a
  <2> QED BY <1>1, ConcatProperties
<1>4. (\A i \in 1 .. n : a[i] = r) /\ (\A i \in 1 .. l : d[i] = r)
  BY DEF AllOf
<1> HIDE DEF n, l, new, y, a
<1>5. \A i \in 1 .. n + l : new[i] = r
  <2> SUFFICES ASSUME NEW i \in 1 .. n + l PROVE new[i] = r
    OBVIOUS
  <2>1. CASE i <= n
    <3>1. i \in 1 .. n
      BY <1>1, <2>1
    <3> QED BY <1>3, <1>4, <2>1, <3>1
  <2>2. CASE ~(i <= n)
    <3>1. i - n \in 1 .. l
      BY <1>1, <2>2
    <3> QED BY <1>3, <1>4, <2>2, <3>1
  <2> QED BY <2>1, <2>2
<1>6. AllOf(new, r)
  BY <1>3, <1>5 DEF AllOf
<1>7. CASE n + l <= MaxRecv
  <2>1. y = [q EXCEPT !.data = new]
    BY <1>2, <1>7
  <2>2. /\ y \in ReqVals /\ y.data = new
        /\ y.strm = q.strm /\ y.ends = q.ends /\ y.msg = q.msg /\ y.active = q.active
    BY <1>3, <2>1 DEF ReqVals
  <2> QED BY <1>3, <1>6, <2>2 DEF y, n, l, a
<1>8. CASE ~(n + l <= MaxRecv)
  BY <1>2, <1>8 DEF y, n, l, a
<1> QED BY <1>7, <1>8

LEMMA LoopDataKeeps ==
  ASSUME CnnInv, LoopData
  PROVE  CnnInv'
<1> DEFINE x == FetchData(f)
           h == mRecvMsg
           q == Received(req[mCur], x.data)
           ends == x.res = "MSG_DATA_END"
<1>1. One /\ Sending /\ Ends /\ Receiving /\ asserted = {}
  BY DEF CnnInv
<1>2. PICK m, n, off, c, k : Receives(m, n, off, c, k)
  BY <1>1 DEF Receiving
<1>3. pc = "read" /\ Status(f) = "FS_DATA"
  BY DEF LoopData
<1>4. mCur # None
  BY <1>1, <1>3 DEF One
<1>5. /\ f' = x.f /\ asserted' = asserted \cup x.failed
      /\ req' = [req EXCEPT ![mCur] = IF ends THEN Completed(Received(@, x.data), mRecvMsg)
                                      ELSE Received(@, x.data)]
      /\ pc' = CASE ends -> "end" [] x.res = "MSG_DATA_EMPTY" -> "idle" [] OTHER -> "read"
      /\ UNCHANGED <<nreq, mCur, mPipeList, mSendQueList, held, srv, tx, ret, inflow, pos, mRecvMsg>>
  BY <1>4 DEF LoopData, pipeVars, sockVars, txVars
<1>6. /\ Sane(m, c, k) /\ c \in Nat \ {0} /\ k \in Nat /\ n \in Nat
      /\ k >= 2 => c <= n
      /\ c <= n => m[c] \in Msgs
      /\ FrameAt(f, m, c, k, h) /\ h \in Nat
  BY <1>2, AtSane
<1>7. DataFetched(f, m, c, k, h, x)
  BY <1>3, <1>6, PartFetched
<1>8. Fetched(m, c, k)
  <2>1. Taken(f, c, h)
    BY <1>7 DEF DataFetched
  <2> QED BY <1>2, <1>3, <1>4, <2>1 DEF Receives, NoneWaits, Awaits, Arrives
<1>9. mCur \in Reqs /\ mCur = nreq /\ req \in [Reqs -> ReqVals] /\ req[mCur] \in ReqVals
  BY <1>4, WaitingOne
<1>10. c = nreq /\ h = c /\ c = mCur
  BY <1>8, <1>9 DEF Fetched
<1>11. /\ x.failed = {} /\ FrameAt(x.f, m, c, k, c) /\ x.data \in Seq(Nat) /\ AllOf(x.data, c)
       /\ x.data = << >> => x.f = f /\ f.list = << >> /\ f.body = << >>
       /\ ends => /\ Given(f) + Len(x.data) = m[c].units
                  /\ ~Taken(x.f, c, c) \/ Finished(x.f, m, c, k)
       /\ ~ends => /\ Given(x.f) = Given(f) + Len(x.data)
                   /\ x.data = << >> => x.res = "MSG_DATA_EMPTY"
                   /\ x.data # << >> => x.res = "MSG_DATA"
  <2> HIDE DEF x
  <2> QED BY <1>7, <1>10 DEF DataFetched
<1> HIDE DEF x
<1>12. Taken(x.f, c, c) /\ x.f.list = << >> /\ k >= 2 /\ Holds(x.f, m, c, k) /\ x.f \in Frames
  BY <1>11, TakenLast DEF FrameAt, Sized
<1>13. c <= n /\ m[c] \in Msgs /\ m[c].units \in Nat
  BY <1>6, <1>12 DEF Msgs
<1>14. Given(x.f) <= m[c].units
  <2>1. /\ Given(x.f) = x.f.rlen /\ x.f.rlen \in Nat /\ x.f.body \in Seq(Nat)
        /\ x.f.rlen + Len(x.f.body) = UnitsIn(m[c], k)
    BY <1>12 DEF Given, Holds, Frames
  <2>2. Len(x.f.body) \in Nat
    BY <2>1, LenProperties
  <2>3. UnitsIn(m[c], k) <= m[c].units
    BY <1>6, <1>13 DEF UnitsIn
  <2> HIDE DEF x
  <2> QED BY <1>13, <2>1, <2>2, <2>3
<1>15. Owns(m, n) /\ AllOf(req[mCur].data, mCur)
  BY <1>2, <1>9 DEF Receives, Owns
<1>16. /\ q \in ReqVals /\ AllOf(q.data, mCur)
       /\ q.strm = req[mCur].strm /\ q.ends = req[mCur].ends /\ q.msg = req[mCur].msg
       /\ q.active = req[mCur].active
       /\ Len(req[mCur].data) + Len(x.data) <= MaxRecv => Len(q.data) = Len(req[mCur].data) + Len(x.data)
  <2> DEFINE a == req[mCur]
             d == x.data
             y == Received(a, d)
  <2>1. a \in ReqVals /\ d \in Seq(Nat) /\ AllOf(a.data, mCur) /\ AllOf(d, mCur)
    BY <1>9, <1>10, <1>11, <1>15
  <2> HIDE DEF a, d
  <2>2. /\ y \in ReqVals /\ AllOf(y.data, mCur)
        /\ y.strm = a.strm /\ y.ends = a.ends /\ y.msg = a.msg /\ y.active = a.active
        /\ Len(a.data) + Len(d) <= MaxRecv => Len(y.data) = Len(a.data) + Len(d)
    BY <2>1, ReceivedIs
  <2> QED BY <2>2 DEF a, d
<1>17. m[c].units <= MaxRecv => Len(q.data) = Given(f) + Len(x.data)
  <2> SUFFICES ASSUME m[c].units <= MaxRecv PROVE Len(q.data) = Given(f) + Len(x.data)
    OBVIOUS
  <2>1. Len(req[mCur].data) = Given(f)
    BY <1>3, <1>8, <1>10 DEF Fetched
  <2>2. Given(f) + Len(x.data) <= m[c].units
    BY <1>11, <1>13, <1>14
  <2>3. Len(req[mCur].data) \in Nat /\ Len(x.data) \in Nat /\ MaxRecv \in Nat
    BY <1>9, <1>11, LenProperties, NReqAssumption DEF ReqVals
  <2>4. Len(req[mCur].data) + Len(x.data) <= MaxRecv
    <3> HIDE DEF q
    <3> QED BY <1>13, <2>1, <2>2, <2>3
  <2> QED BY <1>16, <2>1, <2>4
<1> HIDE DEF q
<1>18. FrameAt(f, m, c, k, mRecvMsg)' /\ Counted(m, n)'
  BY <1>2, <1>5, <1>10, <1>11 DEF Receives, Counted
<1>19. CASE ends
  <2> DEFINE y == Completed(q, c)
  <2>1. pc' = "end" /\ req' = [req EXCEPT ![mCur] = y]
    BY <1>5, <1>10, <1>19 DEF q
  <2>2. /\ y \in ReqVals /\ y.data = q.data /\ y.msg = c /\ y.active = FALSE
        /\ y.strm = req[mCur].strm /\ y.ends = Append(req[mCur].ends, 0)
    <3>1. q \in ReqVals /\ c \in Nat /\ q.strm = req[mCur].strm /\ q.ends = req[mCur].ends
      BY <1>6, <1>16
    <3>2. \A p \in ReqVals, id \in Nat :
            /\ Completed(p, id) \in ReqVals /\ Completed(p, id).data = p.data /\ Completed(p, id).msg = id
            /\ Completed(p, id).active = FALSE /\ Completed(p, id).strm = p.strm
            /\ Completed(p, id).ends = Append(p.ends, 0)
      BY CompletedIs
    <3> DEFINE p == Completed(q, c)
    <3>3. /\ p \in ReqVals /\ p.data = q.data /\ p.msg = c
          /\ p.active = FALSE /\ p.strm = q.strm
          /\ p.ends = Append(q.ends, 0)
      BY Zenon, <3>1, <3>2
    <3>4. y = p
      OBVIOUS
    <3> HIDE DEF y, p
    <3>5. y \in ReqVals /\ y.data = q.data /\ y.msg = c /\ y.active = FALSE
      BY <3>3, <3>4
    <3>6. y.strm = req[mCur].strm /\ y.ends = Append(req[mCur].ends, 0)
      BY <3>1, <3>3, <3>4
    <3> QED BY <3>5, <3>6
  <2> HIDE DEF y
  <2>3. One' /\ Sending'
    BY <1>3, <1>4, <1>5, <2>1, <2>2, WaitsOn
  <2>4. Ends'
    BY <1>3, <1>4, <1>5, <2>1, <2>2, EndsOnce
  <2>5. Owns(m, n)'
    <3>1. y.msg = mCur /\ mCur <= n /\ AllOf(y.data, mCur)
      BY <1>10, <1>13, <1>16, <2>2
    <3>2. m[mCur].units <= MaxRecv => Len(y.data) = m[mCur].units
      BY <1>10, <1>11, <1>17, <1>19, <2>2
    <3> QED BY <1>9, <1>15, <2>1, <3>1, <3>2, OwnsStill
  <2>6. Fetched(m, c, k)'
    <3>1. Finished(x.f, m, c, k)
      BY <1>11, <1>12, <1>19
    <3> QED BY <1>4, <1>5, <1>10, <1>12, <2>1, <3>1 DEF Fetched
  <2>7. Receives(m, n, off, c, k)'
    BY <1>2, <1>5, <1>18, <2>5, <2>6 DEF Receives
  <2> QED BY <1>1, <1>5, <1>11, <2>3, <2>4, <2>7 DEF CnnInv, Receiving
<1>20. CASE ~ends
  <2>1. req' = [req EXCEPT ![mCur] = q] /\ pc' \in {"idle", "read"} /\ (pc' = "idle" <=> x.data = << >>)
    <3>1. req' = [req EXCEPT ![mCur] = q]
      BY <1>5, <1>20 DEF q
    <3>2. "MSG_DATA" # "MSG_DATA_EMPTY" /\ "MSG_DATA" # "MSG_DATA_END" /\ "MSG_DATA_EMPTY" # "MSG_DATA_END"
      OBVIOUS
    <3> QED BY <1>5, <1>11, <1>20, <3>1, <3>2
  <2>2. pc' \in {"read", "end", "idle"} /\ pc' # "end" /\ pc # "end"
    BY <1>3, <2>1
  <2>3. One' /\ Sending'
    BY <1>3, <1>4, <1>5, <1>16, <2>1, <2>2, WaitsOn
  <2>4. req'[mCur] = q /\ \A r \in Reqs : r # mCur => req'[r] = req[r]
    BY <1>9, <2>1
  <2>5. \A r \in Reqs : /\ req'[r].ends = req[r].ends /\ req'[r].msg = req[r].msg
                        /\ req'[r].active = req[r].active
    BY <1>16, <2>4
  <2>6. Ends'
    BY <1>1, <1>5, <2>2, <2>5 DEF Ends, EndsWell
  <2>7. Owns(m, n)'
    <3>1. ~\E i \in 1 .. Len(q.ends) : q.ends[i] = 0
      BY <1>1, <1>9, <1>16, <2>2 DEF Ends, EndsWell
    <3> QED BY <1>9, <1>15, <1>16, <2>1, <3>1, OwnsStill
  <2>8. Fetched(m, c, k)'
    <3>1. x.data = << >> => AtRest(x.f, c, k, c)
      BY <1>11 DEF AtRest
    <3>2. m[c].units <= MaxRecv => Len(req'[c].data) = Given(x.f)
      BY <1>10, <1>11, <1>17, <1>20, <2>4
    <3> QED BY <1>4, <1>5, <1>10, <1>12, <2>1, <2>2, <3>1, <3>2 DEF Fetched
  <2>9. Receives(m, n, off, c, k)'
    BY <1>2, <1>5, <1>18, <2>7, <2>8 DEF Receives
  <2> QED BY <1>1, <1>5, <1>11, <2>3, <2>6, <2>9 DEF CnnInv, Receiving
<1> QED BY <1>19, <1>20

-----------------------------------------------------------------------------
(* However the application uses the connection, as long as it makes a request *)
(* only when none waits for its response: CnnInv always holds.  Nothing is    *)
(* assumed of the rest: when it connects, what the socket takes, how the      *)
(* responses are cut into packets, when body data is sent, who goes away.     *)
THEOREM CnnInvHolds == ASSUME ~Pipelined PROVE Spec => []CnnInv
<1>1. Init => CnnInv
  BY CnnInit
<1>2. CnnInv /\ [Next]_vars => CnnInv'
  <2> SUFFICES ASSUME CnnInv, [Next]_vars PROVE CnnInv'
    OBVIOUS
  <2>1. ASSUME NEW b \in ReqBodies, Request(b) PROVE CnnInv'
    BY <2>1, RequestKeeps
  <2>2. CASE Connected \/ TxTake \/ TxBlocked \/ TxDone \/ UnderReturns \/ Writable \/ Close \/ PeerDown
    BY <2>2, QuietSteps
  <2>3. ASSUME NEW r \in {"OK", "PENDING", "FAIL"}, TxSend(r) PROVE CnnInv'
    BY <2>3, TxSendKeeps
  <2>4. CASE TxLack
    BY <2>4, LackKeeps
  <2>5. ASSUME NEW r \in Reqs, NEW n \in 0 .. MaxLen, SendData(r, n) PROVE CnnInv'
    BY <2>5, SendDataKeeps
  <2>6. ASSUME NEW to \in 1 .. Len(inflow), RecvPacket(to) PROVE CnnInv'
    BY <2>6, RecvKeeps
  <2>7. CASE LoopHdr
    BY <2>7, LoopHdrKeeps
  <2>8. CASE LoopData
    BY <2>8, LoopDataKeeps
  <2>9. CASE LoopNone
    BY <2>9, LoopNoneKeeps
  <2>10. CASE EndReturns
    BY <2>10, EndKeeps
  <2>11. CASE Disconnected
    BY <2>11, DisconnectedKeeps
  <2>12. CASE Flush
    BY <2>12, FlushKeeps
  <2>13. ASSUME NEW x \in Resps, Answer(x) PROVE CnnInv'
    BY <2>13, AnswerKeeps
  <2>14. CASE UNCHANGED vars
    <3>1. UNCHANGED <<nreq, req, mCur, mPipeList, mSendQueList, held, srv, tx, pc, ret, inflow, pos, f, mRecvMsg,
                      asserted>>
      BY Zenon, <2>14 DEF vars
    <3>2. One' /\ Sending' /\ Ends' /\ asserted' = {}
      BY <3>1 DEF CnnInv, One, Sending, Carried, Unsent, Ends, EndsWell
    <3>3. PICK m, n, off, c, k : Receives(m, n, off, c, k)
      BY DEF CnnInv, Receiving
    <3>4. Receives(m, n, off, c, k)'
      BY <3>1, <3>3 DEF Receives, Counted, Owns, EndsWell, NoneWaits, Awaits, Arrives, Fetched, Over
    <3>5. inflow' \in Seq(TokenVals)
      BY <3>1 DEF CnnInv, Receiving
    <3> QED BY <3>2, <3>4, <3>5 DEF CnnInv, Receiving
  <2> QED BY Zenon, <2>1, <2>2, <2>3, <2>4, <2>5, <2>6, <2>7, <2>8, <2>9, <2>10, <2>11, <2>12, <2>13, <2>14
          DEF Next, Tx, Loop
<1> QED BY <1>1, <1>2, PTL DEF Spec

(* How often a request is told that it ended.  The one that waits was told   *)
(* nothing on a live connection, or once, of the packet refused; the loop    *)
(* does not come back to it then.                                            *)
EndsFew ==
  /\ \A r \in Reqs : Len(req[r].ends) <= 2
  /\ pc \in {"read", "end"} => sock \notin {"closed", "shut"}
  /\ mCur # None /\ pc # "end" /\ sock \notin {"closed", "shut"}
       => \/ req[mCur].ends = << >>
          \/ Len(req[mCur].ends) = 1 /\ sock = "broken" /\ tx = None

LEMMA EndedOnceMore ==
  ASSUME NEW q \in ReqVals, NEW s \in {0, -1}
  PROVE  Len(Ended(q, s).ends) = Len(q.ends) + 1
BY AppendProperties DEF Ended, ReqVals

LEMMA SocketStays ==
  ASSUME NEW r, NEW c, NEW toks, SendPacket(r, c, toks)
  PROVE  /\ sock \in {"closed", "shut"} => UNCHANGED sock
         /\ sock = "broken" => sock' = "broken"
         /\ r = "FAIL" /\ sock \in {"writable", "broken"} => sock' = "broken"
         /\ sock \notin {"closed", "shut"} => sock' \notin {"closed", "shut"}
BY DEF SendPacket, SendResults

LEMMA AtMostOne == ASSUME NEW s, s = << >> \/ Len(s) = 1 PROVE Len(s) <= 1
<1>1. CASE s = << >>
  <2>1. Len(<< >>) <= 1
    OBVIOUS
  <2> QED BY Zenon, <1>1, <2>1
<1>2. CASE Len(s) = 1
  BY <1>2
<1> QED BY <1>1, <1>2

LEMMA EndsFewKept ==
  ASSUME CnnInv, EndsFew, ~Pipelined, [Next]_vars
  PROVE  EndsFew'
<1>1. /\ nreq \in 0 .. NReq /\ req \in [Reqs -> ReqVals] /\ mCur \in {None, nreq}
      /\ mPipeList = << >> /\ mSendQueList = << >> /\ ret = "idle"
      /\ tx \in {None, mCur}
      /\ pc \notin {"tx", "under"} => tx = None
      /\ pc \in {"read", "end"} => mCur # None
  BY DEF CnnInv, One
<1>2. mCur # None => mCur \in Reqs /\ req[mCur] \in ReqVals /\ req[mCur].ends \in Seq({0, -1})
  BY <1>1, NReqAssumption DEF Reqs, None, ReqVals
<1>0. mCur # None /\ pc # "end" /\ sock \notin {"closed", "shut"} => Len(req[mCur].ends) <= 1
  <2>1. mCur # None /\ pc # "end" /\ sock \notin {"closed", "shut"}
          => req[mCur].ends = << >> \/ Len(req[mCur].ends) = 1
    BY DEF EndsFew
  <2> QED BY <2>1, AtMostOne
<1>3. ASSUME NEW b \in ReqBodies, Request(b) PROVE EndsFew'
  <2>1. /\ mCur = None /\ pc = "idle" /\ sock # "shut" /\ nreq + 1 \in Reqs /\ nreq + 1 # None
        /\ req' = [req EXCEPT ![nreq + 1] = NewReq(b)] /\ mCur' = nreq + 1
    BY <1>1, <1>3, NReqAssumption DEF Request, AddMsgStream, Reqs, None
  <2>2. NewReq(b).ends = << >>
    BY DEF NewReq
  <2>3. pc' \in {"tx", "idle"}
    BY <1>3, <2>1 DEF Request, StartTx
  <2>4. \A r \in Reqs : req'[r].ends = IF r = nreq + 1 THEN << >> ELSE req[r].ends
    BY <1>1, <2>1, <2>2
  <2> QED BY <2>1, <2>3, <2>4 DEF EndsFew
<1>4. CASE Connected \/ TxTake \/ TxBlocked \/ TxDone \/ UnderReturns \/ Writable \/ Close \/ PeerDown
  <2>1. UNCHANGED <<req, mCur>>
    BY <1>4 DEF Connected, TxTake, TxBlocked, TxDone, UnderReturns, Writable, Close, PeerDown, reqVars, pipeVars
  <2>2. CASE Connected \/ Writable
    BY <1>1, <2>1, <2>2 DEF Connected, Writable, StartTx, EndsFew
  <2>3. CASE TxTake
    BY <1>1, <2>1, <2>3 DEF TxTake, LeaveTx, sockVars, EndsFew
  <2>4. CASE TxBlocked \/ TxDone
    BY <1>1, <2>1, <2>4 DEF TxBlocked, TxDone, LeaveTx, sockVars, EndsFew
  <2>5. CASE UnderReturns
    BY <1>1, <2>1, <2>5 DEF UnderReturns, LeaveTx, sockVars, EndsFew
  <2>6. CASE Close \/ PeerDown
    BY <1>1, <2>1, <2>6 DEF Close, PeerDown, sockVars, txVars, EndsFew
  <2> QED BY <1>4, <2>2, <2>3, <2>4, <2>5, <2>6
<1>5. ASSUME NEW r \in {"OK", "PENDING", "FAIL"}, TxSend(r) PROVE EndsFew'
  <2> DEFINE s == Prepared(req[tx].strm)
  <2>1. /\ pc = "tx" /\ tx # None /\ tx = mCur /\ IsWritable /\ SendPacket(r, tx, Offered(s))
        /\ req' = [req EXCEPT ![tx] = IF r = "FAIL" THEN Ended([@ EXCEPT !.strm = s], -1)
                                      ELSE [@ EXCEPT !.strm = Consumed(s)]]
        /\ mCur' = mCur
    BY <1>1, <1>5 DEF TxSend, pipeVars
  <2>2. sock \in {"writable", "broken"} /\ sock' \notin {"closed", "shut"}
    BY <2>1, SocketStays DEF IsWritable
  <2>3. req[mCur].ends = << >>
    BY <1>2, <2>1, <2>2 DEF EndsFew
  <2>4. CASE r = "FAIL"
    <3>1. sock' = "broken" /\ tx' = None /\ pc' = "idle"
      BY <1>1, <1>5, <2>1, <2>2, <2>4, SocketStays DEF TxSend, LeaveTx
    <3>2. Ended([req[mCur] EXCEPT !.strm = s], -1).ends = Append(<< >>, -1)
      BY <1>2, <2>1, <2>3 DEF Ended, ReqVals
    <3>3. req'[mCur] = Ended([req[mCur] EXCEPT !.strm = s], -1)
      BY <1>1, <1>2, <2>1, <2>4
    <3>4. Len(Append(<< >>, -1)) = 1
      OBVIOUS
    <3>5. Len(req'[mCur].ends) = 1
      BY <3>2, <3>3, <3>4
    <3>6. \A q \in Reqs : q # mCur => req'[q] = req[q]
      BY <1>1, <2>1
    <3>7. \A q \in Reqs : Len(req'[q].ends) <= 2
      BY <2>1, <3>5, <3>6, AtMostOne DEF EndsFew
    <3> QED BY <2>1, <3>1, <3>5, <3>7 DEF EndsFew
  <2>5. CASE r # "FAIL"
    <3>1. \A q \in Reqs : req'[q].ends = req[q].ends
      BY <1>1, <2>1, <2>5 DEF ReqVals
    <3>2. pc' \in {"tx", "idle"}
      BY <1>1, <1>5, <2>1 DEF TxSend, LeaveTx
    <3> QED BY <1>2, <2>1, <2>2, <2>3, <3>1, <3>2 DEF EndsFew
  <2> QED BY <2>4, <2>5
<1>6. CASE TxLack
  <2>1. \A q \in Reqs : req'[q].ends = req[q].ends
    BY <1>1, <1>6 DEF TxLack, ReqVals
  <2>2. pc' = "under" /\ UNCHANGED <<mCur, sock, tx>> /\ pc = "tx"
    BY <1>6 DEF TxLack, pipeVars, sockVars, txVars
  <2> QED BY <1>2, <2>1, <2>2 DEF EndsFew
<1>7. ASSUME NEW r \in Reqs, NEW n \in 0 .. MaxLen, SendData(r, n) PROVE EndsFew'
  <2>1. PICK res \in {"OK", "PENDING", "FAIL"} : SendPlain(r, n, res) \/ SendTec(r, n, res)
    BY <1>7 DEF SendData
  <2>2. \A q \in Reqs : req'[q].ends = req[q].ends
    <3>1. PICK x : x.ends = req[r].ends /\ req' = [req EXCEPT ![r] = x]
      <4>1. req = [req EXCEPT ![r] = req[r]]
        BY <1>1
      <4>2. req[r] \in ReqVals
        BY <1>1
      <4>3. CASE SendPlain(r, n, res)
        <5> DEFINE x == [req[r] EXCEPT !.pause = FALSE, !.wcnt = @ + n, !.eos = req[r].wcnt + n >= req[r].body.clen]
        <5>1. x.ends = req[r].ends
          BY <4>2 DEF ReqVals
        <5>2. req' = IF res = "FAIL" THEN req ELSE [req EXCEPT ![r] = x]
          BY <4>3 DEF SendPlain
        <5> HIDE DEF x
        <5> QED BY <4>1, <5>1, <5>2
      <4>4. CASE SendTec(r, n, res)
        <5> DEFINE toks == Append(req[r].buf, IF n = 0 THEN Tok("last", 0) ELSE Tok("chunk", n))
                   x == IF res = "FAIL" THEN [req[r] EXCEPT !.buf = toks, !.eos = (n = 0)]
                        ELSE [req[r] EXCEPT !.buf = << >>, !.eos = (n = 0), !.pause = FALSE, !.wcnt = @ + n]
        <5>1. x.ends = req[r].ends
          BY <4>2 DEF ReqVals
        <5>2. req' = [req EXCEPT ![r] = x]
          BY <4>4 DEF SendTec
        <5> HIDE DEF x
        <5> QED BY <5>1, <5>2
      <4> QED BY <2>1, <4>3, <4>4
    <3> QED BY <1>1, <3>1
  <2>3. sock \notin {"closed", "shut"} /\ UNCHANGED <<mCur, tx, pc>>
    BY <1>7 DEF SendData, pipeVars, txVars
  <2>4. PICK toks : SendPacket(res, r, toks)
    BY Zenon, <2>1 DEF SendPlain, SendTec
  <2>5. sock' \notin {"closed", "shut"} /\ (sock = "broken" => sock' = "broken")
    BY <2>3, <2>4, SocketStays
  <2> QED BY <1>2, <2>2, <2>3, <2>5 DEF EndsFew
<1>8. ASSUME NEW to \in 1 .. Len(inflow), RecvPacket(to) PROVE EndsFew'
  BY <1>8 DEF RecvPacket, reqVars, pipeVars, sockVars, txVars, EndsFew
<1>9. CASE LoopHdr \/ LoopData
  <2>1. pc = "read" /\ mCur # None /\ UNCHANGED <<mCur, sock, tx>>
    BY <1>1, <1>9 DEF LoopHdr, LoopData, pipeVars, sockVars, txVars
  <2>2. sock \notin {"closed", "shut"} /\ Len(req[mCur].ends) <= 1
    BY <1>0, <1>2, <2>1 DEF EndsFew
  <2>3. CASE \A q \in Reqs : req'[q].ends = req[q].ends
    BY <1>1, <1>2, <2>1, <2>2, <2>3 DEF EndsFew
  <2>4. ASSUME NEW q \in ReqVals, NEW m, q.ends = req[mCur].ends, pc' = "end",
               req' = [req EXCEPT ![mCur] = Completed(q, m)]
        PROVE  EndsFew'
    <3>1. Completed(q, m).ends = Append(q.ends, 0)
      BY DEF Completed, Ended, ReqVals
    <3>2. Len(Append(q.ends, 0)) = Len(q.ends) + 1
      BY <1>2, <2>1, <2>4, AppendProperties
    <3>3. Len(req'[mCur].ends) <= 2
      BY <1>1, <1>2, <2>1, <2>2, <2>4, <3>1, <3>2
    <3>4. \A p \in Reqs : p # mCur => req'[p] = req[p]
      BY <1>1, <2>4
    <3> QED BY <2>1, <2>2, <2>4, <3>3, <3>4 DEF EndsFew
  <2>5. CASE LoopHdr
    BY <1>1, <1>2, <2>1, <2>3, <2>4, <2>5 DEF LoopHdr
  <2>6. CASE LoopData
    <3> DEFINE x == FetchData(f)
               q == Received(req[mCur], x.data)
    <3>1. q.ends = req[mCur].ends
      BY <1>2, <2>1 DEF Received, ReqVals
    <3>2. CASE x.res = "MSG_DATA_END"
      <4>1. req' = [req EXCEPT ![mCur] = Completed(q, mRecvMsg)] /\ pc' = "end"
        BY <2>1, <2>6, <3>2 DEF LoopData
      <4>2. Completed(q, mRecvMsg).ends = Append(req[mCur].ends, 0)
        BY <1>2, <2>1 DEF Completed, Ended, Received, ReqVals
      <4>3. Len(Append(req[mCur].ends, 0)) = Len(req[mCur].ends) + 1
        BY <1>2, <2>1, AppendProperties
      <4>4. Len(req'[mCur].ends) <= 2
        BY <1>1, <1>2, <2>1, <2>2, <4>1, <4>2, <4>3
      <4>5. \A p \in Reqs : p # mCur => req'[p] = req[p]
        BY <1>1, <4>1
      <4> QED BY <2>1, <2>2, <4>1, <4>4, <4>5 DEF EndsFew
    <3>3. CASE x.res # "MSG_DATA_END"
      <4>1. req' = [req EXCEPT ![mCur] = q]
        BY <2>1, <2>6, <3>3 DEF LoopData
      <4>2. \A p \in Reqs : req'[p].ends = req[p].ends
        BY <1>1, <1>2, <2>1, <3>1, <4>1
      <4> QED BY <2>3, <4>2
    <3> QED BY <3>2, <3>3
  <2> QED BY <1>9, <2>5, <2>6
<1>10. CASE LoopNone \/ EndReturns
  <2>1. UNCHANGED <<req, sock, tx>> /\ pc' = "idle"
    BY <1>1, <1>10 DEF LoopNone, EndReturns, reqVars, sockVars, txVars
  <2>2. mCur' = None \/ (mCur' = mCur /\ pc = "read")
    BY <1>1, <1>10 DEF LoopNone, EndReturns, pipeVars
  <2> QED BY <2>1, <2>2 DEF EndsFew
<1>11. CASE Disconnected
  <2>1. /\ pc = "idle" /\ pc' = pc /\ sock' = "closed" /\ sock \notin {"closed", "shut"}
        /\ req' = [r \in Reqs |-> IF ~Waiting(r) THEN req[r]
                                  ELSE Ended(req[r], IF req[r].msg = None THEN -1 ELSE 0)]
    BY <1>11 DEF Disconnected
  <2>2. ASSUME NEW r \in Reqs PROVE Len(req'[r].ends) <= 2
    <3>1. CASE ~Waiting(r)
      BY <2>1, <3>1 DEF EndsFew
    <3>2. CASE Waiting(r)
      <4>1. r = mCur /\ mCur # None
        BY <1>1, <3>2, NReqAssumption DEF Waiting, Reqs, None
      <4>2. Len(req[r].ends) <= 1
        BY <1>0, <2>1, <4>1
      <4>3. Len(Ended(req[r], IF req[r].msg = None THEN -1 ELSE 0).ends) = Len(req[r].ends) + 1
        BY <1>1, EndedOnceMore
      <4> QED BY <1>2, <2>1, <3>2, <4>1, <4>2, <4>3
    <3> QED BY <3>1, <3>2
  <2> QED BY <2>1, <2>2 DEF EndsFew
<1>12. CASE Flush \/ \E x \in Resps : Answer(x)
  <2>1. UNCHANGED <<req, mCur, pc, tx>> /\ (sock' = sock \/ (sock = "pending" /\ sock' = "drained"))
    <3>1. CASE Flush
      BY <3>1 DEF Flush, reqVars, pipeVars, txVars
    <3>2. ASSUME NEW x \in Resps, Answer(x) PROVE UNCHANGED <<req, mCur, pc, tx, sock>>
      BY <3>2 DEF Answer, reqVars, pipeVars, sockVars, txVars
    <3> QED BY <1>12, <3>1, <3>2
  <2> QED BY <2>1 DEF EndsFew
<1>13. CASE UNCHANGED vars
  <2>1. UNCHANGED <<req, mCur, pc, tx, sock>>
    BY Zenon, <1>13 DEF vars
  <2> QED BY <2>1 DEF EndsFew
<1> QED BY Zenon, <1>3, <1>4, <1>5, <1>6, <1>7, <1>8, <1>9, <1>10, <1>11, <1>12, <1>13
        DEF Next, Tx, Loop

LEMMA EndsFewHolds == ASSUME ~Pipelined PROVE Spec => []EndsFew
<1>1. Init => EndsFew
  BY DEF Init, EndsFew, NoReq, NewReq, None
<1>2. CnnInv /\ EndsFew /\ [Next]_vars => EndsFew'
  BY EndsFewKept
<1> QED BY <1>1, <1>2, CnnInvHolds, PTL DEF Spec

(* A request that has ended well is told nothing more: not by a packet that   *)
(* the socket refuses afterwards, not by procDisconnected(), and not by the   *)
(* response to the next one.  And no request is told more than twice that it  *)
(* ended.                                                                     *)
THEOREM EndsWellOnce == ASSUME ~Pipelined PROVE Spec => []NothingAfterEnd
<1>1. CnnInv /\ EndsFew => NothingAfterEnd
  <2> SUFFICES ASSUME CnnInv, EndsFew, NEW r \in 1 .. nreq
               PROVE  /\ \A i \in DOMAIN req[r].ends : req[r].ends[i] = 0 => i = Len(req[r].ends)
                      /\ Len(req[r].ends) <= 2
    BY DEF NothingAfterEnd
  <2>1. r \in Reqs
    BY NReqAssumption DEF CnnInv, One, Reqs
  <2>2. req[r].ends \in Seq({0, -1})
    BY <2>1 DEF CnnInv, One, ReqVals
  <2>3. DOMAIN req[r].ends = 1 .. Len(req[r].ends)
    BY <2>2, LenProperties
  <2>4. \A i \in DOMAIN req[r].ends : req[r].ends[i] = 0 => i = Len(req[r].ends)
    BY <2>1, <2>3 DEF CnnInv, Ends
  <2>5. Len(req[r].ends) <= 2
    BY <2>1 DEF EndsFew
  <2> QED BY <2>4, <2>5
<1> QED BY <1>1, CnnInvHolds, EndsFewHolds, PTL

(* A request is told that it has ended well only with its own response: the   *)
(* message of that number, every unit of its body and no unit of another,     *)
(* unless the body is larger than the receive buffer.  The connection knows   *)
(* the owner of a response by the order in which they arrive, no more.        *)
THEOREM ResponsesMatched == ASSUME ~Pipelined PROVE Spec => []OwnResponse
<1>1. CnnInv => OwnResponse
  <2> SUFFICES ASSUME CnnInv, NEW r \in 1 .. nreq
               PROVE  LET n == Cardinality({i \in DOMAIN inflow : inflow[i].id = r /\ inflow[i].t = "body"}) IN
                      /\ \A i \in DOMAIN req[r].data : req[r].data[i] = r
                      /\ (\E i \in DOMAIN req[r].ends : req[r].ends[i] = 0)
                           => req[r].msg = r /\ (n <= MaxRecv => Len(req[r].data) = n)
    BY DEF OwnResponse
  <2>1. r \in Reqs
    BY NReqAssumption DEF CnnInv, One, Reqs
  <2>2. req[r].ends \in Seq({0, -1}) /\ req[r].data \in Seq(Nat)
    BY <2>1 DEF CnnInv, One, ReqVals
  <2>3. DOMAIN req[r].ends = 1 .. Len(req[r].ends) /\ DOMAIN req[r].data = 1 .. Len(req[r].data)
    BY <2>2, LenProperties
  <2>4. PICK m, n, off, c, k : Receives(m, n, off, c, k)
    BY DEF CnnInv, Receiving
  <2>5. /\ AllOf(req[r].data, r)
        /\ EndsWell(r) => /\ req[r].msg = r /\ r <= n
                          /\ m[r].units <= MaxRecv => Len(req[r].data) = m[r].units
    BY <2>1, <2>4 DEF Receives, Owns
  <2>6. r <= n => Cardinality(Units(inflow, r)) = m[r].units
    BY <2>1, <2>4 DEF Receives, Counted
  <2>7. Units(inflow, r) = {i \in DOMAIN inflow : inflow[i].id = r /\ inflow[i].t = "body"}
    BY DEF Units
  <2>8. \A i \in DOMAIN req[r].data : req[r].data[i] = r
    BY <2>3, <2>5 DEF AllOf
  <2>9. (\E i \in DOMAIN req[r].ends : req[r].ends[i] = 0) => EndsWell(r)
    BY <2>3 DEF EndsWell
  <2> QED BY <2>5, <2>6, <2>7, <2>8, <2>9
<1> QED BY <1>1, CnnInvHolds, PTL

(* No assert() of procRead() or of the assembler fails: a message is fetched  *)
(* only while a request waits for it, and in the state each assert() expects. *)
THEOREM ClientAssertsHold == ASSUME ~Pipelined PROVE Spec => []NoClientAssertFails
<1>1. CnnInv => NoClientAssertFails
  BY DEF CnnInv, NoClientAssertFails
<1> QED BY <1>1, CnnInvHolds, PTL

-----------------------------------------------------------------------------
(* What the server reads: the requests one after another, each whole before  *)
(* the next.                                                                 *)
(*                                                                           *)
(* What request() and setContent() see to: a chunked body has no length, the *)
(* length of a data stream is the one announced.                             *)
BodiesFit ==
  \A b \in ReqBodies : IF b.te THEN b.clen = ChunkedLen
                       ELSE b.clen \in Nat /\ (b.strm = NoStrm \/ b.strm = b.clen)

(* Requests are made one at a time; or, in a pipeline, the socket takes every *)
(* packet at once, none has a body the application writes, and at most one   *)
(* is queued before the connection is up.                                    *)
NoneWritten == \A b \in ReqBodies : b.strm # NoStrm \/ (~b.te /\ b.clen = 0)
Turns == ~Pipelined \/ (~SockPends /\ BeforeConnect <= 2 /\ NoneWritten)

(* The fields of a request that concern sending.                             *)
Fields == {"body", "strm", "manual", "wcnt", "buf", "eos", "pause", "asked", "active", "msg",
           "data", "ends"}
Sendable(q) ==
  /\ DOMAIN q = Fields
  /\ q.strm \in StrmVals /\ q.wcnt \in Int /\ q.buf \in Seq(BodyToks) /\ q.eos \in BOOLEAN

(* What the server has, or will when the packet that waits has gone.         *)
View == ReadAll(srv, held)

WholeAt(q, v) == v.ok /\ v.whole = UpTo(q) /\ v.cur = None
BodyAt(q, left, v) == v.ok /\ v.whole = UpTo(q - 1) /\ v.cur = q /\ v.left = left

(* Where it is in request q, by what the request still holds.                *)
StrmFits(x) ==
  /\ x.body \in ReqBodies /\ x.strm.te = x.body.te /\ x.strm.clen = x.body.clen
  /\ (x.strm.strm = NoStrm) <=> (x.body.strm = NoStrm)
  /\ x.manual <=> (x.body.strm = NoStrm /\ x.body.clen # 0)
  /\ x.manual \/ x.wcnt = 0
LeftOf(x) == IF x.strm.strm # NoStrm THEN x.strm.strm ELSE x.strm.clen - x.wcnt
PlainAt(q, x, v) ==
  LET left == LeftOf(x) IN
  IF left = 0 THEN WholeAt(q, v) ELSE left > 0 /\ BodyAt(q, left, v)
StreamedAt(q, x, v) ==
  /\ x.strm.strm >= 0 /\ x.strm.part = << >>
  /\ IF x.strm.eos THEN WholeAt(q, v) ELSE BodyAt(q, ChunkedLen, v)
ChunkToks == [t : {"chunk"}, n : Int]
WrittenAt(q, x, v) ==
  IF x.eos /\ x.buf = << >> THEN WholeAt(q, v)
  ELSE BodyAt(q, ChunkedLen, v) /\ (~x.eos => x.buf \in Seq(ChunkToks))
Untouched(x) ==
  /\ StrmFits(x) /\ x.strm.hdr /\ x.strm.strm = x.body.strm /\ x.strm.part = << >> /\ ~x.strm.eos
  /\ x.wcnt = 0 /\ x.buf = << >> /\ ~x.eos
SentTo(q, x, v) ==
  /\ StrmFits(x)
  /\ IF x.strm.hdr THEN Untouched(x) /\ WholeAt(q - 1, v)
     ELSE IF ~x.strm.te THEN PlainAt(q, x, v)
     ELSE IF x.strm.strm # NoStrm THEN StreamedAt(q, x, v)
     ELSE WrittenAt(q, x, v)

-----------------------------------------------------------------------------
(* The request that is being sent or was sent last.                          *)
Cursor == nreq - Len(mSendQueList)

(* The connection was up and is lost: nothing is sent any more.              *)
Lost == sock \in {"broken", "shut"} \/ (sock = "closed" /\ mIsConnected)

Bodied ==
  /\ nreq \in 0 .. NReq /\ DOMAIN req = Reqs /\ \A r \in Reqs : Sendable(req[r])
  /\ mSendQueList \in Seq(Nat) /\ \A i \in 1 .. Len(mSendQueList) : mSendQueList[i] <= nreq
  /\ srv \in Readers /\ View \in Readers

Socks == {"new", "connecting", "writable", "pending", "drained", "broken", "closed", "shut"}
Control ==
  /\ mCur \in 0 .. nreq /\ tx \in 0 .. nreq
  /\ mPipeList \in Seq(Nat) /\ \A i \in 1 .. Len(mPipeList) : mPipeList[i] <= nreq
  /\ mIsConnected \in BOOLEAN /\ sock \in Socks
  /\ pc \in {"idle", "tx", "under", "read", "end", "crashed"} /\ ret \in {"idle", "end"}
  /\ pc \notin {"tx", "under", "crashed"} => tx = None

Connecting ==
  /\ mIsConnected => sock \notin {"new", "connecting"}
  /\ ~mIsConnected => /\ pc = "idle" /\ sock \in {"new", "connecting", "closed", "shut"}
                      /\ mCur = Cursor /\ (mCur = None => nreq = 0)
                      /\ Cursor <= 1
  /\ ~SockPends => sock \notin {"pending", "drained"}

(* The application was asked for a body only behind the header.              *)
Asked ==
  /\ \A r \in Reqs : req[r].asked => r <= nreq /\ ~req[r].strm.hdr
  /\ pc = "under" => tx # None /\ req[tx].asked

(* Before the loop has taken it, a request in the queue waits behind one that*)
(* is sent.                                                                  *)
Queue ==
  /\ mSendQueList = << >> \/ (mSendQueList = <<nreq>> /\ nreq >= 2 /\ (~mIsConnected \/ pc = "tx"))
  /\ mCur <= Cursor /\ tx <= Cursor
  /\ sock # "pending" => held = << >>

(* The server is where the request at the cursor says; those before it have  *)
(* given what they have, the one behind it waits untouched.                  *)
Reaches == IF Cursor = 0 THEN WholeAt(0, View) ELSE SentTo(Cursor, req[Cursor], View)
Behind ==
  /\ \A r \in 1 .. Cursor - 1 : StrmFits(req[r]) /\ Avail(req[r].strm) # "some"
  /\ mSendQueList # << >> => Untouched(req[nreq])

(* What the stream at the cursor has is left there only while the loop is at *)
(* it, or the socket does not take it.                                       *)
Rests ==
  sock = "writable" /\ pc # "crashed" /\ ~(pc = "tx" /\ tx = Cursor) /\ Cursor # 0
    => Avail(req[Cursor].strm) # "some"

InTurn == View.ok /\ View.whole = UpTo(Len(View.whole))

SendInv ==
  /\ Bodied /\ Control /\ Connecting /\ Asked /\ InTurn
  /\ ~Pipelined => mSendQueList = << >>
  /\ ~Lost => Queue /\ Reaches /\ Behind /\ Rests

OnceInv ==
  \A r \in Reqs :
    /\ r > nreq => View.got[r] = 0
    /\ r <= nreq /\ req[r].manual /\ req[r].body.te =>
         View.got[r] = req[r].wcnt /\ (~Lost => req[r].buf = << >>)

-----------------------------------------------------------------------------
(* Reading packets, entry by entry.                                          *)
LEMMA ReadNone ==
  ASSUME NEW s \in Readers
  PROVE  ReadAll(s, << >>) = s
<1> DEFINE none == << >>
           F == ReadF(Readers, {})
<1>1. none \in Seq({}) /\ Closed(Readers, {})
  BY DEF Closed
<1>2. ReadAll(s, none) = Fold(F, s, none) /\ Foldable(Readers, {}, F, s, none)
  BY <1>1, ReadingIsFold
<1> HIDE DEF F, none
<1>3. Fold(F, s, << >>) = s
  BY <1>2, FoldEmpty DEF none
<1> QED BY <1>2, <1>3 DEF none

LEMMA ReadAllAppend ==
  ASSUME NEW S, NEW E, Closed(S, E), NEW a \in S, NEW w \in Seq(E), NEW e \in E
  PROVE  ReadAll(a, Append(w, e)) = Read(ReadAll(a, w), e)
<1> DEFINE F == ReadF(S, E)
           we == Append(w, e)
<1>1. we \in Seq(E)
  BY AppendProperties
<1>2. ReadAll(a, w) = Fold(F, a, w) /\ Foldable(S, E, F, a, w) /\ ReadAll(a, we) = Fold(F, a, we)
  BY <1>1, ReadingIsFold
<1>3. ReadAll(a, w) \in S
  BY ReadAllStays
<1>4. \A s \in S : F[<<s, e>>] = Read(s, e)
  BY DEF ReadF
<1> HIDE DEF F
<1>5. Fold(F, a, Append(w, e)) = F[<<Fold(F, a, w), e>>]
  BY <1>2, FoldAppend
<1> QED BY <1>2, <1>3, <1>4, <1>5

LEMMA EntriesRead ==
  ASSUME NEW q \in Reqs
  PROVE  Closed(Readers, Entry(q))
<1> SUFFICES ASSUME NEW x \in Readers, NEW y \in Entry(q) PROVE Read(x, y) \in Readers
  BY DEF Closed
<1> QED BY ReadIs DEF ReadsOn, IsReader

EntryOf(q, t) == [c |-> q, tok |-> t]
AnyToks == [t : {"hdr", "data", "chunk", "last"}, n : Int]

LEMMA PacketEntries ==
  ASSUME NEW q \in Reqs, NEW toks \in Seq(AnyToks)
  PROVE  /\ Packet(q, toks) \in Seq(Entry(q))
         /\ \A t \in AnyToks : Packet(q, Append(toks, t)) = Append(Packet(q, toks), EntryOf(q, t))
<1> DEFINE p == Packet(q, toks)
           n == Len(toks)
<1>1. DOMAIN toks = 1 .. n /\ n \in Nat /\ \A i \in 1 .. n : toks[i] \in AnyToks
  BY LenProperties, ElementOfSeq
<1>2. p = [i \in 1 .. n |-> EntryOf(q, toks[i])]
  BY <1>1 DEF Packet, EntryOf
<1>3. \A t \in AnyToks : EntryOf(q, t) \in Entry(q)
  BY DEF EntryOf, AnyToks, Entry
<1> HIDE DEF p, n
<1>4. p \in Seq(Entry(q)) /\ Len(p) = n
  BY <1>1, <1>2, <1>3
<1>5. ASSUME NEW t \in AnyToks
      PROVE  Packet(q, Append(toks, t)) = Append(p, EntryOf(q, t))
  <2> DEFINE a == Append(toks, t)
             x == Packet(q, a)
             y == Append(p, EntryOf(q, t))
  <2>1. a \in Seq(AnyToks) /\ Len(a) = n + 1 /\ a[n + 1] = t /\ \A i \in 1 .. n : a[i] = toks[i]
    BY AppendProperties DEF n
  <2>2. DOMAIN a = 1 .. n + 1
    BY <2>1, LenProperties
  <2> HIDE DEF a
  <2>3. x = [i \in 1 .. n + 1 |-> EntryOf(q, a[i])]
    BY <2>2 DEF Packet, EntryOf
  <2>4. \A i \in 1 .. n + 1 : a[i] \in AnyToks
    BY <2>1, <2>2, ElementOfSeq
  <2>5. x \in Seq(Entry(q)) /\ Len(x) = n + 1 /\ \A i \in 1 .. n + 1 : x[i] = EntryOf(q, a[i])
    BY <1>1, <1>3, <2>3, <2>4
  <2>6. y \in Seq(Entry(q)) /\ Len(y) = n + 1 /\ y[n + 1] = EntryOf(q, t) /\ \A i \in 1 .. n : y[i] = p[i]
    BY <1>3, <1>4, AppendProperties
  <2>7. \A i \in 1 .. n : p[i] = EntryOf(q, toks[i])
    BY <1>2
  <2> HIDE DEF x, y
  <2>8. \A i \in 1 .. n + 1 : x[i] = y[i]
    <3>1. \A i \in 1 .. n + 1 : i = n + 1 \/ i \in 1 .. n
      BY <1>1
    <3> QED BY <2>1, <2>5, <2>6, <2>7, <3>1
  <2>9. x = y
    BY <2>5, <2>6, <2>8, SeqEqual
  <2> QED BY <2>9 DEF x, y, a
<1> QED BY <1>4, <1>5 DEF p

(* One token, two, or one more.                                              *)
LEMMA PacketRead ==
  ASSUME NEW q \in Reqs, NEW v \in Readers, NEW toks \in Seq(AnyToks)
  PROVE  /\ ReadAll(v, Packet(q, toks)) \in Readers
         /\ ReadAll(v, Packet(q, << >>)) = v
         /\ \A t \in AnyToks : /\ ReadAll(v, Packet(q, Append(toks, t)))
                                    = Read(ReadAll(v, Packet(q, toks)), EntryOf(q, t))
                               /\ Read(v, EntryOf(q, t)) \in Readers
                               /\ ReadAll(v, Packet(q, <<t>>)) = Read(v, EntryOf(q, t))
<1> DEFINE none == << >>
<1>1. none \in Seq(AnyToks) /\ none = << >> /\ \A t : Append(none, t) = <<t>>
  OBVIOUS
<1>2. Closed(Readers, Entry(q))
  BY EntriesRead
<1>3. \A t \in AnyToks : EntryOf(q, t) \in Entry(q)
  BY DEF EntryOf, AnyToks, Entry
<1>4. ReadAll(v, Packet(q, none)) = v
  <2>1. Packet(q, none) = << >>
    BY DEF Packet
  <2> QED BY <2>1, ReadNone
<1>5. ASSUME NEW u \in Seq(AnyToks), NEW t \in AnyToks
      PROVE  ReadAll(v, Packet(q, Append(u, t))) = Read(ReadAll(v, Packet(q, u)), EntryOf(q, t))
  <2>1. Packet(q, u) \in Seq(Entry(q)) /\ Packet(q, Append(u, t)) = Append(Packet(q, u), EntryOf(q, t))
    BY PacketEntries
  <2> QED BY <1>2, <1>3, <2>1, ReadAllAppend
<1>6. ReadAll(v, Packet(q, toks)) \in Readers
  <2>1. Packet(q, toks) \in Seq(Entry(q))
    BY PacketEntries
  <2> QED BY <1>2, <2>1, ReadAllStays
<1>7. \A t \in AnyToks : Read(v, EntryOf(q, t)) \in Readers
  BY <1>2, <1>3 DEF Closed
<1>8. \A t \in AnyToks : ReadAll(v, Packet(q, <<t>>)) = Read(v, EntryOf(q, t))
  BY <1>1, <1>4, <1>5
<1> QED BY <1>1, <1>4, <1>5, <1>6, <1>7, <1>8

LEMMA OneRead ==
  ASSUME NEW q \in Reqs, NEW v \in Readers, NEW t \in AnyToks
  PROVE  /\ <<t>> \in Seq(AnyToks) /\ Read(v, EntryOf(q, t)) \in Readers
         /\ ReadAll(v, Packet(q, <<t>>)) = Read(v, EntryOf(q, t))
<1> DEFINE none == << >>
<1>1. none \in Seq(AnyToks) /\ <<t>> \in Seq(AnyToks)
  OBVIOUS
<1> HIDE DEF none
<1> QED BY <1>1, PacketRead

LEMMA MoreRead ==
  ASSUME NEW q \in Reqs, NEW v \in Readers, NEW toks \in Seq(AnyToks), NEW t \in AnyToks
  PROVE  ReadAll(v, Packet(q, Append(toks, t))) = Read(ReadAll(v, Packet(q, toks)), EntryOf(q, t))
BY PacketRead

-----------------------------------------------------------------------------
(* What one token of request q does to a reader that is where it belongs.    *)
LEMMA HeaderGets ==
  ASSUME NEW q \in Reqs, NEW v \in Readers, WholeAt(q - 1, v), NEW n \in Int,
         NEW d, d = Read(v, EntryOf(q, Tok("hdr", n)))
  PROVE  /\ IF n = 0 THEN WholeAt(q, d) ELSE BodyAt(q, n, d)
         /\ d.got = v.got
<1> DEFINE w == Append(v.whole, q)
           e == EntryOf(q, Tok("hdr", n))
<1>1. q # None /\ v.cur = None /\ v.whole = UpTo(q - 1) /\ v.ok
  BY DEF WholeAt, Reqs, None
<1>2. e.c = q /\ e.tok.t = "hdr" /\ e.tok.n = n
  BY DEF EntryOf, Tok
<1>3. w = UpTo(q)
  <2>1. q - 1 \in Nat /\ q - 1 + 1 = q
    BY NReqAssumption DEF Reqs
  <2> QED BY <1>1, <2>1, UpToIs
<1>0. d = Read(v, e)
  OBVIOUS
<1> HIDE DEF e
<1>4. d = IF n = 0 THEN [v EXCEPT !.whole = w, !.cur = None, !.left = 0]
          ELSE [v EXCEPT !.cur = q, !.left = n]
  BY <1>0, <1>1, <1>2 DEF Read
<1> HIDE DEF w
<1>5. /\ IF n = 0 THEN WholeAt(q, d) ELSE BodyAt(q, n, d)
      /\ d.got = v.got
  <2>1. CASE n = 0
    <3>1. d = [v EXCEPT !.whole = w, !.cur = None, !.left = 0]
      BY <1>4, <2>1
    <3> QED BY <1>1, <1>3, <2>1, <3>1 DEF Readers, WholeAt
  <2>2. CASE n # 0
    <3>1. d = [v EXCEPT !.cur = q, !.left = n]
      BY <1>4, <2>2
    <3> QED BY <1>1, <2>2, <3>1 DEF Readers, BodyAt
  <2> QED BY <2>1, <2>2
<1> QED BY <1>5

LEMMA WholeRead ==
  ASSUME NEW q \in Reqs, NEW v \in Readers, NEW left, BodyAt(q, left, v)
  PROVE  LET d == [v EXCEPT !.whole = Append(@, q), !.cur = None, !.left = 0] IN
         WholeAt(q, d) /\ d.got = v.got
<1> DEFINE w == Append(v.whole, q)
<1>1. w = UpTo(q)
  <2>1. q - 1 \in Nat /\ q - 1 + 1 = q
    BY NReqAssumption DEF Reqs
  <2>2. v.whole = UpTo(q - 1)
    BY DEF BodyAt
  <2> QED BY <2>1, <2>2, UpToIs
<1> HIDE DEF w
<1>2. LET d == [v EXCEPT !.whole = w, !.cur = None, !.left = 0] IN
      WholeAt(q, d) /\ d.got = v.got
  BY <1>1 DEF Readers, WholeAt, BodyAt
<1> QED BY <1>2 DEF w

LEMMA DataGets ==
  ASSUME NEW q \in Reqs, NEW v \in Readers, NEW left \in Nat, BodyAt(q, left, v), NEW n \in 1 .. left,
         NEW d, d = Read(v, EntryOf(q, Tok("data", n)))
  PROVE  /\ IF n = left THEN WholeAt(q, d) ELSE BodyAt(q, left - n, d)
         /\ d.got = v.got
<1> DEFINE e == EntryOf(q, Tok("data", n))
           whole == [v EXCEPT !.whole = Append(@, q), !.cur = None, !.left = 0]
<1>1. v.cur = q /\ v.left = left /\ left # ChunkedLen /\ n <= left /\ n \in Int
  BY DEF BodyAt, ChunkedLen
<1>2. e.c = q /\ e.tok.t = "data" /\ e.tok.n = n
  BY DEF EntryOf, Tok
<1>3. WholeAt(q, whole) /\ whole.got = v.got
  BY WholeRead
<1>0. d = Read(v, e)
  OBVIOUS
<1> HIDE DEF e
<1>4. d = IF n = left THEN whole ELSE [v EXCEPT !.left = left - n]
  BY <1>0, <1>1, <1>2 DEF Read
<1> HIDE DEF whole
<1>5. CASE n = left
  BY <1>3, <1>4, <1>5
<1>6. CASE n # left
  <2>1. d = [v EXCEPT !.left = left - n]
    BY <1>4, <1>6
  <2> QED BY <1>6, <2>1 DEF BodyAt, Readers
<1> QED BY <1>5, <1>6

LEMMA ChunkGets ==
  ASSUME NEW q \in Reqs, NEW v \in Readers, BodyAt(q, ChunkedLen, v), NEW n \in Int,
         NEW d, d = Read(v, EntryOf(q, Tok("chunk", n)))
  PROVE  BodyAt(q, ChunkedLen, d) /\ d.got[q] = v.got[q] + n
<1> DEFINE e == EntryOf(q, Tok("chunk", n))
           got == [v.got EXCEPT ![q] = @ + n]
<1>1. v.cur = q /\ v.left = ChunkedLen
  BY DEF BodyAt
<1>2. e.c = q /\ e.tok.t = "chunk" /\ e.tok.n = n
  BY DEF EntryOf, Tok
<1>0. d = Read(v, e)
  OBVIOUS
<1> HIDE DEF e
<1>3. d = [v EXCEPT !.got = got]
  BY <1>0, <1>1, <1>2 DEF Read
<1>4. got[q] = v.got[q] + n
  BY DEF Readers
<1> HIDE DEF got
<1> QED BY <1>3, <1>4 DEF BodyAt, Readers

LEMMA LastGets ==
  ASSUME NEW q \in Reqs, NEW v \in Readers, BodyAt(q, ChunkedLen, v),
         NEW d, d = Read(v, EntryOf(q, Tok("last", 0)))
  PROVE  WholeAt(q, d) /\ d.got = v.got
<1> DEFINE e == EntryOf(q, Tok("last", 0))
           whole == [v EXCEPT !.whole = Append(@, q), !.cur = None, !.left = 0]
<1>1. v.cur = q /\ v.left = ChunkedLen
  BY DEF BodyAt
<1>2. e.c = q /\ e.tok.t = "last" /\ e.tok.n = 0
  BY DEF EntryOf, Tok
<1>3. WholeAt(q, whole) /\ whole.got = v.got
  BY WholeRead
<1>0. d = Read(v, e)
  OBVIOUS
<1> HIDE DEF e
<1>4. d = whole
  BY <1>0, <1>1, <1>2 DEF Read
<1> HIDE DEF whole
<1>5. WholeAt(q, d) /\ d.got = v.got
  BY <1>3, <1>4
<1> QED BY <1>5

(* What was got of other requests stays.                                     *)
LEMMA OthersStay ==
  ASSUME NEW q \in Reqs, NEW r \in Reqs, r # q, NEW v \in Readers, NEW toks \in Seq(AnyToks)
  PROVE  ReadAll(v, Packet(q, toks)).got[r] = v.got[r]
<1> DEFINE S == {s \in Readers : s.got[r] = v.got[r]}
<1>1. ASSUME NEW s \in S, NEW e \in Entry(q)
      PROVE  Read(s, e) \in S
  <2> DEFINE d == Read(s, e)
             n == e.tok.n
             whole == Append(s.whole, e.c)
             left == s.left - n
             got == [s.got EXCEPT ![e.c] = @ + n]
  <2>1. d \in Readers /\ e.c = q /\ s \in Readers
    BY <1>1, EntriesRead DEF Closed, Entry
  <2>2. \/ d = [s EXCEPT !.whole = whole, !.cur = None, !.left = 0]
        \/ d = [s EXCEPT !.cur = e.c, !.left = n]
        \/ d = [s EXCEPT !.left = left]
        \/ d = [s EXCEPT !.got = got]
        \/ d = [s EXCEPT !.ok = FALSE]
    BY <2>1 DEF Read
  <2>3. got[r] = s.got[r]
    BY <2>1 DEF Readers
  <2> HIDE DEF d, whole, left, got
  <2>4. d.got[r] = s.got[r]
    BY <2>1, <2>2, <2>3 DEF Readers
  <2> QED BY <1>1, <2>1, <2>4 DEF d
<1>2. Closed(S, Entry(q)) /\ v \in S
  BY <1>1 DEF Closed
<1>3. Packet(q, toks) \in Seq(Entry(q))
  BY PacketEntries
<1> HIDE DEF S
<1>4. ReadAll(v, Packet(q, toks)) \in S
  BY <1>2, <1>3, ReadAllStays
<1> QED BY <1>4 DEF S

-----------------------------------------------------------------------------
(* What a request's stream says of where the server is.                      *)
LEMMA FitsIs ==
  ASSUME BodiesFit, NEW x, Sendable(x), StrmFits(x)
  PROVE  LET s == x.strm IN
         /\ s.strm \in Int /\ s.clen \in Int /\ s.hdr \in BOOLEAN /\ s.te \in BOOLEAN /\ s.eos \in BOOLEAN
         /\ s.te => s.clen = ChunkedLen
         /\ ~s.te => s.clen \in Nat
         /\ ~s.te /\ x.body.strm # NoStrm => x.body.strm = s.clen
         /\ x.body.strm \in Int /\ (x.body.strm # NoStrm => x.body.strm \in Nat)
         /\ x.manual <=> (s.strm = NoStrm /\ s.clen # 0)
<1> DEFINE b == x.body
           s == x.strm
<1>1. b \in ReqBodies /\ s.te = b.te /\ s.clen = b.clen /\ (s.strm = NoStrm <=> b.strm = NoStrm)
      /\ (x.manual <=> (b.strm = NoStrm /\ b.clen # 0))
  BY DEF StrmFits
<1>2. b \in Bodies /\ (IF b.te THEN b.clen = ChunkedLen ELSE b.clen \in Nat /\ (b.strm = NoStrm \/ b.strm = b.clen))
  BY <1>1, BodiesAssumption DEF BodiesFit
<1>3. b.strm \in NoStrm .. MaxLen
  BY <1>2 DEF Bodies
<1>4. b.strm \in Int /\ (b.strm # NoStrm => b.strm \in Nat)
  BY <1>3, MaxLenAssumption DEF NoStrm
<1>5. s \in StrmVals
  BY DEF Sendable
<1> HIDE DEF b, s
<1>6. s.strm \in Int /\ s.clen \in Int /\ s.hdr \in BOOLEAN /\ s.te \in BOOLEAN /\ s.eos \in BOOLEAN
  BY <1>5 DEF StrmVals
<1>7. /\ s.te => s.clen = ChunkedLen
      /\ ~s.te => s.clen \in Nat
      /\ ~s.te /\ b.strm # NoStrm => b.strm = s.clen
  BY <1>1, <1>2
<1>8. x.manual <=> (s.strm = NoStrm /\ s.clen # 0)
  BY <1>1
<1> QED BY <1>4, <1>6, <1>7, <1>8 DEF b, s

LEMMA WholeApart ==
  ASSUME NEW q \in Reqs, NEW v
  PROVE  /\ WholeAt(q, v) => ~WholeAt(q - 1, v) /\ \A left : ~BodyAt(q, left, v)
         /\ WholeAt(q, v) => v.ok /\ v.whole = UpTo(q)
<1>1. q \in Nat /\ q - 1 \in Nat /\ q - 1 # q /\ q # None
  BY NReqAssumption DEF Reqs, None
<1>2. Len(UpTo(q - 1)) # Len(UpTo(q))
  BY <1>1, UpToIs
<1> QED BY <1>1, <1>2 DEF WholeAt, BodyAt

(* A request of which nothing is left has been read whole, and the other way *)
(* round.                                                                    *)
LEMMA LeftAndWhole ==
  ASSUME BodiesFit, NEW q \in Reqs, NEW x, Sendable(x), NEW v, SentTo(q, x, v)
  PROVE  /\ Avail(x.strm) = "none" => WholeAt(q, v)
         /\ WholeAt(q, v) => Avail(x.strm) # "some"
         /\ Avail(x.strm) = "lack" => x.manual
         /\ v.ok /\ v.whole \in {UpTo(q), UpTo(q - 1)}
<1> DEFINE s == x.strm
<1>0. StrmFits(x)
  BY DEF SentTo
<1>1. /\ s.strm \in Int /\ s.clen \in Int /\ s.hdr \in BOOLEAN /\ s.te \in BOOLEAN /\ s.eos \in BOOLEAN
      /\ s.te => s.clen = ChunkedLen
      /\ ~s.te => s.clen \in Nat
      /\ x.manual <=> (s.strm = NoStrm /\ s.clen # 0)
  BY <1>0, FitsIs
<1>2. WholeAt(q, v) => ~WholeAt(q - 1, v) /\ \A left : ~BodyAt(q, left, v)
  BY WholeApart
<1>3. CASE s.hdr
  <2>1. WholeAt(q - 1, v) /\ Avail(s) = "some"
    BY <1>3 DEF SentTo, Avail
  <2> QED BY <1>2, <2>1 DEF WholeAt
<1>4. CASE ~s.hdr /\ ~s.te
  <2>1. PlainAt(q, x, v)
    BY <1>4 DEF SentTo
  <2>2. CASE s.strm # NoStrm
    <3>1. LeftOf(x) = s.strm
      BY <2>2 DEF LeftOf
    <3>2. Avail(s) = IF s.strm > 0 THEN "some" ELSE "none"
      BY <1>4, <2>2 DEF Avail
    <3>3. IF s.strm = 0 THEN WholeAt(q, v) ELSE s.strm > 0 /\ BodyAt(q, s.strm, v)
      BY <2>1, <3>1 DEF PlainAt
    <3>4. s.strm > 0 => s.strm # 0
      BY <1>1
    <3> QED BY <1>2, <3>2, <3>3, <3>4 DEF WholeAt, BodyAt
  <2>3. CASE s.strm = NoStrm
    <3>1. LeftOf(x) = s.clen - x.wcnt
      BY <2>3 DEF LeftOf
    <3>2. Avail(s) = IF s.clen = 0 THEN "none" ELSE "lack"
      BY <1>4, <2>3 DEF Avail
    <3>3. v.ok /\ v.whole \in {UpTo(q), UpTo(q - 1)}
      BY <2>1 DEF PlainAt, WholeAt, BodyAt
    <3>4. s.clen = 0 => WholeAt(q, v)
      <4> SUFFICES ASSUME s.clen = 0 PROVE WholeAt(q, v)
        OBVIOUS
      <4>1. ~x.manual
        BY <1>1
      <4>2. x.wcnt = 0
        BY <1>0, <4>1 DEF StrmFits
      <4> QED BY <2>1, <3>1, <4>2 DEF PlainAt
    <3> QED BY <1>1, <2>3, <3>2, <3>3, <3>4
  <2> QED BY <2>2, <2>3
<1>5. CASE ~s.hdr /\ s.te
  <2>1. CASE s.strm # NoStrm
    <3>1. StreamedAt(q, x, v)
      BY <1>5, <2>1 DEF SentTo
    <3>2. Avail(s) = IF s.eos THEN "none" ELSE "some"
      BY <1>5, <2>1, <3>1 DEF Avail, StreamedAt
    <3> QED BY <1>2, <3>1, <3>2 DEF StreamedAt, WholeAt, BodyAt
  <2>2. CASE s.strm = NoStrm
    <3>1. WrittenAt(q, x, v)
      BY <1>5, <2>2 DEF SentTo
    <3>2. Avail(s) = "lack" /\ x.manual
      BY <1>1, <1>5, <2>2 DEF Avail, ChunkedLen
    <3> QED BY <3>1, <3>2 DEF WrittenAt, WholeAt, BodyAt
  <2> QED BY <2>1, <2>2
<1> QED BY <1>1, <1>3, <1>4, <1>5

-----------------------------------------------------------------------------
(* The stream sends: the server reads what it offered.                       *)
OnlyStrm(y, x, u) ==
  /\ Sendable(y) /\ y.strm = u /\ y.body = x.body /\ y.manual = x.manual /\ y.wcnt = x.wcnt
  /\ y.buf = x.buf /\ y.eos = x.eos

LEMMA StrmGets ==
  ASSUME NEW x, Sendable(x), NEW u \in StrmVals
  PROVE  OnlyStrm([x EXCEPT !.strm = u], x, u)
BY DEF Sendable, Fields, OnlyStrm

LEMMA SlicePositive ==
  ASSUME NEW s, s.strm \in Nat
  PROVE  /\ Slice1(s) \in 0 .. s.strm /\ (s.strm > 0 => Slice1(s) > 0)
BY SliceAssumption DEF Slice1

LEMMA HeaderGoes ==
  ASSUME BodiesFit, NEW q \in Reqs, NEW x, Sendable(x), NEW v \in Readers, SentTo(q, x, v), x.strm.hdr,
         NEW u, u = [x.strm EXCEPT !.hdr = FALSE], NEW y, OnlyStrm(y, x, u),
         NEW d, d = Read(v, EntryOf(q, Tok("hdr", x.strm.clen)))
  PROVE  SentTo(q, y, d) /\ d.got = v.got
<1> DEFINE s == x.strm
<1>1. /\ s.strm \in Int /\ s.clen \in Int /\ s.te \in BOOLEAN
      /\ s.te => s.clen = ChunkedLen
      /\ ~s.te => s.clen \in Nat
      /\ ~s.te /\ x.body.strm # NoStrm => x.body.strm = s.clen
      /\ x.body.strm # NoStrm => x.body.strm \in Nat
  BY FitsIs DEF SentTo
<1>2. /\ WholeAt(q - 1, v) /\ StrmFits(x)
      /\ s.strm = x.body.strm /\ s.part = << >> /\ ~s.eos /\ x.wcnt = 0 /\ x.buf = << >> /\ ~x.eos
  BY DEF SentTo, Untouched
<1>3. (IF s.clen = 0 THEN WholeAt(q, d) ELSE BodyAt(q, s.clen, d)) /\ d.got = v.got
  BY <1>1, <1>2, HeaderGets
<1>4. /\ u.hdr = FALSE /\ u.te = s.te /\ u.strm = s.strm /\ u.clen = s.clen /\ u.part = s.part /\ u.eos = s.eos
  BY DEF Sendable, StrmVals
<1>5. /\ y.strm = u /\ y.body = x.body /\ y.manual = x.manual /\ y.wcnt = x.wcnt
      /\ y.buf = x.buf /\ y.eos = x.eos
  BY DEF OnlyStrm
<1> HIDE DEF s
<1>6. StrmFits(y)
  BY <1>2, <1>4, <1>5 DEF StrmFits, s
<1>7. CASE ~s.te
  <2>1. LeftOf(y) = s.clen
    <3>1. CASE s.strm = NoStrm
      BY <1>1, <1>2, <1>4, <1>5, <3>1 DEF LeftOf
    <3>2. CASE s.strm # NoStrm
      BY <1>1, <1>2, <1>4, <1>5, <1>7, <3>2 DEF LeftOf
    <3> QED BY <3>1, <3>2
  <2>2. s.clen # 0 => s.clen > 0
    BY <1>1, <1>7
  <2>3. PlainAt(q, y, d)
    BY <1>3, <2>1, <2>2 DEF PlainAt
  <2> QED BY <1>3, <1>4, <1>5, <1>6, <1>7, <2>3 DEF SentTo
<1>8. CASE s.te
  <2>1. BodyAt(q, ChunkedLen, d)
    BY <1>1, <1>3, <1>8 DEF ChunkedLen
  <2>2. CASE s.strm = NoStrm
    <3>1. << >> \in Seq(ChunkToks)
      OBVIOUS
    <3>2. WrittenAt(q, y, d)
      BY <1>2, <1>5, <2>1, <3>1 DEF WrittenAt
    <3> QED BY <1>3, <1>4, <1>5, <1>6, <1>8, <2>2, <3>2 DEF SentTo
  <2>3. CASE s.strm # NoStrm
    <3>1. s.strm >= 0
      BY <1>1, <1>2, <2>3
    <3>2. StreamedAt(q, y, d)
      BY <1>2, <1>4, <1>5, <2>1, <3>1 DEF StreamedAt
    <3> QED BY <1>3, <1>4, <1>5, <1>6, <1>8, <2>3, <3>2 DEF SentTo
  <2> QED BY <2>2, <2>3
<1> QED BY <1>1, <1>7, <1>8

LEMMA PlainGoes ==
  ASSUME BodiesFit, NEW q \in Reqs, NEW x, Sendable(x), NEW v \in Readers, SentTo(q, x, v),
         ~x.strm.hdr, ~x.strm.te, x.strm.strm # NoStrm, x.strm.strm > 0,
         NEW n, n = Slice1(x.strm), NEW u, u = [x.strm EXCEPT !.strm = @ - n], NEW y, OnlyStrm(y, x, u),
         NEW d, d = Read(v, EntryOf(q, Tok("data", n)))
  PROVE  SentTo(q, y, d)
<1> DEFINE s == x.strm
           left == s.strm
<1>1. left \in Nat /\ s.clen \in Nat
  BY FitsIs DEF SentTo
<1>2. n \in 1 .. left
  BY <1>1, SlicePositive
<1>3. StrmFits(x) /\ BodyAt(q, left, v)
  BY DEF SentTo, PlainAt, LeftOf
<1>4. IF n = left THEN WholeAt(q, d) ELSE BodyAt(q, left - n, d)
  BY <1>1, <1>2, <1>3, DataGets
<1>5. /\ u.hdr = FALSE /\ u.te = FALSE /\ u.strm = left - n /\ u.clen = s.clen
  BY DEF Sendable, StrmVals
<1>6. /\ y.strm = u /\ y.body = x.body /\ y.manual = x.manual /\ y.wcnt = x.wcnt
      /\ y.buf = x.buf /\ y.eos = x.eos
  BY DEF OnlyStrm
<1>7. left - n # NoStrm /\ left - n >= 0 /\ (left - n = 0 <=> n = left) /\ left # NoStrm
  BY <1>1, <1>2 DEF NoStrm
<1>8. StrmFits(y)
  BY <1>3, <1>5, <1>6, <1>7 DEF StrmFits
<1> HIDE DEF left, s
<1>9. LeftOf(y) = left - n
  BY <1>5, <1>6, <1>7 DEF LeftOf
<1>10. left - n \in Nat
  BY <1>1, <1>2
<1> DEFINE m == left - n
<1>11. LeftOf(y) = m /\ m \in Nat /\ (m = 0 <=> n = left) /\ (IF n = left THEN WholeAt(q, d) ELSE BodyAt(q, m, d))
  BY <1>4, <1>7, <1>9, <1>10
<1> HIDE DEF m
<1>12. PlainAt(q, y, d)
  BY <1>11 DEF PlainAt
<1> QED BY <1>5, <1>6, <1>8, <1>12 DEF SentTo

LEMMA Joined ==
  ASSUME NEW a, NEW b
  PROVE  /\ <<a>> \o <<b>> = <<a, b>> /\ <<a>> \o << >> = <<a>>
         /\ << >> \o <<b>> = <<b>> /\ << >> \o << >> = << >>
<1> DEFINE S == {a, b}
           p == <<a>> \o <<b>>
           t == <<a, b>>
<1>1. <<a>> \in Seq(S) /\ <<b>> \in Seq(S) /\ Len(<<a>>) = 1 /\ Len(<<b>>) = 1
  OBVIOUS
<1>2. t \in Seq(S) /\ Len(t) = 2 /\ t[1] = a /\ t[2] = b
  OBVIOUS
<1>3. p \in Seq(S) /\ Len(p) = 2 /\ \A i \in 1 .. 2 : p[i] = IF i <= 1 THEN <<a>>[i] ELSE <<b>>[i - 1]
  BY <1>1, ConcatProperties
<1>4. p[1] = a /\ p[2] = b
  BY <1>3
<1> HIDE DEF S, p, t
<1>5. \A i \in 1 .. 2 : p[i] = t[i]
  <2>1. \A i \in 1 .. 2 : i = 1 \/ i = 2
    OBVIOUS
  <2> QED BY <1>2, <1>4, <2>1
<1>6. p = t
  BY <1>2, <1>3, <1>5, SeqEqual
<1>7. <<a>> \o << >> = <<a>>
  OBVIOUS
<1>8. << >> \o <<b>> = <<b>>
  OBVIOUS
<1>9. << >> \o << >> = << >>
  OBVIOUS
<1> QED BY <1>6, <1>7, <1>8, <1>9 DEF p, t

LEMMA ChunksGo ==
  ASSUME BodiesFit, NEW q \in Reqs, NEW x, Sendable(x), NEW v \in Readers, SentTo(q, x, v),
         ~x.strm.hdr, x.strm.te, x.strm.strm # NoStrm, Avail(x.strm) = "some",
         NEW s, s = Prepared(x.strm), NEW y, OnlyStrm(y, x, Consumed(s))
  PROVE  Offered(s) \in Seq(AnyToks) /\ SentTo(q, y, ReadAll(v, Packet(q, Offered(s))))
<1> DEFINE z == x.strm
           n == Slice1(z)
           last == n = z.strm
           left == z.strm - n
           chunk == Tok("chunk", n)
           end == Tok("last", 0)
           d == ReadAll(v, Packet(q, s.part))
           a == IF n > 0 THEN <<chunk>> ELSE << >>
           b == IF last THEN <<end>> ELSE << >>
           part == a \o b
<1>1. /\ z.strm \in Int /\ z.clen = ChunkedLen /\ z.hdr \in BOOLEAN /\ z.te \in BOOLEAN /\ z.eos \in BOOLEAN
  BY FitsIs DEF SentTo
<1>2. StrmFits(x) /\ z.part = << >> /\ z.strm >= 0 /\ (IF z.eos THEN WholeAt(q, v) ELSE BodyAt(q, ChunkedLen, v))
  BY DEF SentTo, StreamedAt
<1>3. ~z.eos /\ BodyAt(q, ChunkedLen, v)
  BY <1>2 DEF Avail
<1>4. z.strm \in Nat /\ n \in 0 .. z.strm /\ (z.strm > 0 => n > 0)
  BY <1>1, <1>2, SlicePositive
<1>5. s = [z EXCEPT !.strm = left, !.eos = last, !.part = part]
  BY <1>2, <1>3 DEF Prepared
<1>6. z \in StrmVals
  BY DEF Sendable
<1>7. chunk \in AnyToks /\ end \in AnyToks /\ n \in Int
  BY <1>4 DEF Tok, AnyToks
<1>8. part = IF n > 0 THEN (IF last THEN <<chunk, end>> ELSE <<chunk>>)
             ELSE (IF last THEN <<end>> ELSE << >>)
  <2> HIDE DEF chunk, end, last, n
  <2>1. CASE n > 0 /\ last
    BY <2>1, Joined
  <2>2. CASE n > 0 /\ ~last
    BY <2>2, Joined
  <2>3. CASE ~(n > 0) /\ last
    BY <2>3, Joined
  <2>4. CASE ~(n > 0) /\ ~last
    BY <2>4, Joined
  <2> QED BY <2>1, <2>2, <2>3, <2>4
<1> HIDE DEF part
<1>9. s.hdr = FALSE /\ s.te = TRUE /\ s.strm = left /\ s.eos = last /\ s.clen = z.clen /\ s.part = part
  <2> HIDE DEF left, last, z
  <2> QED BY <1>5, <1>6 DEF z, StrmVals
<1>10. Offered(s) = part
  BY <1>9 DEF Offered
<1>11. Consumed(s) = [s EXCEPT !.part = << >>]
  BY <1>9 DEF Consumed
<1>12. DOMAIN s = DOMAIN z
  <2> HIDE DEF left, last, z
  <2> QED BY <1>5
<1>13. LET u == y.strm IN
       u.hdr = FALSE /\ u.te = TRUE /\ u.strm = left /\ u.eos = last /\ u.clen = z.clen /\ u.part = << >>
  <2>1. DOMAIN z = {"hdr", "te", "strm", "clen", "part", "eos"}
    BY <1>6 DEF StrmVals
  <2> HIDE DEF left, last, z
  <2>2. y.strm = [s EXCEPT !.part = << >>]
    BY <1>11 DEF OnlyStrm
  <2> QED BY <1>9, <1>12, <2>1, <2>2
<1>14. part \in Seq(AnyToks)
  <2> HIDE DEF chunk, end, last, n
  <2> QED BY <1>7, <1>8
<1>15. IF last THEN WholeAt(q, d) ELSE BodyAt(q, ChunkedLen, d)
  <2> DEFINE e1 == Read(v, EntryOf(q, chunk))
  <2>1. BodyAt(q, ChunkedLen, e1) /\ e1 \in Readers /\ ReadAll(v, Packet(q, <<chunk>>)) = e1
    <3>1. chunk \in AnyToks
      BY <1>7
    <3>2. e1 \in Readers /\ ReadAll(v, Packet(q, <<chunk>>)) = e1
      <4> HIDE DEF chunk
      <4> QED BY <3>1, OneRead
    <3>3. BodyAt(q, ChunkedLen, e1)
      BY <1>3, <1>7, ChunkGets
    <3> QED BY <3>2, <3>3
  <2>2. CASE n > 0 /\ last
    <3>1. <<chunk>> \in Seq(AnyToks) /\ <<chunk, end>> = Append(<<chunk>>, end)
      BY <1>7
    <3>2. part = <<chunk, end>>
      BY <1>8, <2>2
    <3>3. d = Read(e1, EntryOf(q, end))
      <4>1. ReadAll(v, Packet(q, Append(<<chunk>>, end))) = Read(ReadAll(v, Packet(q, <<chunk>>)), EntryOf(q, end))
        <5> HIDE DEF chunk, end
        <5> QED BY <1>7, <3>1, MoreRead
      <4> HIDE DEF e1, chunk, end
      <4> QED BY <1>9, <2>1, <3>1, <3>2, <4>1
    <3> HIDE DEF d, e1
    <3>4. WholeAt(q, d)
      BY <2>1, <3>3, LastGets
    <3> QED BY <2>2, <3>4
  <2>3. CASE n > 0 /\ ~last
    <3>1. part = <<chunk>>
      BY <1>8, <2>3
    <3>2. d = e1
      BY <1>9, <2>1, <3>1
    <3> QED BY <2>1, <2>3, <3>2
  <2>4. CASE ~(n > 0)
    <3>1. last
      BY <1>4, <2>4
    <3>2. part = <<end>>
      BY <1>8, <2>4, <3>1
    <3>3. ReadAll(v, Packet(q, <<end>>)) = Read(v, EntryOf(q, end))
      BY <1>7, OneRead
    <3>4. d = Read(v, EntryOf(q, end))
      BY <1>9, <3>2, <3>3
    <3> HIDE DEF d
    <3>5. WholeAt(q, d)
      BY <1>3, <3>4, LastGets
    <3> QED BY <3>1, <3>5
  <2> QED BY <2>2, <2>3, <2>4
<1>16. left >= 0 /\ left # NoStrm
  BY <1>4 DEF NoStrm
<1>17. StrmFits(y)
  <2> HIDE DEF left, last, d, n
  <2> QED BY <1>2, <1>9, <1>13, <1>16 DEF StrmFits, OnlyStrm
<1>18. SentTo(q, y, d)
  <2> HIDE DEF left, last, d, n
  <2>1. StreamedAt(q, y, d)
    BY <1>13, <1>15, <1>16 DEF StreamedAt
  <2> QED BY <1>13, <1>16, <1>17, <2>1 DEF SentTo
<1>19. Offered(s) = s.part
  BY <1>9, <1>10
<1> HIDE DEF z, n, last, left, chunk, end, a, b
<1> QED BY <1>9, <1>14, <1>18, <1>19 DEF d

LEMMA StrmSends ==
  ASSUME BodiesFit, NEW q \in Reqs, NEW x, Sendable(x), NEW v \in Readers, SentTo(q, x, v),
         Avail(x.strm) = "some", NEW s, s = Prepared(x.strm), NEW y, OnlyStrm(y, x, Consumed(s)),
         NEW d, d = ReadAll(v, Packet(q, Offered(s)))
  PROVE  /\ SentTo(q, y, d) /\ d \in Readers /\ Offered(s) \in Seq(AnyToks)
         /\ x.manual => d.got = v.got
<1> DEFINE z == x.strm
<1>1. /\ z.strm \in Int /\ z.clen \in Int /\ z.hdr \in BOOLEAN /\ z.te \in BOOLEAN
      /\ x.manual => z.strm = NoStrm
  BY FitsIs DEF SentTo
<1>2. \A t \in AnyToks : /\ <<t>> \in Seq(AnyToks)
                         /\ ReadAll(v, Packet(q, <<t>>)) = Read(v, EntryOf(q, t))
                         /\ Read(v, EntryOf(q, t)) \in Readers
  BY OneRead
<1>3. CASE z.hdr
  <2> DEFINE t == Tok("hdr", z.clen)
             u == [z EXCEPT !.hdr = FALSE]
  <2>1. s = z
    BY <1>3 DEF Prepared
  <2>2. Offered(s) = <<t>> /\ Consumed(s) = u
    BY <1>3, <2>1 DEF Offered, Consumed
  <2>3. t \in AnyToks
    BY <1>1 DEF Tok, AnyToks
  <2>4. d = Read(v, EntryOf(q, t))
    BY <1>2, <2>2, <2>3
  <2>5. SentTo(q, y, d) /\ d.got = v.got
    BY <1>3, <2>2, <2>4, HeaderGoes
  <2> HIDE DEF t
  <2> QED BY <1>2, <2>2, <2>3, <2>4, <2>5
<1>4. CASE ~z.hdr /\ ~z.te
  <2> DEFINE n == Slice1(z)
             t == Tok("data", n)
             u == [z EXCEPT !.strm = @ - n]
  <2>1. s = z
    BY <1>4 DEF Prepared
  <2>2. Offered(s) = <<t>> /\ Consumed(s) = u
    BY <1>4, <2>1 DEF Offered, Consumed
  <2>3. z.strm # NoStrm /\ z.strm > 0
    BY <1>4 DEF Avail
  <2>4. t \in AnyToks
    <3>1. n \in Int
      BY <1>1, SliceAssumption DEF Slice1
    <3> QED BY <3>1 DEF Tok, AnyToks
  <2>5. d = Read(v, EntryOf(q, t))
    BY <1>2, <2>2, <2>4
  <2>6. SentTo(q, y, d)
    BY <1>4, <2>2, <2>3, <2>5, PlainGoes
  <2> HIDE DEF t
  <2> QED BY <1>1, <1>2, <2>2, <2>3, <2>4, <2>5, <2>6
<1>5. CASE ~z.hdr /\ z.te
  <2>1. z.strm # NoStrm
    BY <1>5 DEF Avail
  <2>2. Offered(s) \in Seq(AnyToks) /\ SentTo(q, y, d)
    BY <1>5, <2>1, ChunksGo
  <2>3. d \in Readers
    BY <2>2, PacketRead
  <2> QED BY <1>1, <2>1, <2>2, <2>3
<1> QED BY <1>1, <1>3, <1>4, <1>5

-----------------------------------------------------------------------------
(* The application writes: the server reads it.                              *)
LEMMA NoneToDo ==
  ASSUME NoneWritten, BodiesFit, NEW x, Sendable(x), StrmFits(x)
  PROVE  ~x.manual /\ Avail(x.strm) # "lack"
<1>1. /\ x.strm.clen \in Int /\ x.strm.hdr \in BOOLEAN /\ x.strm.te \in BOOLEAN
      /\ x.strm.te => x.strm.clen = ChunkedLen
      /\ x.manual <=> (x.strm.strm = NoStrm /\ x.strm.clen # 0)
  BY FitsIs
<1>2. x.body.strm # NoStrm \/ x.body.clen = 0
  BY DEF StrmFits, NoneWritten
<1>3. ~x.manual
  BY <1>2 DEF StrmFits
<1>4. Avail(x.strm) # "lack"
  BY <1>1, <1>3 DEF Avail, ChunkedLen
<1> QED BY <1>3, <1>4

(* The application writes only to a request whose header has gone.           *)
LEMMA WritesBody ==
  ASSUME BodiesFit, NEW q \in Reqs, NEW x, Sendable(x), NEW v, SentTo(q, x, v), ~x.strm.hdr,
         x.manual, ~x.eos
  PROVE  /\ x.strm.strm = NoStrm /\ x.strm.te = x.body.te /\ x.strm.clen = x.body.clen
         /\ x.body.te \in BOOLEAN /\ x.body.clen \in Int
         /\ ~x.body.te => PlainAt(q, x, v) /\ LeftOf(x) = x.body.clen - x.wcnt
         /\ x.body.te => BodyAt(q, ChunkedLen, v) /\ x.buf \in Seq(ChunkToks)
<1>1. StrmFits(x)
  BY DEF SentTo
<1>2. x.strm.strm = NoStrm /\ x.strm.te = x.body.te /\ x.strm.clen = x.body.clen
      /\ x.body.te \in BOOLEAN /\ x.body.clen \in Int
  BY <1>1, FitsIs DEF StrmFits
<1> QED BY <1>1, <1>2 DEF SentTo, LeftOf, WrittenAt

LEMMA PlainWritten ==
  ASSUME BodiesFit, NEW q \in Reqs, NEW x, Sendable(x), NEW v \in Readers, SentTo(q, x, v), ~x.strm.hdr,
         x.manual, ~x.eos, ~x.body.te, NEW n \in Nat, n # 0, x.wcnt + n <= x.body.clen,
         NEW y, y.strm = x.strm, y.body = x.body, y.manual = x.manual, y.wcnt = x.wcnt + n, Sendable(y),
         NEW d, d = ReadAll(v, Packet(q, <<Tok("data", n)>>))
  PROVE  SentTo(q, y, d) /\ d \in Readers
<1> DEFINE left == x.body.clen - x.wcnt
           m == left - n
<1>1. /\ x.strm.strm = NoStrm /\ ~x.strm.te /\ x.strm.clen = x.body.clen /\ x.body.clen \in Int
      /\ PlainAt(q, x, v) /\ LeftOf(x) = left
  BY WritesBody
<1>2. x.wcnt \in Int /\ left \in Nat /\ n \in 1 .. left /\ m \in Nat /\ (m = 0 <=> n = left)
      /\ x.body.clen - (x.wcnt + n) = m
  <2>1. x.wcnt \in Int
    BY DEF Sendable
  <2> QED BY <1>1, <2>1
<1>3. BodyAt(q, left, v)
  <2>1. left # 0
    BY <1>2
  <2> HIDE DEF left
  <2> QED BY <1>1, <2>1 DEF PlainAt
<1>4. d = Read(v, EntryOf(q, Tok("data", n))) /\ d \in Readers
  <2>1. Tok("data", n) \in AnyToks /\ << >> \in Seq(AnyToks)
    BY DEF Tok, AnyToks
  <2> QED BY <2>1, PacketRead
<1>5. IF n = left THEN WholeAt(q, d) ELSE BodyAt(q, m, d)
  BY <1>2, <1>3, <1>4, DataGets
<1>6. LeftOf(y) = m
  BY <1>1, <1>2 DEF LeftOf
<1>7. StrmFits(y)
  BY DEF StrmFits, SentTo
<1> HIDE DEF m, left
<1>8. PlainAt(q, y, d)
  BY <1>2, <1>5, <1>6 DEF PlainAt
<1> QED BY <1>1, <1>4, <1>7, <1>8 DEF SentTo

(* The chunks that waited in the buffer, and one more or the last.           *)
LEMMA ChunksRead ==
  ASSUME NEW q \in Reqs, NEW v \in Readers, BodyAt(q, ChunkedLen, v), NEW toks \in Seq(ChunkToks)
  PROVE  BodyAt(q, ChunkedLen, ReadAll(v, Packet(q, toks))) /\ ReadAll(v, Packet(q, toks)) \in Readers
<1> DEFINE S == {s \in Readers : BodyAt(q, ChunkedLen, s)}
           E == {EntryOf(q, t) : t \in ChunkToks}
<1>1. ASSUME NEW s \in S, NEW t \in ChunkToks
      PROVE  Read(s, EntryOf(q, t)) \in S
  <2>1. t = Tok("chunk", t.n) /\ t.n \in Int /\ t \in AnyToks
    BY DEF ChunkToks, Tok, AnyToks
  <2> DEFINE d == Read(s, EntryOf(q, t))
  <2>2. BodyAt(q, ChunkedLen, d)
    BY <2>1, ChunkGets
  <2>3. d \in Readers
    <3>1. << >> \in Seq(AnyToks)
      OBVIOUS
    <3> QED BY <2>1, <3>1, PacketRead
  <2> QED BY <2>2, <2>3
<1>2. Closed(S, E) /\ v \in S
  BY <1>1 DEF Closed
<1>3. Packet(q, toks) \in Seq(E)
  <2>1. DOMAIN toks = 1 .. Len(toks) /\ Len(toks) \in Nat /\ \A i \in 1 .. Len(toks) : toks[i] \in ChunkToks
    BY LenProperties, ElementOfSeq
  <2>2. Packet(q, toks) = [i \in 1 .. Len(toks) |-> EntryOf(q, toks[i])]
    BY <2>1 DEF Packet, EntryOf
  <2>3. \A i \in 1 .. Len(toks) : EntryOf(q, toks[i]) \in E
    BY <2>1
  <2> HIDE DEF E
  <2> QED BY <2>1, <2>2, <2>3
<1> HIDE DEF S, E
<1>4. ReadAll(v, Packet(q, toks)) \in S
  BY <1>2, <1>3, ReadAllStays
<1> QED BY <1>4 DEF S

LEMMA BufferedRead ==
  ASSUME NEW q \in Reqs, NEW v \in Readers, BodyAt(q, ChunkedLen, v), NEW buf \in Seq(ChunkToks),
         NEW n \in Nat, NEW t, t = (IF n = 0 THEN Tok("last", 0) ELSE Tok("chunk", n)),
         NEW d, d = ReadAll(v, Packet(q, Append(buf, t)))
  PROVE  /\ d \in Readers
         /\ IF n = 0 THEN WholeAt(q, d) ELSE BodyAt(q, ChunkedLen, d)
         /\ buf = << >> => d.got[q] = v.got[q] + n
<1> DEFINE e == ReadAll(v, Packet(q, buf))
<1>1. BodyAt(q, ChunkedLen, e) /\ e \in Readers
  BY ChunksRead
<1>2. buf \in Seq(AnyToks) /\ t \in AnyToks
  <2>1. ChunkToks \subseteq AnyToks
    BY DEF ChunkToks, AnyToks
  <2>2. t \in AnyToks
    BY DEF Tok, AnyToks
  <2> QED BY <2>1, <2>2
<1>3. d = Read(e, EntryOf(q, t))
  BY <1>2, MoreRead
<1>4. buf = << >> => e = v
  <2>1. ReadAll(v, Packet(q, << >>)) = v
    BY <1>2, PacketRead
  <2> QED BY <2>1
<1> HIDE DEF e
<1>5. d \in Readers
  <2>1. Append(buf, t) \in Seq(AnyToks)
    BY <1>2, AppendProperties
  <2> QED BY <2>1, PacketRead
<1>6. v.got[q] \in Int
  BY DEF Readers
<1>7. CASE n = 0
  <2>1. t = Tok("last", 0)
    BY <1>7
  <2>2. WholeAt(q, d) /\ d.got = e.got
    BY <1>1, <1>3, <2>1, LastGets
  <2> QED BY <1>4, <1>5, <1>6, <1>7, <2>2
<1>8. CASE n # 0
  <2>1. t = Tok("chunk", n)
    BY <1>8
  <2>2. BodyAt(q, ChunkedLen, d) /\ d.got[q] = e.got[q] + n
    BY <1>1, <1>3, <2>1, ChunkGets
  <2> QED BY <1>4, <1>5, <1>8, <2>2
<1> QED BY <1>7, <1>8

LEMMA ChunkWritten ==
  ASSUME BodiesFit, NEW q \in Reqs, NEW x, Sendable(x), NEW v \in Readers, SentTo(q, x, v), ~x.strm.hdr,
         x.manual, ~x.eos, x.body.te, NEW n \in Nat,
         NEW t, t = (IF n = 0 THEN Tok("last", 0) ELSE Tok("chunk", n)),
         NEW y, y.strm = x.strm, y.body = x.body, y.manual = x.manual, Sendable(y), y.eos = (n = 0),
         NEW d
  PROVE  /\ d = ReadAll(v, Packet(q, Append(x.buf, t))) /\ y.buf = << >>
              => SentTo(q, y, d) /\ d \in Readers /\ (x.buf = << >> => d.got[q] = v.got[q] + n)
         /\ d = v /\ y.buf = Append(x.buf, t) => SentTo(q, y, d)
<1>1. /\ x.strm.strm = NoStrm /\ x.strm.te = x.body.te /\ x.strm.clen = x.body.clen
      /\ BodyAt(q, ChunkedLen, v) /\ x.buf \in Seq(ChunkToks)
  BY WritesBody
<1>2. StrmFits(y)
  BY DEF StrmFits, SentTo
<1>3. y.strm.strm = NoStrm /\ y.strm.te /\ ~y.strm.hdr
  BY <1>1
<1>4. ASSUME d = ReadAll(v, Packet(q, Append(x.buf, t))), y.buf = << >>
      PROVE  SentTo(q, y, d) /\ d \in Readers /\ (x.buf = << >> => d.got[q] = v.got[q] + n)
  <2>1. /\ d \in Readers
        /\ IF n = 0 THEN WholeAt(q, d) ELSE BodyAt(q, ChunkedLen, d)
        /\ x.buf = << >> => d.got[q] = v.got[q] + n
    <3> DEFINE b == x.buf
    <3>1. b \in Seq(ChunkToks) /\ BodyAt(q, ChunkedLen, v) /\ d = ReadAll(v, Packet(q, Append(b, t)))
      BY <1>1, <1>4
    <3> HIDE DEF b
    <3>2. /\ d \in Readers
          /\ IF n = 0 THEN WholeAt(q, d) ELSE BodyAt(q, ChunkedLen, d)
          /\ b = << >> => d.got[q] = v.got[q] + n
      BY <3>1, BufferedRead
    <3> QED BY <3>2 DEF b
  <2>2. << >> \in Seq(ChunkToks)
    OBVIOUS
  <2>3. WrittenAt(q, y, d)
    BY <1>4, <2>1, <2>2 DEF WrittenAt
  <2> QED BY <1>2, <1>3, <2>1, <2>3 DEF SentTo
<1>5. ASSUME d = v, y.buf = Append(x.buf, t)
      PROVE  SentTo(q, y, d)
  <2>1. n # 0 => t \in ChunkToks
    BY DEF Tok, ChunkToks
  <2>2. n # 0 => Append(x.buf, t) \in Seq(ChunkToks)
    BY <1>1, <2>1, AppendProperties
  <2>3. y.buf # << >>
    <3> DEFINE T == ChunkToks \cup {t}
    <3>1. x.buf \in Seq(T) /\ t \in T
      BY <1>1
    <3>2. Append(x.buf, t) # << >>
      BY <3>1, AppendProperties
    <3> QED BY <1>5, <3>2
  <2>4. WrittenAt(q, y, d)
    BY <1>1, <1>5, <2>2, <2>3 DEF WrittenAt
  <2> QED BY <1>2, <1>3, <2>4 DEF SentTo
<1> QED BY <1>4, <1>5

-----------------------------------------------------------------------------
(* What of a request is not about sending changes nothing for the server.    *)
SendsLike(y, x) ==
  /\ DOMAIN y = DOMAIN x /\ y.strm = x.strm /\ y.body = x.body /\ y.manual = x.manual
  /\ y.wcnt = x.wcnt /\ y.buf = x.buf /\ y.eos = x.eos

LEMMA LikeIs ==
  ASSUME NEW x, NEW y, SendsLike(y, x)
  PROVE  /\ Sendable(x) => Sendable(y)
         /\ StrmFits(x) => StrmFits(y)
         /\ Untouched(x) => Untouched(y)
         /\ \A q, v : SentTo(q, x, v) => SentTo(q, y, v)
<1>1. /\ DOMAIN y = DOMAIN x /\ y.strm = x.strm /\ y.body = x.body /\ y.manual = x.manual
      /\ y.wcnt = x.wcnt /\ y.buf = x.buf /\ y.eos = x.eos
  BY DEF SendsLike
<1>2. Sendable(x) => Sendable(y)
  BY <1>1 DEF Sendable
<1>3. StrmFits(x) => StrmFits(y)
  BY <1>1 DEF StrmFits
<1>4. Untouched(x) => Untouched(y)
  BY <1>1, <1>3 DEF Untouched
<1>5. ASSUME NEW q, NEW v, SentTo(q, x, v) PROVE SentTo(q, y, v)
  <2>1. LeftOf(y) = LeftOf(x)
    BY <1>1 DEF LeftOf
  <2>2. PlainAt(q, x, v) => PlainAt(q, y, v)
    BY <2>1 DEF PlainAt
  <2>3. /\ StreamedAt(q, x, v) => StreamedAt(q, y, v)
        /\ WrittenAt(q, x, v) => WrittenAt(q, y, v)
    BY <1>1 DEF StreamedAt, WrittenAt
  <2> QED BY <1>1, <1>3, <1>4, <1>5, <2>2, <2>3 DEF SentTo
<1> QED BY <1>2, <1>3, <1>4, <1>5

LEMMA LikeFields ==
  ASSUME NEW x, DOMAIN x = Fields
  PROVE  /\ SendsLike(x, x)
         /\ \A status : SendsLike(Ended(x, status), x) /\ Ended(x, status).asked = x.asked
         /\ \A id : SendsLike(Completed(x, id), x) /\ Completed(x, id).asked = x.asked
         /\ \A d : SendsLike(Received(x, d), x) /\ Received(x, d).asked = x.asked
         /\ SendsLike([x EXCEPT !.pause = TRUE, !.asked = TRUE], x)
<1>1. SendsLike(x, x)
  BY DEF SendsLike
<1>2. ASSUME NEW y, DOMAIN y = Fields, NEW status
      PROVE  /\ SendsLike(Ended(y, status), y) /\ Ended(y, status).asked = y.asked
             /\ DOMAIN Ended(y, status) = Fields
  <2> DEFINE e == Append(y.ends, status)
  <2>1. Ended(y, status) = [y EXCEPT !.active = FALSE, !.ends = e]
    BY <1>2 DEF Ended, Fields
  <2> HIDE DEF e
  <2> QED BY <1>2, <2>1 DEF SendsLike, Fields
<1>3. ASSUME NEW id
      PROVE  SendsLike(Completed(x, id), x) /\ Completed(x, id).asked = x.asked
  <2> DEFINE y == [x EXCEPT !.msg = id]
  <2>1. SendsLike(y, x) /\ y.asked = x.asked /\ DOMAIN y = Fields
    BY DEF SendsLike, Fields
  <2>2. Completed(x, id) = Ended(y, 0)
    BY DEF Completed
  <2> HIDE DEF y
  <2>3. SendsLike(Ended(y, 0), y) /\ Ended(y, 0).asked = y.asked
    BY <1>2, <2>1
  <2> QED BY <2>1, <2>2, <2>3 DEF SendsLike
<1>4. ASSUME NEW d
      PROVE  SendsLike(Received(x, d), x) /\ Received(x, d).asked = x.asked
  <2> DEFINE n == x.data \o d
             y == [x EXCEPT !.data = n]
  <2>1. Received(x, d) \in {x, y}
    BY DEF Received
  <2> HIDE DEF n
  <2>2. SendsLike(y, x) /\ y.asked = x.asked
    BY DEF SendsLike, Fields
  <2> HIDE DEF y
  <2> QED BY <1>1, <2>1, <2>2
<1>5. SendsLike([x EXCEPT !.pause = TRUE, !.asked = TRUE], x)
  BY DEF SendsLike, Fields
<1> QED BY <1>1, <1>2, <1>3, <1>4, <1>5

LEMMA CursorIs ==
  ASSUME Bodied, Queue
  PROVE  /\ Cursor \in 0 .. nreq /\ nreq \in Nat /\ (Cursor # 0 => Cursor \in Reqs)
         /\ mSendQueList = << >> => Cursor = nreq
         /\ mSendQueList # << >> => Cursor = nreq - 1 /\ Cursor \in Reqs /\ nreq \in Reqs
<1>1. nreq \in 0 .. NReq /\ NReq \in Nat
  BY NReqAssumption DEF Bodied
<1>2. mSendQueList = << >> => Cursor = nreq
  <2>1. Len(<< >>) = 0
    OBVIOUS
  <2> QED BY <1>1, <2>1 DEF Cursor
<1>3. mSendQueList # << >> => nreq >= 2 /\ Cursor = nreq - 1
  <2>1. \A e : Len(<<e>>) = 1
    OBVIOUS
  <2> QED BY <2>1 DEF Cursor, Queue
<1> QED BY <1>1, <1>2, <1>3 DEF Reqs

(* Steps that send nothing and make no request.                              *)
Still ==
  /\ UNCHANGED <<nreq, mSendQueList, srv, held>> /\ DOMAIN req' = Reqs
  /\ \A r \in Reqs : SendsLike(req'[r], req[r])

LEMMA StillIs ==
  ASSUME SendInv, Still
  PROVE  /\ Bodied' /\ InTurn' /\ View' = View /\ Cursor' = Cursor
         /\ Queue => (Reaches => Reaches') /\ (Behind => Behind')
                     /\ (Cursor # 0 => req'[Cursor].strm = req[Cursor].strm)
<1>1. /\ nreq' = nreq /\ mSendQueList' = mSendQueList /\ srv' = srv /\ held' = held
      /\ DOMAIN req' = Reqs
      /\ \A r \in Reqs : SendsLike(req'[r], req[r])
  BY DEF Still
<1>2. View' = View /\ Cursor' = Cursor
  BY <1>1 DEF View, Cursor
<1>3. Bodied /\ InTurn
  BY DEF SendInv
<1>4. \A r \in Reqs : Sendable(req'[r])
  BY <1>1, <1>3, LikeIs DEF Bodied
<1>5. Bodied' /\ InTurn'
  BY <1>1, <1>2, <1>3, <1>4 DEF Bodied, InTurn
<1>6. ASSUME Queue
      PROVE  (Reaches => Reaches') /\ (Behind => Behind') /\ (Cursor # 0 => req'[Cursor].strm = req[Cursor].strm)
  <2>1. /\ Cursor \in 0 .. nreq /\ nreq \in Nat /\ (Cursor # 0 => Cursor \in Reqs)
        /\ mSendQueList # << >> => nreq \in Reqs
    BY <1>3, <1>6, CursorIs
  <2>2. Reaches => Reaches'
    BY <1>1, <1>2, <2>1, LikeIs DEF Reaches
  <2>3. nreq <= NReq /\ NReq \in Nat
    BY <1>3, NReqAssumption DEF Bodied
  <2>4. \A r \in 1 .. Cursor - 1 : r \in Reqs
    BY <2>1, <2>3 DEF Reqs
  <2>5. \A r \in Reqs : req'[r].strm = req[r].strm
    BY <1>1 DEF SendsLike
  <2>6. \A r \in Reqs : (StrmFits(req[r]) => StrmFits(req'[r])) /\ (Untouched(req[r]) => Untouched(req'[r]))
    BY <1>1, LikeIs
  <2>7. Behind => Behind'
    BY <1>1, <1>2, <2>1, <2>4, <2>5, <2>6 DEF Behind
  <2> QED BY <2>1, <2>2, <2>5, <2>7
<1> QED BY <1>2, <1>5, <1>6

LEMMA StillKeeps ==
  ASSUME SendInv, Still, Control', Connecting', Asked', ~Lost' => ~Lost /\ Queue' /\ Rests'
  PROVE  SendInv'
<1>1. Bodied' /\ InTurn'
  BY StillIs
<1>2. ~Pipelined => mSendQueList' = << >>
  BY DEF SendInv, Still
<1>3. ~Lost' => Queue' /\ Reaches' /\ Behind' /\ Rests'
  BY StillIs DEF SendInv
<1> QED BY <1>1, <1>2, <1>3 DEF SendInv

LEMMA RestIsStill ==
  ASSUME SendInv, UNCHANGED <<nreq, req, mSendQueList, srv, held>>
  PROVE  Still /\ (pc' # "under" \/ (pc' = pc /\ tx' = tx) => Asked')
<1>1. \A r \in Reqs : DOMAIN req[r] = Fields
  BY DEF SendInv, Bodied, Sendable
<1>2. Still
  BY <1>1, LikeFields DEF Still, SendInv, Bodied
<1>3. Asked
  BY DEF SendInv
<1> QED BY <1>2, <1>3 DEF Asked

LEMMA AskedStill ==
  ASSUME SendInv, Still, \A r \in Reqs : req'[r].asked = req[r].asked, pc' # "under" \/ (pc' = pc /\ tx' = tx)
  PROVE  Asked'
<1>1. Asked /\ tx \in 0 .. nreq /\ nreq \in 0 .. NReq /\ nreq' = nreq
  BY DEF SendInv, Control, Bodied, Still
<1>2. \A r \in Reqs : req'[r].strm = req[r].strm
  BY DEF Still, SendsLike
<1>3. tx # None => tx \in Reqs
  BY <1>1, NReqAssumption DEF Reqs, None
<1> QED BY <1>1, <1>2, <1>3 DEF Asked

(* Without a pipeline, and with no request that waits: all was read.         *)
LEMMA AllRead ==
  ASSUME SendInv, CnnInv, mCur = None
  PROVE  WholeAt(nreq, View)
<1>1. One /\ Sending /\ Receiving /\ nreq \in 0 .. NReq
  BY DEF CnnInv, One
<1>2. PICK m, n, off, c, k : Receives(m, n, off, c, k)
  BY <1>1 DEF Receiving
<1>3. NoneWaits(m, n, c, k)
  BY <1>2 DEF Receives, Awaits, Arrives, Fetched
<1>4. srv \in Full(nreq)
  BY <1>2, <1>3 DEF Receives, NoneWaits
<1>5. held \in Seq(BodyPart(nreq))
  BY <1>1, <1>4, FreshNotFull DEF Sending, Carried
<1>6. View \in Full(nreq)
  BY <1>1, <1>4, <1>5, PartsArrive DEF View
<1>7. View.ok
  BY DEF SendInv, InTurn
<1> QED BY <1>6, <1>7 DEF Full, WholeAt

LEMMA DoneIsNone ==
  ASSUME BodiesFit, SendInv, Queue, Reaches, WholeAt(Cursor, View), Cursor # 0
  PROVE  Avail(req[Cursor].strm) # "some"
<1>1. Cursor \in Reqs
  BY CursorIs DEF SendInv
<1>2. Sendable(req[Cursor]) /\ SentTo(Cursor, req[Cursor], View)
  BY <1>1 DEF SendInv, Bodied, Reaches
<1> QED BY <1>1, <1>2, LeftAndWhole

-----------------------------------------------------------------------------
(* Steps that send nothing.                                                  *)
LEMMA ConnectedSends ==
  ASSUME SendInv, Connected
  PROVE  SendInv'
<1>1. /\ pc = "idle" /\ sock = "connecting" /\ sock' = "writable" /\ mIsConnected' = TRUE
      /\ tx' = mCur /\ ret' = pc /\ pc' = "tx"
      /\ UNCHANGED <<nreq, req, mCur, mPipeList, mSendQueList, held, srv>>
  BY Zenon DEF Connected, StartTx, reqVars, pipeVars
<1>2. Control /\ Connecting /\ ~Lost /\ Queue /\ mCur = Cursor
  BY <1>1 DEF SendInv, Lost, Connecting
<1>3. Still /\ Asked'
  BY <1>1, RestIsStill
<1>4. Control'
  BY <1>1, <1>2 DEF Control, Socks
<1>5. Connecting'
  BY <1>1, <1>2 DEF Connecting
<1>6. Cursor' = Cursor
  BY <1>1 DEF Cursor
<1>7. Queue'
  BY <1>1, <1>2, <1>6 DEF Queue
<1>8. Rests'
  BY <1>1, <1>2, <1>6 DEF Rests
<1> QED BY <1>2, <1>3, <1>4, <1>5, <1>7, <1>8, StillKeeps

LEMMA PendsInTurn ==
  ASSUME SendInv, Turns, sock \in {"pending", "drained"}
  PROVE  mSendQueList = << >> /\ ~Pipelined
BY DEF SendInv, Connecting, Turns

LEMMA LoopLeft ==
  ASSUME SendInv, Turns, TxBlocked \/ TxDone \/ UnderReturns
  PROVE  SendInv'
<1>1. /\ pc \in {"tx", "under"}
      /\ UNCHANGED <<nreq, req, mIsConnected, mCur, mPipeList, mSendQueList, sock, held, srv, ret>>
  BY Zenon DEF TxBlocked, TxDone, UnderReturns, reqVars, pipeVars, sockVars
<1>0. ret \in {"idle", "end"}
  BY DEF SendInv, Control
<1>2. /\ pc' \in {"tx", ret} /\ tx' \in {tx, None} /\ (pc' = ret => tx' = None)
      /\ pc = "tx" => (\/ pc' = "tx" /\ tx' = None /\ Avail(req[tx].strm) = "none"
                       \/ pc' = ret /\ sock \notin {"writable", "broken"})
  <2>1. CASE TxBlocked
    BY <1>0, <2>1 DEF TxBlocked, LeaveTx, IsWritable
  <2>2. CASE TxDone
    BY <1>0, <2>2 DEF TxDone
  <2>3. CASE UnderReturns
    BY <1>0, <2>3 DEF UnderReturns, LeaveTx
  <2> QED BY <2>1, <2>2, <2>3
<1>3. /\ Control /\ Connecting /\ mIsConnected /\ ret \in {"idle", "end"} /\ tx \in 0 .. nreq /\ nreq \in Nat
      /\ sock \in Socks
  BY <1>1 DEF SendInv, Control, Connecting, Bodied
<1>4. Still /\ Asked'
  BY <1>1, <1>2, <1>3, RestIsStill
<1>5. Control'
  BY <1>1, <1>2, <1>3 DEF Control, None
<1>6. Connecting'
  BY <1>1, <1>3 DEF Connecting
<1>7. Cursor' = Cursor /\ Lost' = Lost
  BY <1>1 DEF Cursor, Lost
<1>8. ASSUME ~Lost PROVE Queue' /\ Rests'
  <2>1. Queue /\ Rests
    BY <1>8 DEF SendInv
  <2>2. Cursor \in Nat
    BY <1>3, <2>1, CursorIs DEF SendInv
  <2>3. mSendQueList = << >> \/ pc' = "tx"
    <3>1. CASE pc = "under"
      BY <1>1, <1>3, <2>1, <3>1 DEF Queue
    <3>2. CASE pc = "tx" /\ pc' = ret
      <4>1. sock \notin {"writable", "broken", "new", "connecting", "closed", "shut"}
        BY <1>2, <1>3, <1>8, <3>2 DEF Lost, Connecting
      <4>2. sock \in {"pending", "drained"}
        BY <1>3, <4>1 DEF Socks
      <4> QED BY <4>2, PendsInTurn
    <3> QED BY <1>1, <1>2, <3>1, <3>2
  <2>4. Queue'
    BY <1>1, <1>2, <1>7, <2>1, <2>2, <2>3 DEF Queue, None
  <2>5. Rests'
    <3> SUFFICES ASSUME sock = "writable", Cursor # 0, ~(pc' = "tx" /\ tx' = Cursor)
                 PROVE  Avail(req[Cursor].strm) # "some"
      BY <1>1, <1>7 DEF Rests
    <3>1. CASE pc = "under"
      BY <2>1, <3>1 DEF Rests
    <3>2. CASE pc = "tx"
      BY <1>2, <2>1, <3>2 DEF Rests
    <3> QED BY <1>1, <3>1, <3>2
  <2> QED BY <2>4, <2>5
<1> QED BY <1>4, <1>5, <1>6, <1>7, <1>8, StillKeeps

LEMMA ReadLoopSends ==
  ASSUME SendInv, NEW to, RecvPacket(to) \/ LoopNone \/ EndReturns
  PROVE  SendInv'
<1>1. /\ pc \in {"idle", "read", "end"} /\ pc' \in {"idle", "read"}
      /\ UNCHANGED <<nreq, req, mIsConnected, mSendQueList, sock, held, srv, tx, ret>>
  BY Zenon DEF RecvPacket, LoopNone, EndReturns, reqVars, pipeVars, sockVars, txVars
<1>2. mIsConnected
  <2>1. pc # "idle" => mIsConnected
    BY DEF SendInv, Connecting
  <2>2. RecvPacket(to) => sock \notin {"new", "connecting", "closed", "shut"}
    BY DEF RecvPacket
  <2>3. RecvPacket(to) => mIsConnected
    BY <2>2 DEF SendInv, Connecting
  <2> QED BY <2>1, <2>3 DEF LoopNone, EndReturns
<1>3. /\ mPipeList' \in Seq(Nat) /\ \A i \in 1 .. Len(mPipeList') : mPipeList'[i] <= nreq
      /\ mCur' \in 0 .. nreq
  <2>1. /\ mPipeList \in Seq(Nat) /\ \A i \in 1 .. Len(mPipeList) : mPipeList[i] <= nreq
        /\ mCur \in 0 .. nreq /\ nreq \in Nat
    BY DEF SendInv, Control, Bodied
  <2>2. CASE UNCHANGED <<mCur, mPipeList>>
    BY <2>1, <2>2
  <2>3. CASE mPipeList = << >> /\ mCur' = None /\ UNCHANGED mPipeList
    BY <2>1, <2>3 DEF None
  <2>4. CASE mPipeList # << >> /\ mCur' = Head(mPipeList) /\ mPipeList' = Tail(mPipeList)
    <3>1. /\ Tail(mPipeList) \in Seq(Nat) /\ Len(Tail(mPipeList)) = Len(mPipeList) - 1 /\ Len(mPipeList) \in Nat \ {0}
          /\ Head(mPipeList) = mPipeList[1] /\ mPipeList[1] \in Nat
          /\ \A i \in 1 .. Len(mPipeList) - 1 : Tail(mPipeList)[i] = mPipeList[i + 1]
      BY <2>1, <2>4
    <3> QED BY <2>1, <2>4, <3>1
  <2> QED BY <2>2, <2>3, <2>4 DEF RecvPacket, LoopNone, EndReturns, pipeVars
<1>4. Still /\ Asked'
  BY <1>1, RestIsStill
<1>5. Control /\ Connecting
  BY DEF SendInv
<1>6. tx = None /\ tx' = None
  BY <1>1, <1>5 DEF Control
<1>7. Control'
  BY <1>1, <1>3, <1>5, <1>6 DEF Control
<1>8. Connecting'
  BY <1>1, <1>2, <1>5 DEF Connecting
<1>9. Cursor' = Cursor /\ Lost' = Lost
  BY <1>1 DEF Cursor, Lost
<1>10. ASSUME ~Lost PROVE Queue' /\ Rests'
  <2>1. Queue /\ Rests
    BY <1>10 DEF SendInv
  <2>2. mSendQueList = << >>
    BY <1>1, <1>2, <2>1 DEF Queue
  <2>3. Cursor = nreq /\ nreq \in Nat
    BY <2>1, <2>2, CursorIs DEF SendInv
  <2>4. Queue'
    BY <1>1, <1>3, <1>6, <1>9, <2>1, <2>2, <2>3 DEF Queue, None
  <2>5. Rests'
    BY <1>1, <1>6, <1>9, <2>1 DEF Rests
  <2> QED BY <2>4, <2>5
<1> QED BY <1>4, <1>7, <1>8, <1>9, <1>10, StillKeeps

LEMMA WritableSends ==
  ASSUME BodiesFit, Turns, SendInv, ~Pipelined => CnnInv, Writable
  PROVE  SendInv'
<1>1. /\ pc = "idle" /\ sock = "drained" /\ sock' = "writable"
      /\ tx' = mCur /\ ret' = pc /\ pc' = "tx"
      /\ UNCHANGED <<nreq, req, mIsConnected, mCur, mPipeList, mSendQueList, held, srv>>
  BY Zenon DEF Writable, StartTx, reqVars, pipeVars
<1>2. Control /\ Connecting /\ ~Lost /\ Queue /\ Reaches /\ mIsConnected
  BY <1>1 DEF SendInv, Lost, Connecting, Control
<1>3. mSendQueList = << >> /\ CnnInv
  BY <1>1, PendsInTurn
<1>4. Still /\ Asked'
  BY <1>1, RestIsStill
<1>5. Control' /\ Connecting'
  BY <1>1, <1>2 DEF Control, Connecting, Socks
<1>6. Cursor' = Cursor /\ Cursor = nreq
  BY <1>1, <1>2, <1>3, CursorIs DEF Cursor, SendInv
<1>7. Queue'
  BY <1>1, <1>2, <1>3, <1>6 DEF Queue
<1>8. Rests'
  <2>1. CASE mCur = nreq
    BY <1>1, <1>6, <2>1 DEF Rests
  <2>2. CASE mCur = None
    <3>1. WholeAt(Cursor, View)
      BY <1>3, <1>6, <2>2, AllRead
    <3>2. Cursor # 0 => Avail(req[Cursor].strm) # "some"
      BY <1>2, <3>1, DoneIsNone
    <3> QED BY <1>1, <1>6, <3>2 DEF Rests
  <2> QED BY <1>3, <2>1, <2>2 DEF CnnInv, One
<1> QED BY <1>2, <1>4, <1>5, <1>7, <1>8, StillKeeps

LEMMA PassesBy ==
  ASSUME SendInv, NEW x, Close \/ PeerDown \/ Answer(x) \/ UNCHANGED vars
  PROVE  SendInv'
<1>1. /\ UNCHANGED <<nreq, req, mIsConnected, mCur, mPipeList, mSendQueList, held, srv, tx, pc, ret>>
      /\ UNCHANGED sock \/ (sock' = "shut" /\ sock # "new")
  <2>1. CASE Close
    BY Zenon, <2>1 DEF Close, reqVars, pipeVars, txVars
  <2>2. CASE PeerDown
    BY Zenon, <2>2 DEF PeerDown, reqVars, pipeVars, sockVars, txVars
  <2>3. CASE Answer(x)
    BY Zenon, <2>3 DEF Answer, reqVars, pipeVars, sockVars, txVars
  <2>4. CASE UNCHANGED vars
    BY Zenon, <2>4 DEF vars
  <2> QED BY <2>1, <2>2, <2>3, <2>4
<1>2. Control /\ Connecting
  BY DEF SendInv
<1>3. Still /\ Asked'
  BY <1>1, RestIsStill
<1>4. Control'
  BY <1>1, <1>2 DEF Control, Socks
<1>5. Cursor' = Cursor
  BY <1>1 DEF Cursor
<1>6. Connecting'
  BY <1>1, <1>2, <1>5 DEF Connecting
<1>7. ASSUME ~Lost' PROVE ~Lost /\ Queue' /\ Rests'
  <2>1. UNCHANGED sock
    BY <1>1, <1>7 DEF Lost
  <2>2. ~Lost /\ Queue /\ Rests
    BY <1>1, <1>7, <2>1 DEF SendInv, Lost
  <2> QED BY <1>1, <1>5, <2>1, <2>2 DEF Queue, Rests
<1> QED BY <1>3, <1>4, <1>6, <1>7, StillKeeps

(* In a pipeline the loop stops only behind a request that was sent whole.   *)
LEMMA StopsWhole ==
  ASSUME BodiesFit, Turns, Pipelined, SendInv, ~Lost, mIsConnected, pc # "crashed", ~(pc = "tx" /\ tx = Cursor)
  PROVE  WholeAt(Cursor, View)
<1>1. ~SockPends /\ NoneWritten
  BY DEF Turns
<1>2. Bodied /\ Control /\ Connecting /\ Queue /\ Reaches /\ Rests
  BY DEF SendInv
<1>3. sock = "writable"
  BY <1>1, <1>2 DEF Lost, Control, Connecting, Socks
<1>4. CASE Cursor = 0
  BY <1>2, <1>4 DEF Reaches
<1>5. CASE Cursor # 0
  <2> DEFINE x == req[Cursor]
  <2>1. Cursor \in Reqs
    BY <1>2, <1>5, CursorIs
  <2>2. Sendable(x) /\ SentTo(Cursor, x, View) /\ Avail(x.strm) # "some"
    BY <1>2, <1>3, <1>5, <2>1 DEF Bodied, Reaches, Rests
  <2>3. StrmFits(x)
    BY <2>2 DEF SentTo
  <2> HIDE DEF x
  <2>4. Avail(x.strm) # "lack"
    BY <1>1, <2>2, <2>3, NoneToDo
  <2>5. x.strm.hdr \in BOOLEAN /\ x.strm.te \in BOOLEAN
    BY <2>2, <2>3, FitsIs
  <2>6. Avail(x.strm) \in {"some", "none", "lack"}
    BY <2>5 DEF Avail
  <2> QED BY <2>1, <2>2, <2>4, <2>6, LeftAndWhole
<1> QED BY <1>4, <1>5

LEMMA TakeSends ==
  ASSUME BodiesFit, Turns, SendInv, TxTake
  PROVE  SendInv'
<1>1. /\ pc = "tx" /\ tx = None
      /\ UNCHANGED <<nreq, req, mIsConnected, mCur, mPipeList, sock, held, srv, ret>>
  BY Zenon DEF TxTake, reqVars, sockVars
<1>2. /\ Bodied /\ Control /\ Connecting /\ mIsConnected /\ ret \in {"idle", "end"} /\ nreq \in Nat
      /\ Asked /\ InTurn
  BY <1>1 DEF SendInv, Control, Connecting, Bodied
<1>3. Lost' = Lost /\ View' = View
  BY <1>1 DEF Lost, View
<1>4. Connecting'
  BY <1>1, <1>2 DEF Connecting
<1>5. CASE mSendQueList = << >>
  <2>1. pc' = ret /\ tx' = None /\ UNCHANGED mSendQueList
    BY <1>5 DEF TxTake, LeaveTx
  <2>2. Still /\ Asked'
    BY <1>1, <1>2, <2>1, RestIsStill
  <2>3. Control'
    BY <1>1, <1>2, <2>1 DEF Control
  <2>4. Cursor' = Cursor
    BY <1>1, <2>1 DEF Cursor
  <2>5. ~Lost => Queue' /\ Rests'
    BY <1>1, <1>2, <1>5, <2>1, <2>4 DEF SendInv, Queue, Rests, None
  <2> QED BY <1>3, <1>4, <2>2, <2>3, <2>5, StillKeeps
<1>6. CASE mSendQueList # << >>
  <2>1. Pipelined
    BY <1>6 DEF SendInv
  <2>2. tx' = Last(mSendQueList) /\ mSendQueList' = Tail(mSendQueList) /\ pc' \in {"tx", "crashed"}
    BY <1>6 DEF TxTake
  <2> DEFINE n == Len(mSendQueList)
  <2>3. mSendQueList \in Seq(Nat) /\ \A i \in 1 .. n : mSendQueList[i] <= nreq
    BY <1>2 DEF Bodied
  <2>4. n \in Nat \ {0} /\ tx' = mSendQueList[n] /\ tx' \in 0 .. nreq
    <3>1. n \in Nat \ {0} /\ mSendQueList[n] \in Nat
      BY <1>6, <2>3
    <3> QED BY <1>2, <2>2, <2>3, <3>1 DEF Last
  <2>5. mSendQueList' \in Seq(Nat) /\ \A i \in 1 .. Len(mSendQueList') : mSendQueList'[i] <= nreq
    <3> DEFINE t == Tail(mSendQueList)
    <3>1. t \in Seq(Nat) /\ Len(t) = n - 1 /\ \A i \in 1 .. n - 1 : t[i] = mSendQueList[i + 1]
      BY <1>6, <2>3
    <3> HIDE DEF t, n
    <3>2. \A i \in 1 .. n - 1 : i + 1 \in 1 .. n
      BY <2>4
    <3> QED BY <2>2, <2>3, <3>1, <3>2 DEF t
  <2> HIDE DEF n
  <2>6. Bodied'
    BY <1>1, <1>2, <1>3, <2>5 DEF Bodied
  <2>7. Control'
    BY <1>1, <1>2, <2>2, <2>4 DEF Control
  <2>8. Asked' /\ InTurn'
    BY <1>1, <1>2, <1>3, <2>2 DEF Asked, InTurn
  <2>9. ASSUME ~Lost PROVE Queue' /\ Reaches' /\ Behind' /\ Rests'
    <3>1. Queue /\ Reaches /\ Behind /\ mSendQueList = <<nreq>>
      BY <1>6, <2>9 DEF SendInv, Queue
    <3>2. Cursor = nreq - 1 /\ Cursor \in Reqs /\ nreq \in Reqs /\ tx # Cursor
      BY <1>1, <1>2, <1>6, <3>1, CursorIs DEF Reqs, None
    <3>3. WholeAt(nreq - 1, View)
      BY <1>1, <1>2, <2>1, <2>9, <3>2, StopsWhole
    <3>4. tx' = nreq /\ mSendQueList' = << >>
      <4>1. Len(<<nreq>>) = 1 /\ <<nreq>>[1] = nreq /\ Tail(<<nreq>>) = << >>
        BY <1>2
      <4> QED BY <2>2, <2>4, <3>1, <4>1 DEF n
    <3>5. Cursor' = nreq
      <4>1. Len(<< >>) = 0
        OBVIOUS
      <4> QED BY <1>1, <1>2, <3>4, <4>1 DEF Cursor
    <3>6. Untouched(req[nreq])
      BY <1>6, <3>1 DEF Behind
    <3>7. SentTo(nreq, req[nreq], View)
      BY <3>3, <3>6 DEF SentTo, Untouched
    <3>8. Reaches'
      BY <1>1, <1>3, <3>2, <3>5, <3>7 DEF Reaches, Reqs
    <3>9. StrmFits(req[Cursor]) /\ Avail(req[Cursor].strm) # "some"
      <4>1. SentTo(Cursor, req[Cursor], View)
        BY <3>1, <3>2 DEF Reaches, Reqs
      <4>2. Avail(req[Cursor].strm) # "some"
        BY <1>2, <3>1, <3>2, <3>3, <4>1, LeftAndWhole DEF Bodied
      <4> QED BY <4>1, <4>2 DEF SentTo
    <3>10. Behind'
      <4>1. \A r \in 1 .. nreq - 1 : r = Cursor \/ r \in 1 .. Cursor - 1
        BY <1>2, <3>2
      <4> QED BY <1>1, <3>1, <3>4, <3>5, <3>9, <4>1 DEF Behind
    <3>11. Queue'
      BY <1>1, <1>2, <3>1, <3>2, <3>4, <3>5 DEF Queue, Control
    <3>12. Rests'
      BY <1>2, <2>2, <3>4, <3>5 DEF Rests
    <3> QED BY <3>8, <3>10, <3>11, <3>12
  <2> QED BY <1>3, <1>4, <2>1, <2>6, <2>7, <2>8, <2>9 DEF SendInv
<1> QED BY <1>5, <1>6

(* Steps that change what a request knows, and send nothing.                 *)
LEMMA LackSends ==
  ASSUME BodiesFit, Turns, SendInv, TxLack
  PROVE  SendInv' /\ Still /\ (~Lost' => ~Lost)
<1>1. /\ pc = "tx" /\ tx # None /\ pc' = "under" /\ Avail(req[tx].strm) = "lack"
      /\ req' = [req EXCEPT ![tx].pause = TRUE, ![tx].asked = TRUE]
      /\ UNCHANGED <<nreq, mIsConnected, mCur, mPipeList, mSendQueList, sock, held, srv, tx, ret>>
  BY DEF TxLack, pipeVars, sockVars, txVars
<1>2. Bodied /\ Control /\ Connecting /\ mIsConnected /\ Asked
  BY <1>1 DEF SendInv, Connecting
<1>3. tx \in Reqs /\ tx <= nreq /\ nreq \in Nat
  BY <1>1, <1>2, NReqAssumption DEF Control, Bodied, Reqs, None
<1> DEFINE y == [req[tx] EXCEPT !.pause = TRUE, !.asked = TRUE]
<1>4. DOMAIN req = Reqs /\ \A r \in Reqs : DOMAIN req[r] = Fields
  BY <1>2 DEF Bodied, Sendable
<1>5. req' = [req EXCEPT ![tx] = y]
  BY <1>1, <1>3, <1>4
<1>6. SendsLike(y, req[tx]) /\ y.asked = TRUE
  <2>1. y.asked = TRUE
    BY <1>3, <1>4 DEF Fields
  <2> QED BY <1>3, <1>4, <2>1, LikeFields
<1> HIDE DEF y
<1>7. DOMAIN req' = Reqs /\ req'[tx] = y /\ \A r \in Reqs : r # tx => req'[r] = req[r]
  BY <1>3, <1>4, <1>5
<1>8. Still
  BY <1>1, <1>4, <1>6, <1>7, LikeFields DEF Still
<1>9. Asked'
  <2>1. ~req[tx].strm.hdr /\ y.strm = req[tx].strm
    BY <1>1, <1>6 DEF Avail, SendsLike
  <2> QED BY <1>1, <1>2, <1>3, <1>6, <1>7, <2>1 DEF Asked
<1>10. Control' /\ Connecting'
  BY <1>1, <1>2 DEF Control, Connecting
<1>11. Cursor' = Cursor /\ Lost' = Lost
  BY <1>1 DEF Cursor, Lost
<1>12. ASSUME ~Lost PROVE Queue' /\ Rests'
  <2>1. Queue /\ Reaches /\ Behind /\ Rests
    BY <1>12 DEF SendInv
  <2>2. /\ Cursor \in Nat
        /\ mSendQueList = << >> => Cursor = nreq
        /\ (Cursor # 0 => Cursor \in Reqs)
    BY <1>2, <2>1, CursorIs
  <2>3. StrmFits(req[tx])
    <3>1. tx <= Cursor /\ tx # 0
      BY <1>1, <2>1 DEF Queue, None
    <3>2. CASE tx = Cursor
      BY <2>1, <3>1, <3>2 DEF Reaches, SentTo
    <3>3. CASE tx # Cursor
      <4>1. tx \in 1 .. Cursor - 1
        BY <1>3, <2>2, <3>1, <3>3 DEF Reqs
      <4> QED BY <2>1, <4>1 DEF Behind
    <3> QED BY <3>2, <3>3
  <2>4. mSendQueList = << >>
    <3>1. Sendable(req[tx])
      BY <1>2, <1>3 DEF Bodied
    <3>2. ~NoneWritten
      BY <1>1, <2>3, <3>1, NoneToDo
    <3>3. ~Pipelined
      BY <3>2 DEF Turns
    <3> QED BY <3>3 DEF SendInv
  <2>5. Queue'
    BY <1>1, <1>11, <2>1, <2>4 DEF Queue
  <2>6. Cursor # 0 => req'[Cursor].strm = req[Cursor].strm
    BY <1>8, <2>2 DEF Still, SendsLike
  <2>7. Rests'
    BY <1>1, <1>11, <2>1, <2>6 DEF Rests
  <2> QED BY <2>5, <2>7
<1> QED BY <1>8, <1>9, <1>10, <1>11, <1>12, StillKeeps

LEMMA LoopSends ==
  ASSUME SendInv, LoopHdr \/ LoopData
  PROVE  SendInv' /\ Still /\ (~Lost' => ~Lost)
<1>1. /\ pc = "read" /\ pc' \in {"idle", "read", "end", "crashed"}
      /\ UNCHANGED <<nreq, mIsConnected, mCur, mPipeList, mSendQueList, sock, held, srv, tx, ret>>
  BY DEF LoopHdr, LoopData, pipeVars, sockVars, txVars
<1>2. Bodied /\ Control /\ Connecting /\ mIsConnected /\ Asked /\ tx = None
  BY <1>1 DEF SendInv, Connecting, Control
<1>3. mCur # None => mCur \in Reqs
  BY <1>2, NReqAssumption DEF Control, Bodied, Reqs, None
<1>4. DOMAIN req = Reqs /\ \A r \in Reqs : DOMAIN req[r] = Fields
  BY <1>2 DEF Bodied, Sendable
<1>5. UNCHANGED req \/ (mCur # None /\ \E y : req' = [req EXCEPT ![mCur] = y] /\ SendsLike(y, req[mCur])
                                                       /\ y.asked = req[mCur].asked)
  <2>1. CASE mCur = None
    BY <2>1 DEF LoopHdr, LoopData
  <2>2. CASE mCur # None
    <3> DEFINE x == req[mCur]
    <3>1. DOMAIN x = Fields /\ mCur \in Reqs
      BY <1>3, <1>4, <2>2
    <3>2. /\ \A id : SendsLike(Completed(x, id), x) /\ Completed(x, id).asked = x.asked
          /\ \A d : SendsLike(Received(x, d), x) /\ Received(x, d).asked = x.asked
      BY <3>1, LikeFields
    <3>3. \A d, id : /\ SendsLike(Completed(Received(x, d), id), x)
                     /\ Completed(Received(x, d), id).asked = x.asked
      <4> SUFFICES ASSUME NEW d, NEW id
                   PROVE  /\ SendsLike(Completed(Received(x, d), id), x)
                          /\ Completed(Received(x, d), id).asked = x.asked
        OBVIOUS
      <4> DEFINE y == Received(x, d)
      <4>1. SendsLike(y, x) /\ y.asked = x.asked
        BY <3>2
      <4>2. DOMAIN y = Fields
        BY <3>1, <4>1 DEF SendsLike
      <4> HIDE DEF y
      <4>3. SendsLike(Completed(y, id), y) /\ Completed(y, id).asked = y.asked
        BY <4>2, LikeFields
      <4>4. SendsLike(Completed(y, id), x)
        BY <4>1, <4>3 DEF SendsLike
      <4> QED BY <4>1, <4>3, <4>4 DEF y
    <3>4. CASE LoopHdr
      <4>1. UNCHANGED req \/ \E id : req' = [req EXCEPT ![mCur] = Completed(@, id)]
        BY <2>2, <3>4 DEF LoopHdr
      <4>2. UNCHANGED req \/ \E id : req' = [req EXCEPT ![mCur] = Completed(x, id)]
        BY <1>4, <3>1, <4>1
      <4> HIDE DEF x
      <4>3. QED BY <2>2, <3>2, <4>2 DEF x
    <3>5. CASE LoopData
      <4>1. \E d, id : \/ req' = [req EXCEPT ![mCur] = Received(x, d)]
                       \/ req' = [req EXCEPT ![mCur] = Completed(Received(x, d), id)]
        BY <1>4, <2>2, <3>1, <3>5 DEF LoopData
      <4> HIDE DEF x
      <4> QED BY <2>2, <3>2, <3>3, <4>1 DEF x
    <3> QED BY <3>4, <3>5
  <2> QED BY <2>1, <2>2
<1>6. DOMAIN req' = Reqs /\ \A r \in Reqs : SendsLike(req'[r], req[r]) /\ req'[r].asked = req[r].asked
  <2>1. \A r \in Reqs : SendsLike(req[r], req[r])
    BY <1>4, LikeFields
  <2> QED BY <1>3, <1>4, <1>5, <2>1
<1>7. Still
  BY <1>1, <1>6 DEF Still
<1>8. Asked'
  BY <1>1, <1>6, <1>7, AskedStill
<1>9. Control' /\ Connecting'
  BY <1>1, <1>2 DEF Control, Connecting
<1>10. Cursor' = Cursor /\ Lost' = Lost
  BY <1>1 DEF Cursor, Lost
<1>11. ASSUME ~Lost PROVE Queue' /\ Rests'
  <2>1. Queue /\ Rests
    BY <1>11 DEF SendInv
  <2>2. Queue'
    BY <1>1, <1>2, <1>10, <2>1 DEF Queue
  <2>3. Cursor # 0 => req'[Cursor].strm = req[Cursor].strm
    BY <1>7, <2>1, StillIs
  <2> QED BY <1>1, <1>10, <2>1, <2>2, <2>3 DEF Rests
<1> QED BY <1>7, <1>8, <1>9, <1>10, <1>11, StillKeeps

LEMMA DisconnectedSends ==
  ASSUME SendInv, Disconnected
  PROVE  SendInv' /\ Still /\ (~Lost' => ~Lost)
<1>1. /\ pc = "idle" /\ sock \notin {"new", "closed", "shut"} /\ sock' = "closed"
      /\ UNCHANGED <<nreq, mIsConnected, mCur, mPipeList, mSendQueList, held, srv, tx, pc, ret>>
      /\ DOMAIN req' = Reqs
      /\ \A r \in Reqs : req'[r] = req[r] \/ \E status : req'[r] = Ended(req[r], status)
  <2>1. req' = [r \in Reqs |->
             IF ~Waiting(r) THEN req[r] ELSE Ended(req[r], IF req[r].msg = None THEN -1 ELSE 0)]
    BY DEF Disconnected
  <2>2. DOMAIN req' = Reqs /\ \A r \in Reqs : req'[r] = req[r] \/ \E status : req'[r] = Ended(req[r], status)
    BY <2>1
  <2> QED BY <2>2 DEF Disconnected, pipeVars, txVars
<1>2. Bodied /\ Control /\ Connecting
  BY DEF SendInv
<1>3. \A r \in Reqs : SendsLike(req'[r], req[r]) /\ req'[r].asked = req[r].asked
  <2> SUFFICES ASSUME NEW r \in Reqs PROVE SendsLike(req'[r], req[r]) /\ req'[r].asked = req[r].asked
    OBVIOUS
  <2> DEFINE x == req[r]
  <2>1. DOMAIN x = Fields
    BY <1>2 DEF Bodied, Sendable
  <2>2. req'[r] = x \/ \E status : req'[r] = Ended(x, status)
    BY <1>1
  <2> HIDE DEF x
  <2>3. SendsLike(x, x) /\ \A status : SendsLike(Ended(x, status), x) /\ Ended(x, status).asked = x.asked
    BY <2>1, LikeFields
  <2>4. SendsLike(req'[r], x) /\ req'[r].asked = x.asked
    BY <2>2, <2>3
  <2> QED BY <2>4 DEF x
<1>4. Still
  BY <1>1, <1>3 DEF Still
<1>5. Asked'
  BY <1>1, <1>3, <1>4, AskedStill
<1>6. Cursor' = Cursor
  BY <1>1 DEF Cursor
<1>7. Control' /\ Connecting'
  BY <1>1, <1>2, <1>6 DEF Control, Connecting, Socks
<1>8. ASSUME ~Lost' PROVE ~Lost /\ Queue' /\ Rests'
  <2>1. ~mIsConnected
    BY <1>1, <1>8 DEF Lost
  <2>2. sock = "connecting"
    BY <1>1, <1>2, <2>1 DEF Connecting
  <2>3. ~Lost /\ Queue
    BY <2>2 DEF Lost, SendInv
  <2> QED BY <1>1, <1>6, <2>2, <2>3 DEF Queue, Rests
<1> QED BY <1>4, <1>5, <1>7, <1>8, StillKeeps

(* The packet that waited goes.                                              *)
LEMMA FlushSends ==
  ASSUME SendInv, Flush
  PROVE  SendInv'
<1>1. /\ sock = "pending" /\ sock' = "drained" /\ srv' = View /\ held' = << >>
      /\ UNCHANGED <<nreq, req, mIsConnected, mCur, mPipeList, mSendQueList, tx, pc, ret>>
  BY DEF Flush, View, reqVars, pipeVars, txVars
<1>2. Bodied /\ Control /\ Connecting /\ Asked /\ InTurn /\ View \in Readers
  BY DEF SendInv, Bodied
<1>3. View' = View
  <2>1. ReadAll(View, << >>) = View
    BY <1>2, ReadNone
  <2>2. View' = ReadAll(srv', held')
    BY DEF View
  <2> HIDE DEF View
  <2> QED BY <1>1, <2>1, <2>2
<1>4. Cursor' = Cursor
  BY <1>1 DEF Cursor
<1>5. Bodied' /\ InTurn' /\ Asked'
  BY <1>1, <1>2, <1>3 DEF Bodied, InTurn, Asked
<1>6. Control' /\ Connecting'
  BY <1>1, <1>2, <1>4 DEF Control, Connecting, Socks
<1>7. ~Lost /\ Queue /\ Reaches /\ Behind
  BY <1>1 DEF SendInv, Lost
<1>8. Queue' /\ Reaches' /\ Behind' /\ Rests'
  BY <1>1, <1>3, <1>4, <1>7 DEF Queue, Reaches, Behind, Rests
<1>9. ~Pipelined => mSendQueList' = << >>
  BY <1>1 DEF SendInv
<1> QED BY <1>5, <1>6, <1>8, <1>9 DEF SendInv

-----------------------------------------------------------------------------
(* A request is made.                                                        *)
LEMMA NewReqSends ==
  ASSUME NEW b \in ReqBodies
  PROVE  LET q == NewReq(b) IN Sendable(q) /\ Untouched(q) /\ ~q.asked
<1> DEFINE q == NewReq(b)
<1>1. b \in BodyVals
  <2>1. b \in Bodies
    BY BodiesAssumption
  <2> QED BY <2>1, MaxLenAssumption DEF Bodies, BodyVals, NoStrm, ChunkedLen
<1>2. q \in ReqVals
  BY <1>1, NewReqIs
<1>3. Sendable(q)
  BY <1>2 DEF ReqVals, Sendable, Fields
<1> DEFINE s == NewStrm(b)
           none == << >>
           manual == b.strm = NoStrm /\ b.clen # 0
<1>4. /\ q.body = b /\ q.strm = s /\ q.manual = manual
      /\ q.wcnt = 0 /\ q.buf = none /\ q.eos = FALSE /\ q.asked = FALSE
  <2>1. q = [body |-> b, strm |-> s, manual |-> manual, wcnt |-> 0, buf |-> none, eos |-> FALSE,
             pause |-> FALSE, asked |-> FALSE, active |-> TRUE, msg |-> None, data |-> none,
             ends |-> none]
    BY DEF NewReq
  <2> HIDE DEF q, s, manual, none
  <2> QED BY <2>1
<1>5. /\ s.hdr = TRUE /\ s.te = b.te /\ s.strm = b.strm /\ s.clen = b.clen /\ s.part = none
      /\ s.eos = FALSE
  <2>1. s = [hdr |-> TRUE, te |-> b.te, strm |-> b.strm, clen |-> b.clen, part |-> none, eos |-> FALSE]
    BY DEF NewStrm
  <2> HIDE DEF s, none
  <2> QED BY <2>1
<1>6. none = << >>
  OBVIOUS
<1> HIDE DEF q, s, none
<1>7. Untouched(q)
  BY <1>4, <1>5, <1>6 DEF Untouched, StrmFits
<1> QED BY <1>3, <1>4, <1>7 DEF q

LEMMA GrowsBelow ==
  ASSUME NEW n \in Nat, NEW s \in Seq(Nat), \A i \in 1 .. Len(s) : s[i] <= n, NEW r, r = n + 1
  PROVE  /\ \A i \in 1 .. Len(s) : s[i] <= r
         /\ Append(s, r) \in Seq(Nat) /\ \A i \in 1 .. Len(Append(s, r)) : Append(s, r)[i] <= r
<1> DEFINE m == Len(s)
           a == Append(s, r)
<1>1. m \in Nat /\ r \in Nat /\ \A i \in 1 .. m : s[i] \in Nat
  BY LenProperties, ElementOfSeq
<1>2. a \in Seq(Nat) /\ Len(a) = m + 1 /\ a[m + 1] = r /\ \A i \in 1 .. m : a[i] = s[i]
  BY <1>1, AppendProperties
<1>3. \A i \in 1 .. m : s[i] <= r
  <2> SUFFICES ASSUME NEW i \in 1 .. m PROVE s[i] <= r
    OBVIOUS
  <2>1. s[i] \in Nat /\ s[i] <= n
    BY <1>1
  <2> QED BY <2>1
<1> HIDE DEF a, m
<1>4. \A i \in 1 .. m + 1 : i = m + 1 \/ i \in 1 .. m
  BY <1>1
<1>5. \A i \in 1 .. m + 1 : a[i] <= r
  BY <1>1, <1>2, <1>3, <1>4
<1> QED BY <1>2, <1>3, <1>5 DEF a, m

LEMMA RequestSends ==
  ASSUME BodiesFit, Turns, SendInv, ~Pipelined => CnnInv, NEW b \in ReqBodies, Request(b)
  PROVE  SendInv'
<1> DEFINE r == nreq + 1
           q == NewReq(b)
<1>1. /\ nreq < NReq /\ pc \in {"idle", "end"}
      /\ sock \notin {"closed", "shut"} \/ sock = "closed"
      /\ Pipelined \/ mCur = None
      /\ mIsConnected \/ nreq < BeforeConnect
      /\ nreq' = r /\ req' = [req EXCEPT ![r] = q]
      /\ mIsConnected => tx' = mCur' /\ ret' = pc /\ pc' = "tx" /\ sock' = sock
      /\ ~mIsConnected => tx' = tx /\ ret' = ret /\ pc' = pc /\ sock' = "connecting"
      /\ UNCHANGED <<mIsConnected, held, srv>>
  BY DEF Request, StartTx, txVars
<1>2. IF mCur = None
      THEN mCur' = r /\ UNCHANGED <<mPipeList, mSendQueList>>
      ELSE /\ mPipeList' = Append(mPipeList, r) /\ mSendQueList' = Append(mSendQueList, r)
           /\ mCur' = mCur
  BY DEF Request, AddMsgStream
<1>3. /\ Bodied /\ Control /\ Connecting /\ Asked /\ InTurn
      /\ ~Pipelined => mSendQueList = << >>
      /\ ~Lost => Queue /\ Reaches /\ Behind /\ Rests
  BY DEF SendInv
<1>4. nreq \in Nat /\ r \in Reqs /\ r \in Nat /\ NReq \in Nat /\ r # None /\ r - 1 = nreq /\ nreq <= NReq
  BY <1>1, <1>3, NReqAssumption DEF Bodied, Reqs, None
<1>5. Sendable(q) /\ Untouched(q) /\ ~q.asked
  BY NewReqSends
<1>6. View' = View
  BY <1>1 DEF View
<1> HIDE DEF q
<1>7. DOMAIN req' = Reqs /\ req'[r] = q /\ \A k \in Reqs : k # r => req'[k] = req[k]
  BY <1>1, <1>3, <1>4 DEF Bodied
<1> HIDE DEF r
<1>8. tx = None
  BY <1>1, <1>3 DEF Control
(* The connection before it is up.                                           *)
<1>9. ~mIsConnected => pc = "idle" /\ sock \in {"new", "connecting", "closed"} /\ ~Lost
  BY <1>1, <1>3 DEF Connecting, Lost
<1>10. Lost' = Lost
  BY <1>1, <1>9 DEF Lost
<1>11. ASSUME ~Lost PROVE mSendQueList = << >> /\ Cursor = nreq
  <2>1. Queue
    BY <1>3, <1>11
  <2>2. mSendQueList = << >> => Cursor = nreq
    BY <1>3, <2>1, CursorIs
  <2>3. CASE mSendQueList # << >>
    <3>1. Cursor = nreq - 1 /\ nreq >= 2 /\ Cursor # 0
      BY <1>3, <1>4, <2>1, <2>3, CursorIs DEF Queue
    <3>2. ~mIsConnected
      BY <1>1, <2>1, <2>3 DEF Queue
    <3>3. Cursor <= 1 /\ nreq < BeforeConnect
      BY <1>1, <1>3, <3>2 DEF Connecting
    <3>4. Pipelined /\ BeforeConnect <= 2 /\ BeforeConnect \in Nat
      BY <1>3, <2>3, NReqAssumption DEF Turns
    <3> QED BY <1>4, <3>1, <3>3, <3>4
  <2> QED BY <2>2, <2>3
<1>12. Bodied' /\ Asked' /\ InTurn'
  <2>1. mSendQueList' \in Seq(Nat) /\ \A i \in 1 .. Len(mSendQueList') : mSendQueList'[i] <= nreq'
    <3>1. mSendQueList \in Seq(Nat) /\ \A i \in 1 .. Len(mSendQueList) : mSendQueList[i] <= nreq
      BY <1>3 DEF Bodied
    <3>2. nreq \in Nat /\ r \in Nat /\ r = nreq + 1 /\ nreq' = r
      BY <1>1, <1>4 DEF Reqs
    <3> HIDE DEF r
    <3>3. /\ \A i \in 1 .. Len(mSendQueList) : mSendQueList[i] <= r
          /\ Append(mSendQueList, r) \in Seq(Nat)
          /\ \A i \in 1 .. Len(Append(mSendQueList, r)) : Append(mSendQueList, r)[i] <= r
      BY <3>1, <3>2, GrowsBelow
    <3> QED BY <1>2, <3>1, <3>2, <3>3
  <2>2. nreq' \in 0 .. NReq
    BY <1>1, <1>4 DEF Reqs
  <2>3. \A k \in Reqs : Sendable(req'[k])
    BY <1>3, <1>5, <1>7 DEF Bodied
  <2>4. Bodied'
    BY <1>1, <1>3, <1>6, <1>7, <2>1, <2>2, <2>3 DEF Bodied
  <2>5. \A k \in Reqs : req'[k].asked => k <= nreq' /\ ~req'[k].strm.hdr
    <3> SUFFICES ASSUME NEW k \in Reqs, req'[k].asked PROVE k <= nreq' /\ ~req'[k].strm.hdr
      OBVIOUS
    <3>1. k # r
      BY <1>5, <1>7
    <3>2. k <= nreq /\ ~req[k].strm.hdr
      BY <1>3, <1>7, <3>1 DEF Asked
    <3> QED BY <1>1, <1>4, <1>7, <3>1, <3>2 DEF r, Reqs
  <2>6. pc' # "under"
    BY <1>1
  <2> QED BY <1>3, <1>6, <2>4, <2>5, <2>6 DEF Asked, InTurn
<1>13. Control'
  <2>1. mCur' \in 0 .. nreq' /\ (mIsConnected => tx' \in 0 .. nreq') /\ (~mIsConnected => tx' = None)
    BY <1>1, <1>2, <1>3, <1>4, <1>8 DEF Control, r
  <2>2. mPipeList' \in Seq(Nat) /\ \A i \in 1 .. Len(mPipeList') : mPipeList'[i] <= nreq'
    <3>1. mPipeList \in Seq(Nat) /\ \A i \in 1 .. Len(mPipeList) : mPipeList[i] <= nreq
      BY <1>3 DEF Control
    <3>2. nreq \in Nat /\ r \in Nat /\ r = nreq + 1 /\ nreq' = r
      BY <1>1, <1>4 DEF Reqs
    <3> HIDE DEF r
    <3>3. /\ \A i \in 1 .. Len(mPipeList) : mPipeList[i] <= r
          /\ Append(mPipeList, r) \in Seq(Nat)
          /\ \A i \in 1 .. Len(Append(mPipeList, r)) : Append(mPipeList, r)[i] <= r
      BY <3>1, <3>2, GrowsBelow
    <3> QED BY <1>2, <3>1, <3>2, <3>3
  <2>3. None \in 0 .. nreq'
    BY <1>1, <1>4 DEF None
  <2>4. /\ mIsConnected' \in BOOLEAN /\ sock' \in Socks
        /\ pc' \in {"idle", "tx", "end"} /\ ret' \in {"idle", "end"}
        /\ pc' # "tx" => tx' = None
    BY <1>1, <1>3, <1>8 DEF Control, Socks
  <2>5. tx' \in 0 .. nreq'
    BY <1>3, <2>1, <2>3 DEF Control
  <2> QED BY <2>1, <2>2, <2>4, <2>5 DEF Control
(* Where the cursor comes to.                                                *)
<1>14. ASSUME ~Lost
       PROVE  IF mCur = None THEN Cursor' = r /\ mSendQueList' = << >>
              ELSE Cursor' = nreq /\ mSendQueList' = <<r>> /\ nreq >= 1 /\ Pipelined
  <2>1. mSendQueList = << >> /\ Cursor = nreq
    BY <1>11, <1>14
  <2>2. Len(<< >>) = 0 /\ Len(<<r>>) = 1 /\ Append(<< >>, r) = <<r>>
    OBVIOUS
  <2>3. CASE mCur = None
    <3>1. mSendQueList' = << >>
      BY <1>2, <2>1, <2>3
    <3> QED BY <1>1, <1>4, <2>2, <2>3, <3>1 DEF Cursor
  <2>4. CASE mCur # None
    <3>1. mSendQueList' = <<r>>
      BY <1>2, <2>1, <2>2, <2>4
    <3>2. mCur <= nreq /\ mCur \in 0 .. nreq
      BY <1>3 DEF Control
    <3>3. nreq >= 1
      BY <1>4, <2>4, <3>2 DEF None
    <3> QED BY <1>1, <1>4, <2>2, <2>4, <3>1, <3>3 DEF Cursor
  <2> QED BY <2>3, <2>4
<1>15. Connecting'
  <2>1. CASE mIsConnected
    BY <1>1, <1>3, <2>1 DEF Connecting
  <2>2. CASE ~mIsConnected
    <3>1. mSendQueList = << >> /\ Cursor = nreq /\ nreq <= 1 /\ mCur = nreq
      BY <1>3, <1>9, <1>11, <2>2 DEF Connecting
    <3>2. mCur' = Cursor' /\ mCur' # None /\ Cursor' <= 1
      BY <1>2, <1>4, <1>9, <1>14, <2>2, <3>1 DEF r, None
    <3> QED BY <1>1, <1>9, <2>2, <3>2 DEF Connecting
  <2> QED BY <2>1, <2>2
<1>16. ASSUME ~Lost PROVE Queue' /\ Reaches' /\ Behind' /\ Rests'
  <2>1. Queue /\ Reaches /\ Behind /\ Rests /\ mSendQueList = << >> /\ Cursor = nreq
    BY <1>3, <1>11, <1>16
  <2>2. sock' # "pending" => held' = << >>
    BY <1>1, <1>9, <2>1 DEF Queue
  <2>3. CASE mCur = None
    <3>1. Cursor' = r /\ mSendQueList' = << >> /\ mCur' = r /\ (tx' = r \/ tx' = None) /\ (mIsConnected => tx' = r)
      BY <1>1, <1>2, <1>8, <1>14, <1>16, <2>3
    <3>2. WholeAt(nreq, View)
      <4>1. CASE ~Pipelined
        BY <2>3, <4>1, AllRead
      <4>2. CASE Pipelined /\ mIsConnected
        BY <1>1, <1>16, <2>1, <4>2, StopsWhole
      <4>3. CASE ~mIsConnected
        <5>1. nreq = 0
          BY <1>3, <2>3, <4>3 DEF Connecting
        <5> QED BY <2>1, <5>1 DEF Reaches
      <4> QED BY <4>1, <4>2, <4>3
    <3>3. SentTo(r, q, View)
      BY <1>4, <1>5, <3>2 DEF SentTo, Untouched
    <3>4. Reaches'
      BY <1>4, <1>6, <1>7, <3>1, <3>3 DEF Reaches, None
    <3>5. nreq # 0 => StrmFits(req[nreq]) /\ Avail(req[nreq].strm) # "some"
      <4> SUFFICES ASSUME nreq # 0 PROVE StrmFits(req[nreq]) /\ Avail(req[nreq].strm) # "some"
        OBVIOUS
      <4>1. StrmFits(req[nreq])
        BY <2>1 DEF Reaches, SentTo
      <4>2. Avail(req[nreq].strm) # "some"
        BY <2>1, <3>2, DoneIsNone
      <4> QED BY <4>1, <4>2
    <3>6. Behind'
      <4>1. \A k \in 1 .. r - 1 : /\ k \in Reqs /\ k # r
                                  /\ k \in 1 .. Cursor - 1 \/ (k = nreq /\ nreq # 0)
        BY <1>4, <2>1 DEF r, Reqs
      <4>2. \A k \in 1 .. r - 1 : StrmFits(req[k]) /\ Avail(req[k].strm) # "some"
        BY <2>1, <3>5, <4>1 DEF Behind
      <4>3. \A k \in 1 .. Cursor' - 1 : StrmFits(req'[k]) /\ Avail(req'[k].strm) # "some"
        BY <1>7, <3>1, <4>1, <4>2
      <4> QED BY <3>1, <4>3 DEF Behind
    <3>7. Queue'
      BY <1>4, <2>2, <3>1 DEF Queue, None, r
    <3>8. Rests'
      BY <1>1, <3>1 DEF Rests
    <3> QED BY <3>4, <3>6, <3>7, <3>8
  <2>4. CASE mCur # None
    <3>1. /\ Cursor' = nreq /\ mSendQueList' = <<r>> /\ nreq >= 1 /\ Pipelined /\ mCur' = mCur
          /\ mIsConnected => tx' = mCur
          /\ ~mIsConnected => tx' = None
      BY <1>1, <1>2, <1>8, <1>14, <1>16, <2>4
    <3>2. nreq \in Reqs /\ nreq # r /\ nreq # 0
      BY <1>4, <3>1 DEF Reqs, r
    <3>3. req'[nreq] = req[nreq]
      BY <1>7, <3>2
    <3>4. Reaches'
      BY <1>6, <2>1, <3>1, <3>2, <3>3 DEF Reaches
    <3>5. Behind'
      <4>1. \A k \in 1 .. nreq - 1 : k \in Reqs /\ k # r
        BY <1>4 DEF r, Reqs
      <4>2. \A k \in 1 .. nreq - 1 : StrmFits(req'[k]) /\ Avail(req'[k].strm) # "some"
        BY <1>7, <2>1, <4>1 DEF Behind
      <4>3. Untouched(req'[nreq'])
        BY <1>1, <1>5, <1>7
      <4> QED BY <3>1, <4>2, <4>3 DEF Behind
    <3>6. Queue'
      <4>1. mSendQueList' = <<nreq'>> /\ nreq' >= 2 /\ (~mIsConnected' \/ pc' = "tx")
        BY <1>1, <1>4, <3>1 DEF r
      <4>2. mCur' <= Cursor' /\ tx' <= Cursor'
        BY <1>4, <2>1, <3>1 DEF Queue, None
      <4> QED BY <2>2, <4>1, <4>2 DEF Queue
    <3>7. Rests'
      <4> SUFFICES ASSUME sock' = "writable" PROVE Avail(req'[Cursor'].strm) # "some"
        BY DEF Rests
      <4>1. mIsConnected /\ sock = "writable"
        BY <1>1
      <4>2. Avail(req[nreq].strm) # "some"
        BY <1>1, <2>1, <3>2, <4>1 DEF Rests
      <4> QED BY <3>1, <3>3, <4>2
    <3> QED BY <3>4, <3>5, <3>6, <3>7
  <2> QED BY <2>3, <2>4
<1>17. ~Pipelined => mSendQueList' = << >>
  BY <1>1, <1>2, <1>3
<1> QED BY <1>10, <1>12, <1>13, <1>15, <1>16, <1>17 DEF SendInv

-----------------------------------------------------------------------------
(* A packet leaves.                                                          *)
LEMMA PacketLeaves ==
  ASSUME srv \in Readers, sock # "pending" => held = << >>, NEW q \in Reqs, NEW toks,
         NEW r, SendPacket(r, q, toks)
  PROVE  /\ r \in {"OK", "PENDING", "FAIL"}
         /\ r # "FAIL" => sock = "writable"
         /\ r = "PENDING" => SockPends
         /\ sock' = CASE r = "PENDING" -> "pending"
                      [] r = "FAIL" /\ sock = "writable" -> "broken"
                      [] OTHER -> sock
         /\ r = "FAIL" => srv' = srv /\ held' = held /\ View' = View
         /\ r # "FAIL" /\ toks \in Seq(AnyToks) =>
              /\ View' = ReadAll(View, Packet(q, toks)) /\ View' \in Readers /\ srv' \in Readers
              /\ sock' # "pending" => held' = << >>
<1>1. /\ r \in SendResults
      /\ sock' = CASE r = "PENDING" -> "pending"
                   [] r = "FAIL" /\ sock = "writable" -> "broken"
                   [] OTHER -> sock
  BY DEF SendPacket
<1>2. /\ r = "OK" => srv' = ReadAll(srv, Packet(q, toks)) /\ held' = held
      /\ r = "PENDING" => srv' = srv /\ held' = Packet(q, toks)
      /\ r \notin {"OK", "PENDING"} => srv' = srv /\ held' = held
  BY SentIs
<1>3. /\ r \in {"OK", "PENDING", "FAIL"}
      /\ r # "FAIL" => sock = "writable"
      /\ r = "PENDING" => SockPends
  BY <1>1 DEF SendResults
<1>4. r = "FAIL" => srv' = srv /\ held' = held /\ View' = View
  BY <1>2 DEF View
<1>5. ASSUME r # "FAIL", toks \in Seq(AnyToks)
      PROVE  /\ View' = ReadAll(View, Packet(q, toks)) /\ View' \in Readers /\ srv' \in Readers
             /\ sock' # "pending" => held' = << >>
  <2> DEFINE d == ReadAll(srv, Packet(q, toks))
  <2>1. sock = "writable" /\ held = << >>
    BY <1>3, <1>5
  <2>2. View = srv
    BY <2>1, ReadNone DEF View
  <2>3. d \in Readers
    BY <1>5, PacketRead
  <2>4. View' = ReadAll(srv', held')
    BY DEF View
  <2> HIDE DEF View
  <2>5. CASE r = "OK"
    <3>1. srv' = d /\ held' = << >>
      BY <1>2, <2>1, <2>5
    <3> HIDE DEF d
    <3>2. ReadAll(d, << >>) = d
      BY <2>3, ReadNone
    <3>3. View' = d
      BY <2>4, <3>1, <3>2
    <3> QED BY <2>2, <2>3, <3>1, <3>3 DEF d
  <2>6. CASE r = "PENDING"
    <3>1. srv' = srv /\ held' = Packet(q, toks) /\ sock' = "pending"
      BY <1>1, <1>2, <2>6
    <3>2. View' = d
      BY <2>4, <3>1
    <3> QED BY <2>2, <2>3, <3>1, <3>2
  <2> QED BY <1>3, <1>5, <2>5, <2>6
<1> QED BY <1>1, <1>3, <1>4, <1>5

(* After it the server is where the request at the cursor says.              *)
LEMMA CursorMoves ==
  ASSUME BodiesFit, Turns, SendInv, ~Lost, mIsConnected, Cursor \in Reqs, sock = "writable",
         NEW y, Sendable(y), SentTo(Cursor, y, View'), y.asked => ~y.strm.hdr, y.asked = req[Cursor].asked,
         req' = [req EXCEPT ![Cursor] = y],
         View' \in Readers, srv' \in Readers,
         sock' \in {"writable", "pending"}, sock' = "pending" => SockPends, sock' # "pending" => held' = << >>,
         UNCHANGED <<nreq, mIsConnected, mCur, mPipeList, mSendQueList, ret>>,
         tx' \in {tx, None}, pc' \in {pc, ret}, pc' \notin {"tx", "under"} => tx' = None,
         pc' = "under" => pc = "under" /\ tx' = tx,
         mSendQueList # << >> => pc' = pc \/ sock' = "pending",
         sock' = "writable" /\ ~(pc' = "tx" /\ tx' = Cursor) => Avail(y.strm) # "some"
  PROVE  SendInv'
<1>1. /\ Bodied /\ Control /\ Connecting /\ Asked /\ Queue /\ Reaches /\ Behind
      /\ (~Pipelined => mSendQueList = << >>)
  BY DEF SendInv
<1>2. /\ nreq \in 0 .. NReq /\ NReq \in Nat /\ Cursor # 0 /\ Cursor <= nreq /\ Cursor \in Nat
      /\ (mSendQueList # << >> => nreq \in Reqs /\ nreq # Cursor)
  BY <1>1, CursorIs, NReqAssumption DEF Bodied, Reqs
<1>3. Cursor' = Cursor
  BY DEF Cursor
<1> DEFINE c == Cursor
<1>4. DOMAIN req' = Reqs /\ req'[c] = y /\ \A k \in Reqs : k # c => req'[k] = req[k]
  BY <1>1 DEF Bodied
<1> HIDE DEF c
<1>5. Bodied'
  <2>1. \A k \in Reqs : Sendable(req'[k])
    BY <1>1, <1>4 DEF Bodied
  <2> QED BY <1>1, <1>4, <2>1 DEF Bodied
<1>6. Control'
  BY <1>1, <1>2 DEF Control, Socks, None
<1>7. Connecting'
  BY <1>1, <1>3 DEF Connecting
<1>8. Asked'
  <2>1. \A k \in Reqs : req'[k].asked => k <= nreq /\ ~req'[k].strm.hdr
    BY <1>1, <1>2, <1>4 DEF Asked, c
  <2>2. \A k \in Reqs : req'[k].asked = req[k].asked
    BY <1>4 DEF c
  <2>3. pc' = "under" => tx' # None /\ req'[tx'].asked
    <3> SUFFICES ASSUME pc' = "under" PROVE tx' # None /\ req'[tx'].asked
      OBVIOUS
    <3>1. tx' = tx /\ tx # None /\ req[tx].asked /\ tx \in 0 .. nreq
      BY <1>1 DEF Asked, Control
    <3>2. tx \in Reqs
      BY <1>2, <3>1 DEF Reqs, None
    <3> QED BY <2>2, <3>1, <3>2
  <2> QED BY <2>1, <2>3 DEF Asked
<1>9. InTurn'
  <2>1. View'.ok /\ View'.whole \in {UpTo(c), UpTo(c - 1)}
    BY LeftAndWhole DEF c
  <2>2. \A k \in Nat : UpTo(k) = UpTo(Len(UpTo(k)))
    BY UpToIs
  <2>3. c \in Nat /\ c - 1 \in Nat
    BY <1>2 DEF c, Reqs
  <2> QED BY <2>1, <2>2, <2>3 DEF InTurn
<1>10. Reaches'
  BY <1>2, <1>3, <1>4 DEF Reaches, c
<1>11. Behind'
  <2>1. \A k \in 1 .. Cursor - 1 : k \in Reqs /\ k # c
    BY <1>2 DEF Reqs, c
  <2>2. \A k \in 1 .. Cursor - 1 : StrmFits(req'[k]) /\ Avail(req'[k].strm) # "some"
    BY <1>1, <1>4, <2>1 DEF Behind
  <2>3. mSendQueList # << >> => Untouched(req'[nreq])
    BY <1>1, <1>2, <1>4 DEF Behind, c
  <2> QED BY <1>3, <2>2, <2>3 DEF Behind
<1>12. Queue'
  <2>1. mSendQueList # << >> => pc' = "tx"
    BY <1>1 DEF Turns, Queue
  <2>2. mCur <= Cursor /\ tx' <= Cursor
    BY <1>1, <1>2 DEF Queue, None
  <2> QED BY <1>1, <1>3, <2>1, <2>2 DEF Queue
<1>13. Rests'
  <2> SUFFICES ASSUME sock' = "writable", ~(pc' = "tx" /\ tx' = Cursor) PROVE Avail(req'[Cursor].strm) # "some"
    BY <1>3 DEF Rests
  <2> QED BY <1>4 DEF c
<1> QED BY <1>1, <1>5, <1>6, <1>7, <1>8, <1>9, <1>10, <1>11, <1>12, <1>13 DEF SendInv

(* What is lost stays lost.                                                  *)
LEMMA LostKeeps ==
  ASSUME SendInv, Lost', NEW q \in Reqs, NEW y, Sendable(y), y.asked => ~y.strm.hdr, y.asked = req[q].asked,
         req' = [req EXCEPT ![q] = y], View' = View, srv' = srv, Control', Connecting',
         UNCHANGED <<nreq, mSendQueList>>, pc' = "under" => pc = "under" /\ tx' = tx
  PROVE  SendInv'
<1>1. Bodied /\ Control /\ Asked /\ InTurn
  BY DEF SendInv
<1>2. DOMAIN req' = Reqs /\ req'[q] = y /\ \A k \in Reqs : k # q => req'[k] = req[k]
  BY <1>1 DEF Bodied
<1>3. \A k \in Reqs : Sendable(req'[k])
  BY <1>1, <1>2 DEF Bodied
<1>4. Bodied' /\ InTurn'
  BY <1>1, <1>2, <1>3 DEF Bodied, InTurn
<1>5. Asked'
  <2>1. \A k \in Reqs : req'[k].asked => k <= nreq /\ ~req'[k].strm.hdr
    BY <1>1, <1>2 DEF Asked
  <2>2. \A k \in Reqs : req'[k].asked = req[k].asked
    BY <1>2
  <2>3. pc' = "under" => tx' # None /\ req'[tx'].asked
    <3> SUFFICES ASSUME pc' = "under" PROVE tx' # None /\ req'[tx'].asked
      OBVIOUS
    <3>1. tx' = tx /\ tx # None /\ req[tx].asked /\ tx \in 0 .. nreq /\ nreq \in 0 .. NReq
      BY <1>1 DEF Asked, Control, Bodied
    <3>2. tx \in Reqs
      BY <3>1, NReqAssumption DEF Reqs, None
    <3> QED BY <2>2, <3>1, <3>2
  <2> QED BY <2>1, <2>3 DEF Asked
<1> QED BY <1>4, <1>5 DEF SendInv

LEMMA TxSendSends ==
  ASSUME BodiesFit, Turns, SendInv, NEW r, TxSend(r)
  PROVE  SendInv'
<1> DEFINE x == req[tx]
           s == Prepared(x.strm)
           u == Consumed(s)
           left == [x EXCEPT !.strm = s]
           gone == [x EXCEPT !.strm = u]
           y == IF r = "FAIL" THEN Ended(left, -1) ELSE gone
           toks == Offered(s)
<1>1. /\ pc = "tx" /\ tx # None /\ sock \in {"writable", "broken"} /\ Avail(x.strm) = "some"
      /\ SendPacket(r, tx, toks)
      /\ IF r = "OK" THEN UNCHANGED <<pc, tx>> ELSE pc' = ret /\ tx' = None
      /\ UNCHANGED <<nreq, mIsConnected, mCur, mPipeList, mSendQueList, ret>>
  BY DEF TxSend, IsWritable, LeaveTx, pipeVars
<1>2. /\ Bodied /\ Control /\ Connecting /\ Asked /\ mIsConnected
      /\ ret \in {"idle", "end"}
  BY <1>1 DEF SendInv, Connecting, Control
<1>3. tx \in Reqs /\ DOMAIN req = Reqs /\ Sendable(x)
  <2>1. tx \in Reqs
    BY <1>1, <1>2, NReqAssumption DEF Control, Bodied, Reqs, None
  <2> QED BY <1>2, <2>1 DEF Bodied
<1>4. req' = [req EXCEPT ![tx] = y]
  BY <1>3 DEF TxSend
<1>5. s \in StrmVals /\ s.hdr = x.strm.hdr /\ u \in StrmVals /\ u.hdr = FALSE
  <2>1. x.strm \in StrmVals
    BY <1>3 DEF Sendable
  <2> HIDE DEF x
  <2>2. s \in StrmVals /\ s.hdr = x.strm.hdr
    BY <2>1, PreparedIs
  <2> HIDE DEF s
  <2> QED BY <2>2, OfferedIs
<1> HIDE DEF s, u, toks
<1>6. OnlyStrm(left, x, s) /\ OnlyStrm(gone, x, u) /\ left.asked = x.asked /\ gone.asked = x.asked
  <2> HIDE DEF x
  <2>1. left.asked = x.asked /\ gone.asked = x.asked
    BY <1>3 DEF Sendable, Fields
  <2> QED BY <1>3, <1>5, <2>1, StrmGets
<1> HIDE DEF left, gone
<1>7. Sendable(y) /\ y.asked = x.asked /\ (y.asked => ~y.strm.hdr)
  <2>1. Sendable(left) /\ left.strm = s /\ Sendable(gone) /\ gone.strm = u
    BY <1>6 DEF OnlyStrm
  <2>2. SendsLike(Ended(left, -1), left) /\ Ended(left, -1).asked = left.asked
    BY <2>1, LikeFields DEF Sendable
  <2>3. Sendable(Ended(left, -1)) /\ Ended(left, -1).strm = s
    BY <2>1, <2>2, LikeIs DEF SendsLike
  <2>4. x.asked => ~x.strm.hdr
    BY <1>2, <1>3 DEF Asked
  <2> QED BY <1>5, <1>6, <2>1, <2>2, <2>3, <2>4
<1>8. (srv \in Readers /\ (sock # "pending" => held = << >>)) \/ Lost
  BY <1>2 DEF Bodied, SendInv, Queue
<1>9. CASE r = "FAIL"
  <2>1. srv' = srv /\ View' = View /\ sock' = "broken"
    <3>1. srv' = srv /\ held' = held
      BY <1>1, <1>9, SentIs
    <3>2. sock' = "broken"
      BY <1>1, <1>9 DEF SendPacket
    <3> QED BY <3>1, <3>2 DEF View
  <2>2. Lost' /\ pc' \in {"idle", "end"}
    BY <1>1, <1>2, <1>9, <2>1 DEF Lost
  <2>3. Control'
    BY <1>1, <1>2, <1>9, <2>1, <2>2 DEF Control, Socks, None, Bodied
  <2>4. Connecting'
    BY <1>1, <1>2, <2>1 DEF Connecting
  <2> HIDE DEF y, x
  <2>5. y.asked = req[tx].asked
    BY <1>7 DEF x
  <2> QED BY <1>1, <1>3, <1>4, <1>7, <2>1, <2>2, <2>3, <2>4, <2>5, LostKeeps
<1>10. CASE r # "FAIL"
  <2>1. sock = "writable"
    BY <1>1, <1>10 DEF SendPacket, SendResults
  <2>2. ~Lost
    BY <2>1 DEF Lost
  <2>3. Queue /\ Reaches /\ Behind /\ held = << >> /\ srv \in Readers /\ View \in Readers
    BY <1>2, <2>1, <2>2 DEF SendInv, Queue, Bodied
  <2>4. tx = Cursor
    <3>1. tx <= Cursor /\ Cursor \in Nat /\ tx \in Nat /\ tx >= 1
      BY <1>2, <1>3, <2>3, CursorIs, NReqAssumption DEF Queue, Reqs, Bodied
    <3>2. CASE tx < Cursor
      <4>1. tx \in 1 .. Cursor - 1
        BY <3>1, <3>2
      <4> QED BY <1>1, <2>3, <4>1 DEF Behind
    <3> QED BY <3>1, <3>2
  <2>5. SentTo(tx, x, View)
    BY <1>3, <2>3, <2>4 DEF Reaches, Reqs
  <2>6. r \in {"OK", "PENDING", "FAIL"}
        /\ (r = "PENDING" => SockPends)
        /\ sock' = IF r = "PENDING" THEN "pending" ELSE "writable"
    BY <1>1, <1>3, <1>10, <2>1, <2>3, PacketLeaves
  <2> DEFINE d == ReadAll(View, Packet(tx, toks))
  <2>7. SentTo(tx, y, d) /\ d \in Readers /\ toks \in Seq(AnyToks)
    <3>1. y = gone
      BY <1>10
    <3> HIDE DEF x, y, d
    <3>2. d = ReadAll(View, Packet(tx, Offered(s))) /\ OnlyStrm(gone, x, Consumed(s)) /\ s = Prepared(x.strm)
      BY <1>6 DEF d, toks, s, u
    <3>3. SentTo(tx, gone, d) /\ d \in Readers /\ Offered(s) \in Seq(AnyToks)
      BY <1>1, <1>3, <2>3, <2>5, <3>2, StrmSends
    <3> QED BY <3>1, <3>3 DEF toks
  <2> HIDE DEF y
  <2>8. View' = d /\ srv' \in Readers /\ (sock' # "pending" => held' = << >>)
    BY <1>1, <1>3, <1>10, <2>1, <2>3, <2>7, PacketLeaves
  <2> HIDE DEF d, x
  <2>9. pc' \in {pc, ret} /\ tx' \in {tx, None} /\ (pc' \notin {"tx", "under"} => tx' = None) /\ pc' # "under"
        /\ (pc' = pc \/ sock' = "pending")
        /\ (sock' = "writable" => pc' = "tx" /\ tx' = Cursor)
    BY <1>1, <1>2, <1>10, <2>4, <2>6
  <2>10. y.asked = req[Cursor].asked
    BY <1>7, <2>4 DEF x
  <2> QED BY <1>1, <1>2, <1>3, <1>4, <1>7, <2>1, <2>2, <2>4, <2>6, <2>7, <2>8, <2>9, <2>10, CursorMoves
<1> QED BY <1>9, <1>10

-----------------------------------------------------------------------------
(* The application writes from a callback or a timer: only to the request    *)
(* that is being sent, which is the only one that waits.                     *)
LEMMA WriterAtCursor ==
  ASSUME BodiesFit, Turns, SendInv, ~Pipelined => CnnInv, NEW r \in Reqs, NEW n, SendData(r, n)
  PROVE  /\ r \in 1 .. nreq /\ req[r].asked /\ ~req[r].strm.hdr /\ pc \in {"idle", "under"}
         /\ ~Lost => r = Cursor
<1>1. /\ (pc = "under" /\ r = tx) \/ (pc = "idle" /\ req[r].active /\ req[r].asked)
      /\ n \in SendLens(req[r])
  BY DEF SendData
<1>2. Asked /\ Bodied
  BY DEF SendInv
<1>3. r \in 1 .. nreq /\ req[r].asked /\ ~req[r].strm.hdr /\ nreq \in Nat /\ r # None
  BY <1>1, <1>2, NReqAssumption DEF Asked, Reqs, Bodied, None
<1>4. ASSUME ~Lost PROVE r = Cursor
  <2>1. Queue /\ Reaches /\ Behind
    BY <1>4 DEF SendInv
  <2>2. CASE ~Pipelined
    <3>1. r = mCur /\ mCur # None
      BY <1>1, <1>3, <2>2 DEF CnnInv, One, Ends, Sends
    <3>2. mCur = nreq
      BY <2>2, <3>1, WaitingOne
    <3>3. mSendQueList = << >>
      BY <2>2 DEF SendInv
    <3> QED BY <1>2, <2>1, <3>1, <3>2, <3>3, CursorIs
  <2>3. CASE Pipelined
    <3>1. NoneWritten
      BY <2>3 DEF Turns
    <3>2. StrmFits(req[r])
      <4>1. CASE mSendQueList = << >> \/ r # nreq
        <5>1. r \in 1 .. Cursor /\ Cursor \in Nat
          BY <1>2, <1>3, <2>1, <4>1, CursorIs
        <5>2. CASE r = Cursor
          <6>1. Cursor # 0 /\ r = Cursor
            BY <1>3, <5>1, <5>2
          <6> QED BY <2>1, <6>1 DEF Reaches, SentTo
        <5>3. CASE r # Cursor
          <6>1. r \in 1 .. Cursor - 1
            BY <5>1, <5>3
          <6> QED BY <2>1, <6>1 DEF Behind
        <5> QED BY <5>2, <5>3
      <4>2. CASE mSendQueList # << >> /\ r = nreq
        BY <1>3, <2>1, <4>2 DEF Behind, Untouched
      <4> QED BY <4>1, <4>2
    <3>3. Sendable(req[r])
      BY <1>2 DEF Bodied
    <3>4. ~req[r].manual
      BY <3>1, <3>2, <3>3, NoneToDo
    <3> QED BY <1>1, <3>4 DEF SendLens
  <2> QED BY <2>2, <2>3
<1> QED BY <1>1, <1>3, <1>4

(* Nothing leaves, and what the request keeps says so.                       *)
LEMMA KeptSends ==
  ASSUME SendInv, ~Lost, Cursor \in Reqs,
         NEW y, Sendable(y), SentTo(Cursor, y, View), y.strm = req[Cursor].strm, y.asked = req[Cursor].asked,
         req' = [req EXCEPT ![Cursor] = y],
         UNCHANGED <<nreq, mIsConnected, mCur, mPipeList, mSendQueList, sock, held, srv, pc, tx, ret>>
  PROVE  SendInv'
<1>1. /\ Bodied /\ Control /\ Connecting /\ Asked /\ InTurn /\ Queue /\ Reaches /\ Behind /\ Rests
      /\ (~Pipelined => mSendQueList = << >>)
  BY DEF SendInv
<1>2. /\ nreq \in 0 .. NReq /\ NReq \in Nat /\ Cursor <= nreq /\ Cursor \in Nat /\ Cursor # 0
      /\ (mSendQueList # << >> => nreq \in Reqs /\ nreq # Cursor)
  BY <1>1, CursorIs, NReqAssumption DEF Bodied, Reqs
<1>3. Cursor' = Cursor /\ View' = View /\ (Lost' <=> Lost)
  BY DEF Cursor, View, Lost
<1> DEFINE c == Cursor
<1>4. DOMAIN req' = Reqs /\ req'[c] = y /\ \A k \in Reqs : k # c => req'[k] = req[k]
  BY <1>1 DEF Bodied
<1>5. y.strm = req[c].strm /\ y.asked = req[c].asked
  OBVIOUS
<1> HIDE DEF c
<1>6. \A k \in Reqs : Sendable(req'[k]) /\ req'[k].strm = req[k].strm /\ req'[k].asked = req[k].asked
  BY <1>1, <1>4, <1>5 DEF Bodied
<1>7. Bodied' /\ Control' /\ Connecting' /\ InTurn' /\ Queue'
  <2>1. Bodied' /\ InTurn'
    BY <1>1, <1>3, <1>4, <1>6 DEF Bodied, InTurn
  <2>2. Control'
    BY <1>1 DEF Control
  <2>3. Connecting' /\ Queue'
    BY <1>1, <1>3 DEF Connecting, Queue
  <2> QED BY <2>1, <2>2, <2>3
<1>8. Asked'
  <2>1. \A k \in Reqs : req'[k].asked => k <= nreq /\ ~req'[k].strm.hdr
    BY <1>1, <1>6 DEF Asked
  <2>2. pc' = "under" => tx' # None /\ req'[tx'].asked
    <3> SUFFICES ASSUME pc = "under" PROVE tx # None /\ req'[tx].asked
      OBVIOUS
    <3>1. tx # None /\ req[tx].asked /\ tx \in 0 .. nreq
      BY <1>1 DEF Asked, Control
    <3>2. tx \in Reqs
      BY <1>2, <3>1 DEF Reqs, None
    <3> QED BY <1>6, <3>1, <3>2
  <2> QED BY <2>1, <2>2 DEF Asked
<1>9. Reaches'
  BY <1>2, <1>3, <1>4 DEF Reaches, c
<1>10. Behind'
  <2>1. \A k \in 1 .. Cursor - 1 : k \in Reqs /\ k # c
    BY <1>2 DEF Reqs, c
  <2>2. \A k \in 1 .. Cursor - 1 : StrmFits(req'[k]) /\ Avail(req'[k].strm) # "some"
    BY <1>1, <1>4, <2>1 DEF Behind
  <2>3. mSendQueList # << >> => Untouched(req'[nreq])
    BY <1>1, <1>2, <1>4 DEF Behind, c
  <2> QED BY <1>3, <2>2, <2>3 DEF Behind
<1>11. Rests'
  BY <1>1, <1>3, <1>6 DEF Rests
<1> QED BY <1>1, <1>3, <1>7, <1>8, <1>9, <1>10, <1>11 DEF SendInv

LEMMA WriteEnds ==
  ASSUME BodiesFit, Turns, SendInv, ~Pipelined => CnnInv, NEW r \in Reqs, NEW n, SendData(r, n),
         NEW res, NEW toks \in Seq(AnyToks), SendPacket(res, r, toks),
         NEW y, Sendable(y), y.strm = req[r].strm, y.asked = req[r].asked, req' = [req EXCEPT ![r] = y],
         ~Lost /\ res # "FAIL" => SentTo(r, y, ReadAll(View, Packet(r, toks))),
         ~Lost /\ res = "FAIL" => SentTo(r, y, View)
  PROVE  SendInv'
<1>1. /\ UNCHANGED <<nreq, mIsConnected, mCur, mPipeList, mSendQueList, tx, ret, pc>>
      /\ sock \notin {"closed", "shut"}
  BY Zenon DEF SendData, pipeVars, txVars
<1>2. /\ r \in 1 .. nreq /\ req[r].asked /\ ~req[r].strm.hdr /\ pc \in {"idle", "under"}
      /\ ~Lost => r = Cursor
  BY WriterAtCursor
<1>3. Bodied /\ Control /\ Connecting /\ ~y.strm.hdr
  BY <1>2 DEF SendInv
<1>4. /\ sock' = CASE res = "PENDING" -> "pending"
                   [] res = "FAIL" /\ sock = "writable" -> "broken"
                   [] OTHER -> sock
      /\ res \in SendResults
  BY DEF SendPacket
<1>5. res \in {"OK", "PENDING", "FAIL"} /\ (res # "FAIL" => sock = "writable") /\ (res = "PENDING" => SockPends)
  BY <1>4 DEF SendResults
<1>6. res = "FAIL" => srv' = srv /\ held' = held /\ View' = View
  <2>1. res = "FAIL" => srv' = srv /\ held' = held
    BY SentIs
  <2> QED BY <2>1 DEF View
<1>7. CASE Lost \/ (res = "FAIL" /\ sock = "writable")
  <2>1. res = "FAIL" /\ Lost' /\ sock' \in {sock, "broken"} /\ (sock' = "broken" => mIsConnected)
    BY <1>1, <1>3, <1>4, <1>5, <1>7 DEF Lost, Connecting
  <2>2. Control'
    BY <1>1, <1>3, <2>1 DEF Control, Socks
  <2>3. Cursor' = Cursor
    BY <1>1 DEF Cursor
  <2>4. Connecting'
    BY <1>1, <1>3, <2>1, <2>3 DEF Connecting
  <2> QED BY <1>1, <1>2, <1>3, <1>6, <2>1, <2>2, <2>4, LostKeeps
<1>8. CASE ~Lost /\ res = "FAIL" /\ sock # "writable"
  <2>1. sock' = sock /\ srv' = srv /\ held' = held /\ SentTo(r, y, View)
    BY <1>4, <1>6, <1>8
  <2>2. r = Cursor
    BY <1>2, <1>8
  <2> QED BY <1>1, <1>8, <2>1, <2>2, KeptSends
<1>9. CASE ~Lost /\ res # "FAIL"
  <2>1. sock = "writable" /\ mIsConnected /\ r = Cursor
    BY <1>2, <1>3, <1>5, <1>9 DEF Connecting
  <2>2. Queue /\ Rests /\ srv \in Readers /\ (sock # "pending" => held = << >>)
    BY <1>3, <1>9 DEF SendInv, Queue, Bodied
  <2>3. /\ View' = ReadAll(View, Packet(r, toks)) /\ View' \in Readers /\ srv' \in Readers
        /\ sock' # "pending" => held' = << >>
    BY <1>9, <2>2, PacketLeaves
  <2>4. sock' \in {"writable", "pending"} /\ (sock' = "pending" => SockPends)
    BY <1>4, <1>5, <1>9, <2>1
  <2>5. SentTo(Cursor, y, View')
    BY <1>9, <2>1, <2>3
  <2>6. Avail(y.strm) # "some"
    <3>1. Cursor # 0 /\ pc # "tx" /\ pc # "crashed"
      BY <1>2, <2>1, NReqAssumption DEF Reqs
    <3> QED BY <2>1, <2>2, <3>1 DEF Rests
  <2>7. pc \notin {"tx", "under"} => tx = None
    BY <1>2, <1>3 DEF Control
  <2>8. tx' \in {tx, None} /\ pc' \in {pc, ret} /\ (pc' \notin {"tx", "under"} => tx' = None)
        /\ (pc' = "under" => pc = "under" /\ tx' = tx) /\ pc' = pc
    BY <1>1, <2>7
  <2>9. y.asked = req[Cursor].asked /\ req' = [req EXCEPT ![Cursor] = y] /\ Cursor \in Reqs
    BY <2>1
  <2> QED BY <1>1, <1>3, <1>9, <2>1, <2>3, <2>4, <2>5, <2>6, <2>8, <2>9, CursorMoves
<1> QED BY <1>7, <1>8, <1>9

LEMMA RefusedSends ==
  ASSUME SendInv, sock' \in {sock, "broken"}, sock' = "broken" => sock \in {"writable", "broken"},
         UNCHANGED <<nreq, req, mIsConnected, mCur, mPipeList, mSendQueList, held, srv, tx, pc, ret>>
  PROVE  SendInv'
<1>1. Bodied /\ Control /\ Connecting
  BY DEF SendInv
<1>2. Still /\ Asked'
  BY RestIsStill
<1>3. Control'
  BY <1>1 DEF Control, Socks
<1>4. Cursor' = Cursor
  BY DEF Cursor
<1>5. Connecting'
  BY <1>1, <1>4 DEF Connecting
<1>6. ~Lost' => ~Lost /\ Queue' /\ Rests'
  <2> SUFFICES ASSUME ~Lost' PROVE ~Lost /\ Queue' /\ Rests'
    OBVIOUS
  <2>1. sock' = sock /\ ~Lost
    BY DEF Lost
  <2>2. Queue /\ Rests
    BY <2>1 DEF SendInv
  <2> QED BY <1>4, <2>1, <2>2 DEF Queue, Rests
<1> QED BY <1>2, <1>3, <1>5, <1>6, StillKeeps

LEMMA SendDataSends ==
  ASSUME BodiesFit, Turns, SendInv, ~Pipelined => CnnInv, NEW r \in Reqs, NEW n \in 0 .. MaxLen, SendData(r, n)
  PROVE  SendInv'
<1> DEFINE q == req[r]
           v == View
<1>1. PICK res : SendPlain(r, n, res) \/ SendTec(r, n, res)
  BY DEF SendData
<1>2. n \in SendLens(req[r])
  BY DEF SendData
<1>3. /\ q.manual /\ ~q.eos /\ n \in Nat /\ (n = 0 => q.body.te)
      /\ ~q.body.te => q.wcnt + n <= q.body.clen
  BY <1>2, MaxLenAssumption DEF SendLens
<1>4. /\ ~q.strm.hdr /\ DOMAIN req = Reqs /\ Sendable(q) /\ v \in Readers
      /\ ~Lost => r = Cursor
  BY WriterAtCursor DEF SendInv, Bodied
<1>5. ~Lost => SentTo(r, q, v)
  <2> SUFFICES ASSUME ~Lost PROVE SentTo(r, q, v)
    OBVIOUS
  <2>1. Reaches /\ r = Cursor /\ r # 0
    BY <1>4, NReqAssumption DEF SendInv, Reqs
  <2> QED BY <2>1 DEF Reaches
<1>6. q.wcnt \in Int /\ q.buf \in Seq(BodyToks) /\ DOMAIN q = Fields
  BY <1>4 DEF Sendable
<1>7. CASE SendPlain(r, n, res) /\ res # "FAIL"
  <2> DEFINE sent == q.wcnt + n
             over == q.wcnt + n >= q.body.clen
             a == [q EXCEPT !.pause = FALSE, !.wcnt = sent, !.eos = over]
             toks == <<Tok("data", n)>>
             d == ReadAll(v, Packet(r, toks))
  <2>1. ~q.body.te /\ SendPacket(res, r, toks)
    BY <1>7 DEF SendPlain
  <2>2. req' = [req EXCEPT ![r] = a]
    BY <1>4, <1>7 DEF SendPlain
  <2>3. toks \in Seq(AnyToks)
    <3>1. Tok("data", n) \in AnyToks
      BY <1>3 DEF Tok, AnyToks
    <3> QED BY <3>1
  <2>4. sent \in Int /\ over \in BOOLEAN /\ sent = q.wcnt + n
    BY <1>3, <1>6
  <2> HIDE DEF sent, over, q
  <2>5. /\ a.strm = q.strm /\ a.body = q.body /\ a.manual = q.manual /\ a.asked = q.asked /\ a.wcnt = sent
        /\ a.buf = q.buf /\ a.eos = over /\ DOMAIN a = Fields
    BY <1>6 DEF Fields
  <2>6. Sendable(a)
    BY <1>4, <2>4, <2>5 DEF Sendable
  <2> HIDE DEF a
  <2>7. SentTo(r, a, d) \/ Lost
    <3> SUFFICES ASSUME ~Lost PROVE SentTo(r, a, d)
      OBVIOUS
    <3>1. n # 0
      BY <1>3, <2>1
    <3> HIDE DEF v
    <3>2. d = ReadAll(v, Packet(r, <<Tok("data", n)>>)) /\ a.wcnt = q.wcnt + n /\ SentTo(r, q, v)
      BY <1>5, <2>4, <2>5
    <3> HIDE DEF d, toks
    <3> QED BY <1>3, <1>4, <2>1, <2>5, <2>6, <3>1, <3>2, PlainWritten
  <2>8. a.strm = req[r].strm /\ a.asked = req[r].asked /\ d = ReadAll(View, Packet(r, toks))
    BY <2>5 DEF q
  <2> HIDE DEF toks, d, v
  <2> QED BY <1>7, <2>1, <2>2, <2>3, <2>6, <2>7, <2>8, WriteEnds
<1>9. CASE SendPlain(r, n, res) /\ res = "FAIL"
  <2>1. req' = req /\ SendPacket(res, r, <<Tok("data", n)>>)
    BY <1>9 DEF SendPlain
  <2>2. srv' = srv /\ held' = held
    BY <1>9, <2>1, SentIs
  <2>3. sock' \in {sock, "broken"} /\ (sock' = "broken" => sock \in {"writable", "broken"})
    BY <1>9, <2>1 DEF SendPacket
  <2>4. UNCHANGED <<nreq, mIsConnected, mCur, mPipeList, mSendQueList, tx, ret, pc>>
    BY Zenon DEF SendData, pipeVars, txVars
  <2> QED BY <2>1, <2>2, <2>3, <2>4, RefusedSends
<1>8. CASE SendTec(r, n, res)
  <2> DEFINE sent == q.wcnt + n
             over == n = 0
             t == IF n = 0 THEN Tok("last", 0) ELSE Tok("chunk", n)
             toks == Append(q.buf, t)
             none == << >>
             a == [q EXCEPT !.buf = toks, !.eos = over]
             b == [q EXCEPT !.buf = none, !.eos = over, !.pause = FALSE, !.wcnt = sent]
             y == IF res = "FAIL" THEN a ELSE b
             d == ReadAll(v, Packet(r, toks))
  <2>1. q.body.te /\ SendPacket(res, r, toks) /\ req' = [req EXCEPT ![r] = y]
    <3>1. q.body.te /\ SendPacket(res, r, toks)
      BY <1>8 DEF SendTec
    <3>2. CASE res = "FAIL"
      BY <1>4, <1>8, <3>2 DEF SendTec
    <3>3. CASE res # "FAIL"
      BY <1>4, <1>8, <3>3 DEF SendTec
    <3> QED BY <3>1, <3>2, <3>3
  <2>2. t \in BodyToks /\ toks \in Seq(BodyToks) /\ none \in Seq(BodyToks)
    <3>1. t \in BodyToks
      BY <1>3 DEF Tok, BodyToks
    <3> HIDE DEF t
    <3> QED BY <1>6, <3>1
  <2>3. toks \in Seq(AnyToks)
    <3>1. BodyToks \subseteq AnyToks
      BY DEF BodyToks, AnyToks
    <3> HIDE DEF toks
    <3> QED BY <2>2, <3>1
  <2>4. sent \in Int /\ over \in BOOLEAN /\ over = (n = 0) /\ t = (IF n = 0 THEN Tok("last", 0) ELSE Tok("chunk", n))
    BY <1>3, <1>6
  <2>5. toks = Append(q.buf, t) /\ none = << >>
    OBVIOUS
  <2> HIDE DEF sent, over, q, t, toks, none
  <2>6. /\ a.strm = q.strm /\ a.body = q.body /\ a.manual = q.manual /\ a.asked = q.asked /\ a.wcnt = q.wcnt
        /\ a.buf = toks /\ a.eos = over /\ DOMAIN a = Fields
    BY <1>6 DEF Fields
  <2>7. /\ b.strm = q.strm /\ b.body = q.body /\ b.manual = q.manual /\ b.asked = q.asked /\ b.wcnt = sent
        /\ b.buf = none /\ b.eos = over /\ DOMAIN b = Fields
    BY <1>6 DEF Fields
  <2>8. Sendable(a) /\ Sendable(b)
    BY <1>4, <1>6, <2>2, <2>4, <2>6, <2>7 DEF Sendable
  <2> HIDE DEF a, b
  <2>9. Sendable(y) /\ y.strm = q.strm /\ y.asked = q.asked
    BY <2>6, <2>7, <2>8
  <2>10. ~Lost /\ res # "FAIL" => SentTo(r, y, d)
    <3> SUFFICES ASSUME ~Lost, res # "FAIL" PROVE SentTo(r, b, d)
      OBVIOUS
    <3> HIDE DEF v
    <3>1. d = ReadAll(v, Packet(r, Append(q.buf, t))) /\ b.buf = << >> /\ SentTo(r, q, v) /\ b.eos = (n = 0)
      BY <1>5, <2>4, <2>5, <2>7
    <3> HIDE DEF d
    <3> QED BY <1>3, <1>4, <2>1, <2>4, <2>7, <2>8, <3>1, ChunkWritten
  <2>11. ~Lost /\ res = "FAIL" => SentTo(r, y, View)
    <3> SUFFICES ASSUME ~Lost, res = "FAIL" PROVE SentTo(r, a, v)
      OBVIOUS
    <3> HIDE DEF v
    <3>1. PICK u : u = v
      OBVIOUS
    <3>2. a.buf = Append(q.buf, t) /\ SentTo(r, q, v) /\ a.eos = (n = 0)
      BY <1>5, <2>4, <2>5, <2>6
    <3>3. /\ Sendable(q) /\ SentTo(r, q, v) /\ v \in Readers /\ ~q.strm.hdr /\ q.manual /\ ~q.eos /\ q.body.te
          /\ a.strm = q.strm /\ a.body = q.body /\ a.manual = q.manual /\ Sendable(a) /\ n \in Nat
      BY <1>3, <1>4, <2>1, <2>6, <2>8, <3>2
    <3>4. u = v /\ a.buf = Append(q.buf, t) => SentTo(r, a, u)
      BY <2>4, <3>2, <3>3, ChunkWritten
    <3>5. SentTo(r, a, u)
      BY <3>1, <3>2, <3>4
    <3> QED BY <3>1, <3>5
  <2>12. y.strm = req[r].strm /\ y.asked = req[r].asked /\ d = ReadAll(View, Packet(r, toks))
    BY <2>9 DEF q
  <2> HIDE DEF y, d, v
  <2> QED BY <2>1, <2>3, <2>9, <2>10, <2>11, <2>12, WriteEnds
<1> QED BY <1>1, <1>7, <1>8, <1>9

LEMMA SendInit ==
  ASSUME Init
  PROVE  SendInv
<1>1. /\ nreq = 0 /\ req = [r \in Reqs |-> NoReq] /\ mIsConnected = FALSE /\ mCur = None
      /\ mPipeList = << >> /\ mSendQueList = << >> /\ sock = "new" /\ held = << >> /\ srv = Start
      /\ tx = None /\ pc = "idle" /\ ret = "idle"
  BY DEF Init
<1>2. Start \in Readers /\ WholeAt(0, Start)
  <2>1. UpTo(0) = << >>
    BY UpToIs
  <2>2. Start \in Readers
    BY DEF Start, Readers, None
  <2> QED BY <2>1, <2>2 DEF WholeAt, Start
<1>3. View = Start
  BY <1>1, <1>2, ReadNone DEF View
<1>4. Len(mSendQueList) = 0 /\ Len(mPipeList) = 0
  BY <1>1
<1>5. Cursor = 0
  <2>1. nreq = 0
    BY <1>1
  <2> QED BY <1>4, <2>1 DEF Cursor
<1>6. \A r \in Reqs : Sendable(req[r]) /\ ~req[r].asked
  <2>1. NoReq \in ReqVals /\ ~NoReq.asked
    BY NoReqIs DEF NoReq, NewReq
  <2>2. Sendable(NoReq)
    BY <2>1 DEF Sendable, ReqVals, Fields
  <2> QED BY <1>1, <2>1, <2>2
<1>7. Bodied
  BY <1>1, <1>2, <1>3, <1>4, <1>6, NReqAssumption DEF Bodied
<1>8. Control /\ Connecting /\ Asked
  <2>1. Control
    <3>1. /\ nreq = 0 /\ mIsConnected = FALSE /\ mCur = 0 /\ mPipeList = << >> /\ sock = "new"
          /\ tx = 0 /\ pc = "idle" /\ ret = "idle"
      BY <1>1 DEF None
    <3>2. mPipeList \in Seq(Nat) /\ 1 .. Len(mPipeList) = {}
      BY <1>4, <3>1
    <3>3. mCur \in 0 .. nreq /\ tx \in 0 .. nreq
      BY <3>1
    <3>4. mIsConnected \in BOOLEAN /\ sock \in Socks /\ pc \in {"idle", "tx", "under", "read", "end", "crashed"}
          /\ ret \in {"idle", "end"}
      BY <3>1 DEF Socks
    <3>5. tx = None
      BY <3>1 DEF None
    <3> QED BY <3>2, <3>3, <3>4, <3>5 DEF Control
  <2>2. Connecting /\ Asked
    BY <1>1, <1>5, <1>6 DEF Connecting, Asked, None
  <2> QED BY <2>1, <2>2
<1>9. InTurn
  BY <1>2, <1>3, UpToIs DEF InTurn, WholeAt
<1>10. Queue /\ Reaches /\ Behind /\ Rests
  BY <1>1, <1>2, <1>3, <1>5 DEF Queue, Reaches, Behind, Rests, None
<1> QED BY <1>1, <1>7, <1>8, <1>9, <1>10 DEF SendInv

(* The requests are sent in the order in which they were made, each whole     *)
(* before the next, by procRead(), transfer() and NETEV_WRITABLE together:    *)
(* SendInv always holds.                                                      *)
THEOREM SendInvHolds == ASSUME BodiesFit, Turns PROVE Spec => []SendInv
<1>1. Init => SendInv
  BY SendInit
<1>2. SendInv /\ (~Pipelined => CnnInv) /\ [Next]_vars => SendInv'
  <2> SUFFICES ASSUME SendInv, ~Pipelined => CnnInv, [Next]_vars PROVE SendInv'
    OBVIOUS
  <2>1. ASSUME NEW b \in ReqBodies, Request(b) PROVE SendInv'
    BY <2>1, RequestSends
  <2>2. CASE Connected
    BY <2>2, ConnectedSends
  <2>3. CASE TxBlocked \/ TxDone \/ UnderReturns
    BY <2>3, LoopLeft
  <2>4. CASE TxTake
    BY <2>4, TakeSends
  <2>5. ASSUME NEW r \in {"OK", "PENDING", "FAIL"}, TxSend(r) PROVE SendInv'
    BY <2>5, TxSendSends
  <2>6. CASE TxLack
    BY <2>6, LackSends
  <2>7. ASSUME NEW r \in Reqs, NEW n \in 0 .. MaxLen, SendData(r, n) PROVE SendInv'
    BY <2>7, SendDataSends
  <2>8. ASSUME NEW to \in 1 .. Len(inflow), RecvPacket(to) PROVE SendInv'
    BY <2>8, ReadLoopSends
  <2>9. CASE LoopNone \/ EndReturns
    BY <2>9, ReadLoopSends
  <2>10. CASE LoopHdr \/ LoopData
    BY <2>10, LoopSends
  <2>11. CASE Writable
    BY <2>11, WritableSends
  <2>12. CASE Disconnected
    BY <2>12, DisconnectedSends
  <2>13. CASE Flush
    BY <2>13, FlushSends
  <2>14. CASE Close \/ PeerDown \/ UNCHANGED vars
    BY <2>14, PassesBy
  <2>15. ASSUME NEW x \in Resps, Answer(x) PROVE SendInv'
    BY <2>15, PassesBy
  <2> QED BY Zenon, <2>1, <2>2, <2>3, <2>4, <2>5, <2>6, <2>7, <2>8, <2>9, <2>10, <2>11, <2>12, <2>13, <2>14, <2>15
          DEF Next, Tx, Loop
<1>3. CASE ~Pipelined
  <2>1. Spec => []CnnInv
    BY <1>3, CnnInvHolds
  <2>2. SendInv /\ CnnInv /\ [Next]_vars => SendInv'
    BY <1>2
  <2> QED BY <1>1, <2>1, <2>2, PTL DEF Spec
<1>4. CASE Pipelined
  <2>1. SendInv /\ [Next]_vars => SendInv'
    BY <1>2, <1>4
  <2> QED BY <1>1, <2>1, PTL DEF Spec
<1> QED BY <1>3, <1>4

(* The server has the requests in the order of request(), none missing: a     *)
(* request that follows another on the connection, or is made while the other *)
(* is sent, waits until starttx() is done with it.                            *)
THEOREM SentInOrder == ASSUME BodiesFit, Turns PROVE Spec => []RequestsInOrder
<1>1. SendInv => RequestsInOrder
  <2> SUFFICES ASSUME SendInv PROVE RequestsInOrder
    OBVIOUS
  <2>1. View \in Readers /\ View.ok /\ View.whole = UpTo(Len(View.whole))
    BY DEF SendInv, InTurn, Bodied
  <2>2. Len(View.whole) \in Nat
    BY <2>1 DEF Readers
  <2>3. DOMAIN UpTo(Len(View.whole)) = 1 .. Len(View.whole)
        /\ \A i \in 1 .. Len(View.whole) : UpTo(Len(View.whole))[i] = i
    BY DEF UpTo
  <2>4. View.ok /\ \A i \in DOMAIN View.whole : View.whole[i] = i
    BY <2>1, <2>3
  <2> QED BY <2>4 DEF RequestsInOrder, View
<1> QED BY <1>1, SendInvHolds, PTL

(* The connection does not rest with something to send: when no handler runs  *)
(* and the socket takes data, every request made was sent as far as its       *)
(* stream gives, so no NETEV_WRITABLE or sendData() has to start it again.    *)
THEOREM NothingLeftUnsent == ASSUME BodiesFit, Turns PROVE Spec => []NothingUnsent
<1>1. SendInv => NothingUnsent
  <2> SUFFICES ASSUME SendInv, pc = "idle", sock = "writable", NEW r \in 1 .. nreq
               PROVE  Avail(req[r].strm) # "some"
    BY DEF NothingUnsent
  <2>1. ~Lost /\ Bodied /\ Connecting
    BY DEF SendInv, Lost
  <2>2. Queue /\ Behind /\ Rests /\ mIsConnected
    BY <2>1 DEF SendInv, Connecting
  <2>3. Cursor = nreq /\ nreq \in Nat
    BY <2>1, <2>2, CursorIs DEF Queue
  <2>4. CASE r = nreq
    BY <2>2, <2>3, <2>4 DEF Rests
  <2>5. CASE r # nreq
    <3>1. r \in 1 .. Cursor - 1
      BY <2>3, <2>5
    <3> QED BY <2>2, <3>1 DEF Behind
  <2> QED BY <2>4, <2>5
<1> QED BY <1>1, SendInvHolds, PTL

-----------------------------------------------------------------------------
(* What the application was told is sent of a chunked body is what the       *)
(* server has of it.                                                         *)
LEMMA OnceStill ==
  ASSUME OnceInv, nreq' = nreq, View' = View, \A r \in Reqs : SendsLike(req'[r], req[r]), ~Lost' => ~Lost
  PROVE  OnceInv'
<1> SUFFICES ASSUME NEW r \in Reqs
             PROVE  /\ r > nreq' => View'.got[r] = 0
                    /\ r <= nreq' /\ req'[r].manual /\ req'[r].body.te =>
                         View'.got[r] = req'[r].wcnt /\ (~Lost' => req'[r].buf = << >>)
  BY DEF OnceInv
<1>1. req'[r].manual = req[r].manual /\ req'[r].body = req[r].body /\ req'[r].wcnt = req[r].wcnt
      /\ req'[r].buf = req[r].buf
  BY DEF SendsLike
<1>2. /\ r > nreq => View.got[r] = 0
      /\ r <= nreq /\ req[r].manual /\ req[r].body.te => View.got[r] = req[r].wcnt /\ (~Lost => req[r].buf = << >>)
  BY DEF OnceInv
<1> QED BY <1>1, <1>2

LEMMA OnceRest ==
  ASSUME SendInv, OnceInv, UNCHANGED <<nreq, req, srv, held>>, ~Lost' => ~Lost
  PROVE  OnceInv'
<1>1. \A r \in Reqs : SendsLike(req'[r], req[r])
  BY LikeFields DEF SendInv, Bodied, Sendable
<1>2. View' = View
  BY DEF View
<1> QED BY <1>1, <1>2, OnceStill

(* A packet of one request does nothing to the others.                       *)
LEMMA OncePacket ==
  ASSUME SendInv, OnceInv, NEW q \in Reqs, q <= nreq, NEW toks \in Seq(AnyToks), nreq' = nreq, ~Lost' => ~Lost,
         View' \in {View, ReadAll(View, Packet(q, toks))},
         \A k \in Reqs : k # q => req'[k] = req[k],
         req'[q].manual /\ req'[q].body.te => View'.got[q] = req'[q].wcnt /\ (~Lost' => req'[q].buf = << >>)
  PROVE  OnceInv'
<1> SUFFICES ASSUME NEW r \in Reqs
             PROVE  /\ r > nreq' => View'.got[r] = 0
                    /\ r <= nreq' /\ req'[r].manual /\ req'[r].body.te =>
                         View'.got[r] = req'[r].wcnt /\ (~Lost' => req'[r].buf = << >>)
  BY DEF OnceInv
<1>1. CASE r = q
  <2>1. ~(r > nreq')
    BY <1>1, NReqAssumption DEF SendInv, Bodied, Reqs
  <2> QED BY <1>1, <2>1
<1>2. CASE r # q
  <2>1. View \in Readers
    BY DEF SendInv, Bodied
  <2>2. View'.got[r] = View.got[r]
    <3> DEFINE v == View
    <3> HIDE DEF v
    <3>1. v \in Readers
      BY <2>1 DEF v
    <3>2. ReadAll(v, Packet(q, toks)).got[r] = v.got[r]
      BY <1>2, <3>1, OthersStay
    <3> QED BY <3>2 DEF v
  <2>3. /\ r > nreq => View.got[r] = 0
        /\ r <= nreq /\ req[r].manual /\ req[r].body.te => View.got[r] = req[r].wcnt /\ (~Lost => req[r].buf = << >>)
    BY DEF OnceInv
  <2> QED BY <1>2, <2>2, <2>3
<1> QED BY <1>1, <1>2

LEMMA OnceRequest ==
  ASSUME SendInv, OnceInv, NEW b \in ReqBodies, Request(b)
  PROVE  OnceInv'
<1> DEFINE n == nreq + 1
           q == NewReq(b)
<1>1. /\ nreq < NReq /\ sock # "shut" /\ nreq' = n /\ req' = [req EXCEPT ![n] = q]
      /\ (sock = "closed" => ~mIsConnected' \/ sock' = sock)
      /\ UNCHANGED <<mIsConnected, held, srv>>
      /\ sock' = IF mIsConnected THEN sock ELSE "connecting"
  BY DEF Request
<1>2. View' = View
  BY <1>1 DEF View
<1>3. Bodied /\ Connecting
  BY DEF SendInv
<1>4. nreq \in Nat /\ NReq \in Nat /\ n \in Reqs
  BY <1>1, <1>3, NReqAssumption DEF Bodied, Reqs
<1>5. ~Lost' => ~Lost
  BY <1>1, <1>3 DEF Lost, Connecting
<1>6. q.wcnt = 0 /\ q.buf = << >>
  BY NewReqSends DEF Untouched
<1>7. req'[n] = q /\ \A k \in Reqs : k # n => req'[k] = req[k]
  BY <1>1, <1>3, <1>4 DEF Bodied
<1> HIDE DEF q
<1> SUFFICES ASSUME NEW r \in Reqs
             PROVE  /\ r > nreq' => View'.got[r] = 0
                    /\ r <= nreq' /\ req'[r].manual /\ req'[r].body.te =>
                         View'.got[r] = req'[r].wcnt /\ (~Lost' => req'[r].buf = << >>)
  BY DEF OnceInv
<1>8. /\ r > nreq => View.got[r] = 0
      /\ r <= nreq /\ req[r].manual /\ req[r].body.te => View.got[r] = req[r].wcnt /\ (~Lost => req[r].buf = << >>)
  BY DEF OnceInv
<1>9. r \in Nat /\ nreq' = nreq + 1
  BY <1>1 DEF Reqs
<1>10. CASE r = n
  BY <1>2, <1>4, <1>6, <1>7, <1>8, <1>9, <1>10
<1>11. CASE r # n
  BY <1>2, <1>4, <1>5, <1>7, <1>8, <1>9, <1>11
<1> QED BY <1>10, <1>11

LEMMA OnceTxSend ==
  ASSUME BodiesFit, Turns, SendInv, OnceInv, NEW res, TxSend(res)
  PROVE  OnceInv'
<1> DEFINE x == req[tx]
           s == Prepared(x.strm)
           u == Consumed(s)
           left == [x EXCEPT !.strm = s]
           gone == [x EXCEPT !.strm = u]
           y == IF res = "FAIL" THEN Ended(left, -1) ELSE gone
           toks == Offered(s)
<1>1. /\ pc = "tx" /\ tx # None /\ sock \in {"writable", "broken"} /\ Avail(x.strm) = "some"
      /\ SendPacket(res, tx, toks) /\ nreq' = nreq /\ mIsConnected' = mIsConnected
  BY DEF TxSend, IsWritable
<1>2. Bodied /\ Control
  BY DEF SendInv
<1>3. tx \in Reqs /\ DOMAIN req = Reqs /\ Sendable(x) /\ tx <= nreq /\ DOMAIN x = Fields /\ x.strm \in StrmVals
  <2>1. tx \in Reqs /\ tx <= nreq
    BY <1>1, <1>2, NReqAssumption DEF Control, Bodied, Reqs, None
  <2> QED BY <1>2, <2>1 DEF Bodied, Sendable
<1>4. req' = [req EXCEPT ![tx] = y]
  BY <1>3 DEF TxSend
<1>5. s \in StrmVals /\ u \in StrmVals
  <2> HIDE DEF x
  <2>1. s \in StrmVals
    BY <1>3, PreparedIs
  <2> HIDE DEF s
  <2> QED BY <2>1, OfferedIs
<1>6. u = Consumed(s) /\ s = Prepared(x.strm) /\ toks = Offered(s)
  OBVIOUS
<1> HIDE DEF s, u, toks
<1>7. OnlyStrm(gone, x, u) /\ OnlyStrm(left, x, s)
  <2> HIDE DEF x
  <2> QED BY <1>3, <1>5, StrmGets
<1> HIDE DEF left, gone
<1>8. y.manual = x.manual /\ y.body = x.body /\ y.wcnt = x.wcnt /\ y.buf = x.buf
  <2>1. DOMAIN left = Fields
    BY <1>7 DEF OnlyStrm, Sendable
  <2>2. SendsLike(Ended(left, -1), left)
    BY <2>1, LikeFields
  <2>3. Ended(left, -1).manual = left.manual /\ Ended(left, -1).body = left.body
        /\ Ended(left, -1).wcnt = left.wcnt /\ Ended(left, -1).buf = left.buf
    BY <2>2 DEF SendsLike
  <2> HIDE DEF x
  <2> QED BY <1>7, <2>3 DEF OnlyStrm
<1>9. req'[tx] = y /\ \A k \in Reqs : k # tx => req'[k] = req[k]
  BY <1>3, <1>4
<1> HIDE DEF y
<1>10. sock' \in {"broken", sock, "pending"} /\ (sock' = "pending" => sock = "writable")
  BY <1>1 DEF SendPacket, SendResults
<1>11. ~Lost' => ~Lost
  BY <1>1, <1>10 DEF Lost
<1>12. x.manual /\ x.body.te => View.got[tx] = x.wcnt /\ (~Lost => x.buf = << >>)
  BY <1>3 DEF OnceInv
<1>13. CASE res = "FAIL"
  <2>1. View' = View
    <3>1. srv' = srv /\ held' = held
      BY <1>1, <1>13, SentIs
    <3> QED BY <3>1 DEF View
  <2>2. << >> \in Seq(AnyToks)
    OBVIOUS
  <2> HIDE DEF x
  <2> QED BY <1>1, <1>3, <1>8, <1>9, <1>11, <1>12, <2>1, <2>2, OncePacket
<1>14. CASE res # "FAIL"
  <2>1. sock = "writable"
    BY <1>1, <1>14 DEF SendPacket, SendResults
  <2>2. ~Lost /\ Queue /\ Reaches /\ Behind
    BY <2>1 DEF SendInv, Lost, Queue
  <2>3. srv \in Readers /\ View \in Readers /\ held = << >>
    BY <1>2, <2>1, <2>2 DEF Bodied, Queue
  <2>4. tx = Cursor
    <3>1. tx <= Cursor /\ Cursor \in Nat /\ tx \in Nat /\ tx >= 1
      BY <1>2, <1>3, <2>2, CursorIs, NReqAssumption DEF Queue, Reqs, Bodied
    <3>2. CASE tx < Cursor
      <4>1. tx \in 1 .. Cursor - 1
        BY <3>1, <3>2
      <4> QED BY <1>1, <2>2, <4>1 DEF Behind
    <3> QED BY <3>1, <3>2
  <2>5. SentTo(tx, x, View)
    BY <1>3, <2>2, <2>4 DEF Reaches, Reqs
  <2> DEFINE v == View
             d == ReadAll(v, Packet(tx, toks))
  <2>6. v \in Readers /\ SentTo(tx, x, v) /\ d = ReadAll(v, Packet(tx, Offered(s)))
    BY <1>6, <2>3, <2>5
  <2>7. toks \in Seq(AnyToks) /\ (x.manual => d.got = v.got)
    <3> HIDE DEF x, d, v
    <3> QED BY <1>1, <1>3, <1>6, <1>7, <2>6, StrmSends
  <2>8. View' = d
    BY <1>1, <1>3, <1>14, <2>1, <2>3, <2>7, PacketLeaves
  <2> HIDE DEF x
  <2>9. req'[tx].manual /\ req'[tx].body.te => View'.got[tx] = req'[tx].wcnt /\ (~Lost' => req'[tx].buf = << >>)
    BY <1>8, <1>9, <1>11, <1>12, <2>7, <2>8
  <2>10. View' \in {View, ReadAll(View, Packet(tx, toks))}
    BY <2>8
  <2> HIDE DEF v, d
  <2> QED BY <1>1, <1>3, <1>9, <1>11, <2>7, <2>9, <2>10, OncePacket
<1> QED BY <1>13, <1>14

LEMMA OnceSendData ==
  ASSUME BodiesFit, Turns, ~SendBusy, SendInv, OnceInv, ~Pipelined => CnnInv,
         NEW r \in Reqs, NEW n \in 0 .. MaxLen, SendData(r, n)
  PROVE  OnceInv'
<1> DEFINE q == req[r]
           v == View
<1>1. PICK res : SendPlain(r, n, res) \/ SendTec(r, n, res)
  BY DEF SendData
<1>2. sock = "writable" /\ n \in SendLens(req[r]) /\ nreq' = nreq
  BY DEF SendData
<1>3. q.manual /\ ~q.eos /\ n \in Nat
  BY <1>2, MaxLenAssumption DEF SendLens
<1>4. ~Lost /\ Queue /\ Reaches
  BY <1>2 DEF SendInv, Lost, Queue
<1>5. /\ r \in 1 .. nreq /\ r = Cursor /\ ~q.strm.hdr /\ DOMAIN req = Reqs /\ Sendable(q) /\ v \in Readers
      /\ srv \in Readers /\ r # 0 /\ held = << >>
  BY <1>2, <1>4, WriterAtCursor, NReqAssumption DEF SendInv, Bodied, Queue, Reqs
<1>6. SentTo(r, q, v)
  BY <1>4, <1>5 DEF Reaches
<1>7. q.wcnt \in Int /\ q.buf \in Seq(BodyToks) /\ DOMAIN q = Fields /\ r <= nreq
  BY <1>5 DEF Sendable
<1>8. ~Lost' => ~Lost
  BY <1>4
<1>9. q.body.te => v.got[r] = q.wcnt /\ q.buf = << >>
  BY <1>3, <1>4, <1>7 DEF OnceInv
<1>10. CASE SendPlain(r, n, res)
  <2> DEFINE toks == <<Tok("data", n)>>
             sent == q.wcnt + n
             over == q.wcnt + n >= q.body.clen
             a == [q EXCEPT !.pause = FALSE, !.wcnt = sent, !.eos = over]
  <2>1. ~q.body.te /\ SendPacket(res, r, toks)
    BY <1>10 DEF SendPlain
  <2>2. toks \in Seq(AnyToks)
    <3>1. Tok("data", n) \in AnyToks
      BY <1>3 DEF Tok, AnyToks
    <3> QED BY <3>1
  <2>3. req' = req \/ req' = [req EXCEPT ![r] = a]
    BY <1>5, <1>10 DEF SendPlain
  <2> HIDE DEF sent, over, toks, q
  <2>4. a.body = q.body
    BY <1>7 DEF Fields
  <2> HIDE DEF a
  <2>5. req'[r].body = q.body /\ \A k \in Reqs : k # r => req'[k] = req[k]
    BY <1>5, <2>3, <2>4 DEF q
  <2>6. View' \in {View, ReadAll(View, Packet(r, toks))}
    <3>1. CASE res = "FAIL"
      <4>1. srv' = srv /\ held' = held
        BY <2>1, <3>1, SentIs
      <4> QED BY <4>1 DEF View
    <3>2. CASE res # "FAIL"
      BY <1>5, <2>1, <2>2, <3>2, PacketLeaves
    <3> QED BY <3>1, <3>2
  <2>7. ~req'[r].body.te
    BY <2>1, <2>5
  <2> HIDE DEF v
  <2> QED BY <1>2, <1>7, <1>8, <2>2, <2>5, <2>6, <2>7, OncePacket
<1>11. CASE SendTec(r, n, res)
  <2> DEFINE sent == q.wcnt + n
             over == n = 0
             t == IF n = 0 THEN Tok("last", 0) ELSE Tok("chunk", n)
             toks == Append(q.buf, t)
             none == << >>
             a == [q EXCEPT !.buf = toks, !.eos = over]
             b == [q EXCEPT !.buf = none, !.eos = over, !.pause = FALSE, !.wcnt = sent]
             y == IF res = "FAIL" THEN a ELSE b
  <2>1. q.body.te /\ SendPacket(res, r, toks) /\ req' = [req EXCEPT ![r] = y]
    <3>1. q.body.te /\ SendPacket(res, r, toks)
      BY <1>11 DEF SendTec
    <3>2. CASE res = "FAIL"
      BY <1>5, <1>11, <3>2 DEF SendTec
    <3>3. CASE res # "FAIL"
      BY <1>5, <1>11, <3>3 DEF SendTec
    <3> QED BY <3>1, <3>2, <3>3
  <2>2. t \in BodyToks /\ toks \in Seq(BodyToks) /\ none \in Seq(BodyToks) /\ none = << >>
    <3>1. t \in BodyToks
      BY <1>3 DEF Tok, BodyToks
    <3> HIDE DEF t
    <3> QED BY <1>7, <3>1
  <2>3. toks \in Seq(AnyToks)
    <3>1. BodyToks \subseteq AnyToks
      BY DEF BodyToks, AnyToks
    <3> HIDE DEF toks
    <3> QED BY <2>2, <3>1
  <2>4. sent \in Int /\ over \in BOOLEAN /\ over = (n = 0) /\ t = (IF n = 0 THEN Tok("last", 0) ELSE Tok("chunk", n))
        /\ sent = q.wcnt + n /\ toks = Append(q.buf, t)
    BY <1>3, <1>7
  <2> HIDE DEF sent, over, q, t, toks, none
  <2>5. a.wcnt = q.wcnt
    BY <1>7 DEF Fields
  <2>6. /\ b.strm = q.strm /\ b.body = q.body /\ b.manual = q.manual /\ b.wcnt = sent
        /\ b.buf = none /\ b.eos = over /\ DOMAIN b = Fields
    BY <1>7 DEF Fields
  <2>7. Sendable(b)
    BY <1>5, <1>7, <2>2, <2>4, <2>6 DEF Sendable
  <2> HIDE DEF a, b
  <2>8. req'[r] = y /\ \A k \in Reqs : k # r => req'[k] = req[k]
    BY <1>5, <2>1
  <2>9. CASE res = "FAIL"
    <3>1. srv' = srv /\ held' = held /\ sock' = "broken"
      <4>1. srv' = srv /\ held' = held
        BY <2>1, <2>9, SentIs
      <4> QED BY <1>2, <2>1, <2>9, <4>1 DEF SendPacket
    <3>2. View' = View /\ Lost'
      BY <3>1 DEF View, Lost
    <3>3. View'.got[r] = req'[r].wcnt
      BY <1>9, <2>1, <2>5, <2>8, <2>9, <3>2
    <3> HIDE DEF v
    <3> QED BY <1>2, <1>7, <1>8, <2>3, <2>8, <3>2, <3>3, OncePacket
  <2>10. CASE res # "FAIL"
    <3> DEFINE d == ReadAll(v, Packet(r, toks))
    <3>1. View' = d
      BY <1>2, <1>5, <2>1, <2>3, <2>10, PacketLeaves
    <3>2. d.got[r] = v.got[r] + n
      <4> HIDE DEF v
      <4>1. BodyAt(r, ChunkedLen, v) /\ q.buf \in Seq(ChunkToks)
        BY <1>3, <1>5, <1>6, <2>1, WritesBody
      <4> DEFINE w == q.buf
      <4>2. w \in Seq(ChunkToks) /\ d = ReadAll(v, Packet(r, Append(w, t))) /\ w = << >> /\ v \in Readers
        BY <1>5, <1>9, <2>1, <2>4, <4>1
      <4> HIDE DEF d, w
      <4>3. n \in Nat /\ t = (IF n = 0 THEN Tok("last", 0) ELSE Tok("chunk", n)) /\ BodyAt(r, ChunkedLen, v)
            /\ v \in Readers /\ w \in Seq(ChunkToks) /\ d = ReadAll(v, Packet(r, Append(w, t)))
        BY <1>3, <2>4, <4>1, <4>2
      <4>4. /\ d \in Readers
            /\ IF n = 0 THEN WholeAt(r, d) ELSE BodyAt(r, ChunkedLen, d)
            /\ w = << >> => d.got[r] = v.got[r] + n
        BY <4>3, BufferedRead
      <4> QED BY <4>2, <4>4
    <3>3. View'.got[r] = req'[r].wcnt /\ req'[r].buf = << >>
      BY <1>9, <2>1, <2>2, <2>4, <2>6, <2>8, <2>10, <3>1, <3>2
    <3>4. View' \in {View, ReadAll(View, Packet(r, toks))}
      BY <3>1
    <3> HIDE DEF v, d
    <3> QED BY <1>2, <1>7, <1>8, <2>3, <2>8, <3>3, <3>4, OncePacket
  <2> QED BY <2>9, <2>10
<1> QED BY <1>1, <1>10, <1>11

LEMMA OnceInit ==
  ASSUME Init
  PROVE  OnceInv
<1>1. nreq = 0 /\ held = << >> /\ srv = Start
  BY DEF Init
<1>2. Start \in Readers
  BY DEF Start, Readers, None
<1>3. View = Start
  BY <1>1, <1>2, ReadNone DEF View
<1>4. \A r \in Reqs : Start.got[r] = 0 /\ ~(r <= 0)
  BY NReqAssumption DEF Start, Reqs
<1> QED BY <1>1, <1>3, <1>4 DEF OnceInv

LEMMA OnceKeeps ==
  ASSUME BodiesFit, Turns, ~SendBusy, SendInv, OnceInv, ~Pipelined => CnnInv, [Next]_vars
  PROVE  OnceInv'
<1>1. ASSUME NEW b \in ReqBodies, Request(b) PROVE OnceInv'
  BY <1>1, OnceRequest
<1>2. CASE Connected
  <2>1. UNCHANGED <<nreq, req, srv, held>> /\ sock = "connecting"
    BY <1>2 DEF Connected, reqVars
  <2>2. ~Lost
    BY <2>1 DEF Lost
  <2> QED BY <2>1, <2>2, OnceRest
<1>3. CASE TxTake \/ TxBlocked \/ TxDone \/ UnderReturns
  <2>1. UNCHANGED <<nreq, req, srv, held, sock, mIsConnected>>
    BY Zenon, <1>3 DEF TxTake, TxBlocked, TxDone, UnderReturns, reqVars, sockVars
  <2>2. ~Lost' => ~Lost
    BY <2>1 DEF Lost
  <2> QED BY <2>1, <2>2, OnceRest
<1>4. ASSUME NEW res \in {"OK", "PENDING", "FAIL"}, TxSend(res) PROVE OnceInv'
  BY <1>4, OnceTxSend
<1>5. CASE TxLack \/ LoopHdr \/ LoopData \/ Disconnected
  <2>1. Still /\ (~Lost' => ~Lost)
    BY <1>5, LackSends, LoopSends, DisconnectedSends
  <2>2. nreq' = nreq /\ View' = View /\ \A r \in Reqs : SendsLike(req'[r], req[r])
    BY <2>1, StillIs DEF Still
  <2> QED BY <2>1, <2>2, OnceStill
<1>6. ASSUME NEW r \in Reqs, NEW n \in 0 .. MaxLen, SendData(r, n) PROVE OnceInv'
  BY <1>6, OnceSendData
<1>7. ASSUME NEW to \in 1 .. Len(inflow), RecvPacket(to) PROVE OnceInv'
  <2>1. UNCHANGED <<nreq, req, srv, held, sock, mIsConnected>>
    BY Zenon, <1>7 DEF RecvPacket, reqVars, sockVars
  <2>2. ~Lost' => ~Lost
    BY <2>1 DEF Lost
  <2> QED BY <2>1, <2>2, OnceRest
<1>8. CASE LoopNone \/ EndReturns \/ PeerDown
  <2>1. UNCHANGED <<nreq, req, srv, held, sock, mIsConnected>>
    BY Zenon, <1>8 DEF LoopNone, EndReturns, PeerDown, reqVars, sockVars
  <2>2. ~Lost' => ~Lost
    BY <2>1 DEF Lost
  <2> QED BY <2>1, <2>2, OnceRest
<1>9. CASE Writable
  <2>1. UNCHANGED <<nreq, req, srv, held>> /\ sock = "drained"
    BY <1>9 DEF Writable, reqVars
  <2>2. ~Lost
    BY <2>1 DEF Lost
  <2> QED BY <2>1, <2>2, OnceRest
<1>10. CASE Close
  <2>1. UNCHANGED <<nreq, req, srv, held>> /\ sock' = "shut"
    BY <1>10 DEF Close, reqVars
  <2>2. ~Lost' => ~Lost
    BY <2>1 DEF Lost
  <2> QED BY <2>1, <2>2, OnceRest
<1>11. CASE Flush
  <2>1. /\ sock = "pending" /\ srv' = View /\ held' = << >> /\ nreq' = nreq /\ req' = req
    BY <1>11 DEF Flush, View, reqVars
  <2>2. View \in Readers /\ View' = ReadAll(srv', held')
    BY DEF SendInv, Bodied, View
  <2>3. ReadAll(View, << >>) = View
    BY <2>2, ReadNone
  <2> HIDE DEF View
  <2>4. View' = View /\ ~Lost
    BY <2>1, <2>2, <2>3 DEF Lost
  <2>5. \A r \in Reqs : SendsLike(req'[r], req[r])
    BY <2>1, LikeFields DEF SendInv, Bodied, Sendable
  <2> QED BY <2>1, <2>4, <2>5, OnceStill
<1>12. ASSUME NEW x \in Resps, Answer(x) PROVE OnceInv'
  <2>1. UNCHANGED <<nreq, req, srv, held, sock, mIsConnected>>
    BY Zenon, <1>12 DEF Answer, reqVars, sockVars
  <2>2. ~Lost' => ~Lost
    BY <2>1 DEF Lost
  <2> QED BY <2>1, <2>2, OnceRest
<1>13. CASE UNCHANGED vars
  <2>1. UNCHANGED <<nreq, req, srv, held, sock, mIsConnected>>
    BY Zenon, <1>13 DEF vars
  <2>2. ~Lost' => ~Lost
    BY <2>1 DEF Lost
  <2> QED BY <2>1, <2>2, OnceRest
<1> QED BY Zenon, <1>1, <1>2, <1>3, <1>4, <1>5, <1>6, <1>7, <1>8, <1>9, <1>10, <1>11, <1>12, <1>13
        DEF Next, Tx, Loop

(* Of a chunked body the server has, or will when the queued packet goes,     *)
(* exactly the units sendData() told the application it took: none twice out  *)
(* of mChunkedBuf, none lost.  With SendBusy it is false: what a busy socket  *)
(* refuses is both kept and offered again.                                    *)
THEOREM ChunksArriveOnce == ASSUME BodiesFit, Turns, ~SendBusy PROVE Spec => []BodySentOnce
<1>1. Init => OnceInv
  BY OnceInit
<1>2. SendInv /\ OnceInv /\ (~Pipelined => CnnInv) /\ [Next]_vars => OnceInv'
  BY OnceKeeps
<1>3. SendInv /\ OnceInv => BodySentOnce
  <2> SUFFICES ASSUME SendInv, OnceInv, NEW r \in 1 .. nreq, req[r].manual, req[r].body.te
               PROVE  View.got[r] = req[r].wcnt
    BY DEF BodySentOnce, View
  <2>1. r \in Reqs /\ r <= nreq
    BY NReqAssumption DEF SendInv, Bodied, Reqs
  <2> QED BY <2>1 DEF OnceInv
<1>4. Spec => []SendInv
  BY SendInvHolds
<1>5. CASE ~Pipelined
  <2>1. Spec => []CnnInv
    BY <1>5, CnnInvHolds
  <2>2. SendInv /\ OnceInv /\ CnnInv /\ [Next]_vars => OnceInv'
    BY <1>2
  <2> QED BY <1>1, <1>3, <1>4, <2>1, <2>2, PTL DEF Spec
<1>6. CASE Pipelined
  <2>1. SendInv /\ OnceInv /\ [Next]_vars => OnceInv'
    BY <1>2, <1>6
  <2> QED BY <1>1, <1>3, <1>4, <2>1, PTL DEF Spec
<1> QED BY <1>5, <1>6
=============================================================================
