-------------------------- MODULE ServReadProofs --------------------------
(* What ServRead promises, for every number of requests, every length of     *)
(* body and every packet the flags allow.                                    *)
(*                                                                           *)
(* ReadInv is the inductive invariant: where in which request the received   *)
(* bytes end (At), what the assembler then holds (FrameAt of FrameLemmas),   *)
(* and how the controllers stand to it.                                      *)
EXTENDS ServRead, FrameLemmas

(* Every controller but the one that receives a body was told of its end.    *)
Told == mReqCtrl \in {NoCtrl, nctrl} /\ done = (1 .. nctrl) \ {mReqCtrl}

Handed ==
  /\ got \in [Reqs -> Seq(Nat)]
  /\ \A r \in Reqs : /\ AllOf(got[r], r)
                     /\ r \in done => Len(got[r]) = reqs[r].units
                     /\ r > nctrl => got[r] = << >>

(* The controller that receives a body is that of the request whose header   *)
(* was fetched last, and it was given what the assembler counts; without     *)
(* one, that request was received and given to its end.                      *)
Busy(c, k) ==
  /\ mReqCtrl # NoCtrl =>
       /\ Taken(f, c, nctrl) /\ nctrl \in Reqs
       /\ Len(got[nctrl]) = Given(f)
       /\ f.list = << >> => "data" \in f.stat
  /\ mReqCtrl = NoCtrl /\ Taken(f, c, nctrl) => Finished(f, reqs, c, k)

(* Between packets nothing waits in the assembler, and no controller for the *)
(* end of a request that was received.  The loop of procRead() never finds   *)
(* data after the end of a chunked request.                                  *)
Paused(c, k) ==
  /\ pc \in {"idle", "loop"}
  /\ pc = "idle" => /\ AtRest(f, c, k, nctrl)
                    /\ c \in Reqs /\ k = Length(reqs[c]) => mReqCtrl = NoCtrl
  /\ pc = "loop" => ~(/\ Taken(f, c, nctrl) /\ f.list = << >>
                      /\ mReqCtrl = NoCtrl /\ "data" \in f.stat)

Stand(off, c, k) ==
  /\ Laid(stream, reqs, NReq, off) /\ At(reqs, NReq, off, pos, c, k)
  /\ FrameAt(f, reqs, c, k, nctrl)
  /\ Busy(c, k) /\ Paused(c, k)

ReadInv ==
  /\ stream \in Seq(TokenVals) /\ asserted = {}
  /\ Told /\ Handed
  /\ \E off, c, k : Stand(off, c, k)

-----------------------------------------------------------------------------
(* The stream the peer sends is the requests laid end to end.                *)
Join(s, t) == s \o t
Flattens(seqs, v) == v[1] = seqs[1] /\ \A i \in 2 .. Len(seqs) : v[i] = Join(v[i - 1], seqs[i])

LEMMA FlattenIs ==
  ASSUME NEW seqs, Len(seqs) \in Nat \ {0}
  PROVE  \E v : Flattens(seqs, v) /\ FlattenSeq(seqs) = v[Len(seqs)]
<1> DEFINE n == Len(seqs)
           P(h) == h = [i \in 1 .. n |-> IF i = 1 THEN seqs[i] ELSE Join(h[i - 1], seqs[i])]
           flat == CHOOSE h : P(h)
           Upto(k, h) == h[1] = seqs[1] /\ \A i \in 2 .. k : h[i] = Join(h[i - 1], seqs[i])
           T == {k \in Nat : k <= n => \E h : Upto(k, h)}
<1>1. T = Nat
  <2>1. 0 \in T
    <3>1. Upto(0, [i \in 1 .. 1 |-> seqs[1]])
      OBVIOUS
    <3> QED BY <3>1
  <2>2. ASSUME NEW k \in T PROVE k + 1 \in T
    <3> SUFFICES ASSUME k + 1 <= n PROVE \E h : Upto(k + 1, h)
      OBVIOUS
    <3>1. PICK h : Upto(k, h)
      OBVIOUS
    <3> DEFINE x == [i \in 1 .. k + 1 |->
                       IF i = 1 THEN seqs[1] ELSE IF i = k + 1 THEN Join(h[k], seqs[k + 1]) ELSE h[i]]
    <3>2. k \in Nat /\ x[1] = seqs[1] /\ (k >= 1 => x[k] = h[k] /\ x[k + 1] = Join(h[k], seqs[k + 1]))
      BY <3>1
    <3>3. ASSUME NEW i \in 2 .. k PROVE x[i] = Join(x[i - 1], seqs[i])
      <4>1. x[i] = h[i] /\ x[i - 1] = h[i - 1]
        BY <3>1, <3>2
      <4> QED BY <3>1, <4>1
    <3>4. \A i \in 2 .. k + 1 : (i = k + 1 /\ k >= 1) \/ i \in 2 .. k
      BY <3>2
    <3>5. k + 1 - 1 = k
      BY <3>2
    <3>6. Upto(k + 1, x)
      <4> HIDE DEF x
      <4> QED BY <3>2, <3>3, <3>4, <3>5
    <3> QED BY <3>6
  <2> HIDE DEF T
  <2>3. T \in SUBSET Nat
    BY DEF T
  <2> QED BY <2>1, <2>2, <2>3, NatSetInduction
<1>2. PICK h : Upto(n, h)
  BY <1>1
<1> DEFINE g == [i \in 1 .. n |-> h[i]]
<1>3. P(g)
  <2>1. ASSUME NEW i \in 1 .. n PROVE g[i] = IF i = 1 THEN seqs[i] ELSE Join(g[i - 1], seqs[i])
    <3>1. CASE i = 1
      BY <1>2, <3>1
    <3>2. CASE i # 1
      <4>1. i \in 2 .. n /\ i - 1 \in 1 .. n
        BY <3>2
      <4>2. g[i] = h[i] /\ g[i - 1] = h[i - 1]
        BY <4>1
      <4>3. h[i] = Join(h[i - 1], seqs[i])
        BY <1>2, <4>1
      <4> HIDE DEF g
      <4> QED BY <3>2, <4>2, <4>3
    <3> QED BY <3>1, <3>2
  <2> QED BY <2>1
<1>4. P(flat)
  <2> HIDE DEF P, g
  <2> QED BY <1>3
<1>5. FlattenSeq(seqs) = flat[n]
  <2>1. n # 0
    OBVIOUS
  <2> QED BY <2>1, Zenon DEF FlattenSeq, Join
<1> HIDE DEF flat
<1>6. Flattens(seqs, flat)
  <2>1. flat[1] = seqs[1]
    <3>1. 1 \in 1 .. n
      OBVIOUS
    <3> QED BY <1>4, <3>1
  <2>2. ASSUME NEW i \in 2 .. n PROVE flat[i] = Join(flat[i - 1], seqs[i])
    <3>1. i \in 1 .. n /\ i # 1
      OBVIOUS
    <3> QED BY <1>4, <3>1
  <2> QED BY <2>1, <2>2 DEF Flattens
<1> QED BY <1>5, <1>6

LEMMA ReqsAre == Init => reqs \in [Reqs -> Msgs]
<1> SUFFICES ASSUME Init PROVE reqs \in [Reqs -> Msgs]
  OBVIOUS
<1>1. Requests \subseteq Msgs
  BY LensAssumption DEF Requests, Msgs, ChunkedBody
<1> QED BY <1>1 DEF Init

LEMMA StreamLaid ==
  ASSUME Init
  PROVE  stream \in Seq(TokenVals) /\ \E off : Laid(stream, reqs, NReq, off)
<1> DEFINE seqs == [c \in Reqs |-> MsgTokens(c, reqs[c].clen, reqs[c].units)]
<1>1. Len(seqs) = NReq /\ NReq \in Nat \ {0} /\ \A c \in Reqs : reqs[c] \in Msgs
  BY NReqAssumption, ReqsAre DEF Reqs
<1>2. \A c \in Reqs : seqs[c] = MsgTokens(c, reqs[c].clen, reqs[c].units)
  OBVIOUS
<1>3. PICK more \in {<< >>, <<MsgTokens(NReq + 1, 0, 0)[1]>>} : stream = FlattenSeq(seqs) \o more
  BY DEF Init
<1> HIDE DEF seqs
<1>4. PICK v : Flattens(seqs, v) /\ FlattenSeq(seqs) = v[NReq]
  BY <1>1, FlattenIs
<1> DEFINE w(n) == IF n = 0 THEN << >> ELSE v[n]
           P(n) == LaidWhole(w(n), reqs, n)
           T == {n \in Nat : n <= NReq => P(n)}
<1>5. T = Nat
  <2>1. 0 \in T
    <3> DEFINE off == [c \in 1 .. 1 |-> 0]
    <3>1. w(0) = << >> /\ w(0) \in Seq(TokenVals) /\ Len(w(0)) = 0
      BY EmptySeq
    <3>2. off \in [1 .. 0 + 1 -> Nat] /\ off[1] = 0 /\ off[0 + 1] = 0 /\ \A c \in 1 .. 0 : FALSE
      OBVIOUS
    <3> HIDE DEF off, w
    <3>3. Laid(w(0), reqs, 0, off) /\ Len(w(0)) = off[0 + 1]
      BY <3>1, <3>2 DEF Laid
    <3>4. P(0)
      BY <3>1, <3>3 DEF LaidWhole
    <3> QED BY <3>4
  <2>2. ASSUME NEW n \in T PROVE n + 1 \in T
    <3> SUFFICES ASSUME n + 1 <= NReq PROVE P(n + 1)
      OBVIOUS
    <3>1. n \in Nat /\ n + 1 \in Reqs /\ n <= NReq
      BY <1>1 DEF Reqs
    <3>2. P(n)
      BY <3>1
    <3> HIDE DEF T
    <3> DEFINE t == MsgTokens(n + 1, reqs[n + 1].clen, reqs[n + 1].units)
    <3>3. w(n + 1) = w(n) \o t
      <4>1. CASE n = 0
        <5>1. w(n + 1) = seqs[1] /\ w(n) = << >>
          BY <1>4, <4>1 DEF Flattens
        <5>2. seqs[1] = t /\ t \in Seq(TokenVals)
          BY <1>1, <1>2, <3>1, <4>1, TokensAre
        <5> HIDE DEF t, w
        <5>3. << >> \o t = t
          BY <5>2, ConcatEmptySeq
        <5> QED BY <5>1, <5>2, <5>3
      <4>2. CASE n # 0
        <5>1. n + 1 \in 2 .. Len(seqs) /\ n + 1 - 1 = n /\ n + 1 # 0
          BY <1>1, <3>1, <4>2
        <5>2. w(n + 1) = v[n + 1] /\ w(n) = v[n]
          BY <4>2, <5>1
        <5>3. v[n + 1] = v[n] \o seqs[n + 1]
          <6> DEFINE j == n + 1
          <6>1. j \in 2 .. Len(seqs) /\ j - 1 = n
            BY <1>1, <3>1, <4>2
          <6> HIDE DEF j
          <6>2. v[j] = Join(v[j - 1], seqs[j])
            BY <1>4, <6>1 DEF Flattens
          <6>3. v[j] = Join(v[n], seqs[j])
            BY <6>1, <6>2
          <6> QED BY <6>3, Zenon DEF Join, j
        <5> QED BY <1>2, <3>1, <5>2, <5>3
      <4> QED BY <4>1, <4>2
    <3> HIDE DEF w, t
    <3>4. LaidWhole(w(n) \o t, reqs, n + 1)
      <4>1. n \in Nat /\ reqs[n + 1] \in Msgs /\ LaidWhole(w(n), reqs, n)
        BY <1>1, <3>1, <3>2
      <4>2. t = MsgTokens(n + 1, reqs[n + 1].clen, reqs[n + 1].units)
        BY DEF t
      <4> HIDE DEF P
      <4> QED BY <4>1, <4>2, LaidOn
    <3> QED BY <3>3, <3>4
  <2> HIDE DEF T
  <2>3. T \in SUBSET Nat
    BY DEF T
  <2> QED BY <2>1, <2>2, <2>3, NatSetInduction
<1>6. P(NReq) /\ w(NReq) = FlattenSeq(seqs)
  <2>1. NReq \in T /\ NReq # 0
    BY <1>1, <1>5
  <2> QED BY <1>1, <1>4, <2>1
<1> DEFINE s == FlattenSeq(seqs)
<1>7. s \in Seq(TokenVals) /\ \E off : Laid(s, reqs, NReq, off) /\ Len(s) = off[NReq + 1]
  BY <1>6 DEF LaidWhole
<1> HIDE DEF s, P, T, w
<1>8. PICK off : Laid(s, reqs, NReq, off) /\ Len(s) = off[NReq + 1]
  BY <1>7
<1>9. CASE more = << >>
  <2>1. s \o << >> = s
    BY <1>7, ConcatEmptySeq
  <2> QED BY <1>3, <1>7, <1>8, <1>9, <2>1 DEF s
<1>10. CASE more # << >>
  <2> DEFINE x == [clen |-> 0, units |-> 0]
             t == MsgTokens(NReq + 1, 0, 0)[1]
  <2>1. x \in Msgs /\ Length(x) = 2 /\ x.clen = 0 /\ x.units = 0
    BY DEF Msgs, Length, ChunkedBody
  <2>2. t = TokAt(NReq + 1, x, 1) /\ IsTok(t, NReq + 1, x, 1) /\ t \in TokenVals
    <3>1. 1 \in 1 .. Length(x) /\ NReq + 1 \in Nat
      BY <1>1, <2>1
    <3>2. /\ MsgTokens(NReq + 1, x.clen, x.units) \in Seq(TokenVals)
          /\ Len(MsgTokens(NReq + 1, x.clen, x.units)) = Length(x)
          /\ MsgTokens(NReq + 1, x.clen, x.units)[1] = TokAt(NReq + 1, x, 1)
      BY <2>1, <3>1, TokensAre
    <3>3. MsgTokens(NReq + 1, x.clen, x.units)[1] \in TokenVals
      BY <3>1, <3>2, ElementOfSeq
    <3> HIDE DEF x
    <3> QED BY <2>1, <3>1, <3>2, <3>3, TokAtIs
  <2> HIDE DEF x, t
  <2>3. Begins(t)
    BY <2>2 DEF IsTok, Begins
  <2>4. stream = s \o <<t>>
    BY <1>3, <1>10 DEF s, t
  <2>5. s \o <<t>> \in Seq(TokenVals) /\ Laid(s \o <<t>>, reqs, NReq, off)
    BY <1>1, <1>7, <1>8, <2>2, <2>3, LaidBegun
  <2> QED BY <2>4, <2>5
<1> QED BY <1>9, <1>10

-----------------------------------------------------------------------------
(* The invariant holds at the start and through every step.                  *)
LEMMA ReadInit == Init => ReadInv
<1> SUFFICES ASSUME Init PROVE ReadInv
  OBVIOUS
<1>1. /\ pos = 0 /\ f = NewFrame /\ nctrl = 0 /\ mReqCtrl = 0 /\ done = {} /\ pc = "idle"
      /\ got = [c \in Reqs |-> << >>] /\ asserted = {}
  BY DEF Init, NoCtrl
<1>2. stream \in Seq(TokenVals) /\ \E off : Laid(stream, reqs, NReq, off)
  BY StreamLaid
<1>3. PICK off : Laid(stream, reqs, NReq, off)
  BY <1>2
<1>4. NReq \in Nat \ {0}
  BY NReqAssumption
<1>5. Told
  BY <1>1 DEF Told, NoCtrl
<1>6. Handed
  <2>1. << >> \in Seq(Nat) /\ Len(<< >>) = 0 /\ \A i \in 1 .. 0 : FALSE
    BY EmptySeq
  <2> QED BY <1>1, <2>1 DEF Handed, AllOf
<1>7. At(reqs, NReq, off, pos, 1, 0)
  <2>1. off[1] = 0 /\ 1 \in 1 .. NReq + 1
    BY <1>3, <1>4 DEF Laid
  <2>2. 1 <= NReq => 0 <= Length(reqs[1])
    <3>1. \A c \in Reqs : reqs[c] \in Msgs
      BY ReqsAre
    <3>2. 1 \in Reqs
      BY <1>4 DEF Reqs
    <3>3. Length(reqs[1]) \in Nat
      BY <3>1, <3>2, LengthIs
    <3> QED BY <3>3
  <2> QED BY <1>1, <2>1, <2>2 DEF At
<1> DEFINE none == << >>
<1>8. none \in Seq(Nat) /\ none \in Seq(Entries)
  OBVIOUS
<1>15. Len(none) = 0 /\ none = << >>
  BY EmptySeq
<1>9. f = Frame("INIT", NoMsg, none, 0, 0, {}, none)
  BY <1>1 DEF NewFrame, Frame
<1> HIDE DEF none
<1>10. /\ f \in Frames /\ f.msg = NoMsg /\ f.body = << >> /\ f.clen = 0 /\ f.rlen = 0
       /\ f.stat = {} /\ f.list = << >> /\ Len(f.list) = 0
  <2>1. NoMsg \in MsgVals /\ {} \in Statuses
    BY DEF NoMsg, MsgVals, Statuses
  <2>2. /\ f \in Frames /\ f.msg = NoMsg /\ f.body = none /\ f.clen = 0 /\ f.rlen = 0
        /\ f.stat = {} /\ f.list = none
    <3>1. FrameIs(f, "INIT", NoMsg, none, 0, 0, {}, none)
      BY <1>8, <1>9, <2>1, FrameIn
    <3> QED BY <3>1 DEF FrameIs
  <2> QED BY <1>15, <2>2
<1>11. ~Taken(f, 1, nctrl)
  BY <1>1, <1>10 DEF Taken
<1>12. FrameAt(f, reqs, 1, 0, nctrl)
  <2>1. Sized(f, 1, 0, nctrl)
    <3>1. /\ 1 \in Nat \ {0} /\ 0 \in Nat /\ nctrl \in Nat /\ Len(f.list) <= 1 - 1
          /\ nctrl = 1 - 1 - Len(f.list)
      <4> DEFINE l == Len(f.list)
      <4>1. l = 0 /\ nctrl = 0
        BY <1>1, <1>10
      <4> HIDE DEF l
      <4>2. l <= 1 - 1 /\ nctrl = 1 - 1 - l /\ nctrl \in Nat
        BY <4>1
      <4> QED BY <4>2 DEF l
    <3> QED BY <1>10, <1>11, <3>1 DEF Sized
  <2>2. \A i \in 1 .. 0 : FALSE
    OBVIOUS
  <2>3. Listed(f, reqs, 1, nctrl)
    BY <1>10, <2>2 DEF Listed
  <2>4. Current(f, reqs, 1, 0, nctrl)
    BY <1>10 DEF Current, Blank
  <2> QED BY <2>1, <2>3, <2>4 DEF FrameAt
<1>13. Busy(1, 0)
  BY <1>1, <1>11 DEF Busy, NoCtrl
<1>14. Paused(1, 0)
  BY <1>1, <1>10 DEF Paused, AtRest, NoCtrl
<1> QED BY <1>1, <1>2, <1>3, <1>5, <1>6, <1>7, <1>12, <1>13, <1>14 DEF ReadInv, Stand

(* What the position says of the requests.                                   *)
LEMMA StandSane ==
  ASSUME NEW off, NEW c, NEW k, Stand(off, c, k)
  PROVE  /\ Sane(reqs, c, k) /\ c \in Nat \ {0} /\ k \in Nat
         /\ k >= 2 => c \in Reqs /\ reqs[c] \in Msgs
         /\ c \in Reqs => k <= Length(reqs[c])
         /\ \A d \in Reqs : reqs[d] \in Msgs
<1>1. /\ c \in 1 .. NReq + 1 /\ k \in Nat /\ NReq \in Nat \ {0} /\ (c <= NReq => k <= Length(reqs[c]))
      /\ (c = NReq + 1 => k <= 1)
  BY NReqAssumption DEF Stand, At
<1>2. \A d \in Reqs : reqs[d] \in Msgs
  BY DEF Stand, Laid, Reqs
<1>3. k >= 2 => c \in Reqs
  BY <1>1 DEF Reqs
<1>4. ASSUME NEW d \in 1 .. c, d < c \/ k >= 2 PROVE d \in Reqs
  BY <1>1, <1>4 DEF Reqs
<1> QED BY <1>1, <1>2, <1>3, <1>4 DEF Sane, Reqs

LEMMA LoopNoneKeeps == ReadInv /\ LoopNone => ReadInv'
<1> SUFFICES ASSUME ReadInv, LoopNone PROVE ReadInv'
  OBVIOUS
<1>1. PICK off, c, k : Stand(off, c, k)
  BY DEF ReadInv
<1>2. /\ pc = "loop" /\ Status(f) = "FS_NONE" /\ pc' = "idle"
      /\ UNCHANGED <<reqs, stream, pos, f, nctrl, mReqCtrl, got, done, asserted>>
  BY DEF LoopNone
<1>3. FrameAt(f, reqs, c, k, nctrl) /\ Busy(c, k)
  BY <1>1 DEF Stand
<1>4. AtRest(f, c, k, nctrl) /\ (k >= 2 => mReqCtrl = NoCtrl)
  BY <1>1, <1>2, <1>3, StandSane, NothingLeft DEF Busy
<1>5. Paused(c, k)'
  <2>1. c \in Reqs /\ k = Length(reqs[c]) => k >= 2
    BY <1>1, StandSane, LengthIs
  <2> QED BY <1>2, <1>4, <2>1 DEF Paused, AtRest
<1>6. Stand(off, c, k)'
  BY <1>1, <1>2, <1>5 DEF Stand, Busy
<1> QED BY <1>2, <1>6 DEF ReadInv, Told, Handed

LEMMA PosIs ==
  ASSUME NEW off, NEW c, NEW k, Stand(off, c, k)
  PROVE  /\ pos \in Nat /\ off[c] \in Nat /\ pos = off[c] + k
         /\ c \in Reqs /\ k = Length(reqs[c]) => stream[pos].end
<1>1. /\ c \in 1 .. NReq + 1 /\ k \in Nat /\ pos = off[c] + k /\ off \in [1 .. NReq + 1 -> Nat]
  BY DEF Stand, At, Laid
<1>2. pos \in Nat /\ off[c] \in Nat
  <2>1. off[c] \in Nat
    BY <1>1
  <2> QED BY <1>1, <2>1
<1>3. ASSUME c \in Reqs, k = Length(reqs[c]) PROVE stream[pos].end
  <2>1. k \in 1 .. Length(reqs[c])
    <3>1. Length(reqs[c]) \in Nat /\ Length(reqs[c]) >= 2
      BY <1>3, StandSane, LengthIs
    <3> QED BY <1>3, <3>1
  <2>2. IsTok(stream[off[c] + k], c, reqs[c], k)
    BY <1>3, <2>1 DEF Stand, Laid, Reqs
  <2> QED BY <1>1, <1>3, <2>2 DEF IsTok
<1> QED BY <1>1, <1>2, <1>3

(* A packet: it is received between requests, when the assembler's last      *)
(* header was of a request that is complete, or it goes on with the body.    *)
LEMMA RecvKeeps ==
  ASSUME ReadInv, ~SplitThenNext, ~ChunkedThenNext, NEW to \in 0 .. Len(stream), RecvPacket(to)
  PROVE  ReadInv'
<1> DEFINE toks == SubSeq(stream, pos + 1, to)
<1>1. PICK off, c, k : Stand(off, c, k)
  BY DEF ReadInv
<1>2. /\ pc = "idle" /\ pos <= to /\ to <= Len(stream) /\ AllowedPacket(toks)
      /\ f' = FeedPacket(f, toks) /\ pos' = to /\ pc' = "loop"
      /\ UNCHANGED <<reqs, stream, nctrl, mReqCtrl, got, done, asserted>>
  BY DEF RecvPacket
<1>3. /\ pos \in Nat /\ to \in Nat /\ stream \in Seq(TokenVals) /\ Len(stream) \in Nat
      /\ \A i \in 1 .. Len(stream) : stream[i] \in TokenVals
  <2>1. stream \in Seq(TokenVals)
    BY DEF ReadInv
  <2>2. Len(stream) \in Nat /\ \A i \in 1 .. Len(stream) : stream[i] \in TokenVals
    BY <2>1, LenProperties, ElementOfSeq
  <2> QED BY <1>1, <2>1, <2>2, PosIs
<1>4. /\ toks \in Seq(TokenVals) /\ Len(toks) = to - pos /\ Len(toks) \in Nat /\ DOMAIN toks = 1 .. Len(toks)
      /\ \A i \in 1 .. Len(toks) : toks[i] = stream[pos + i]
      /\ pos + Len(toks) = to
  <2>1. \A i \in pos + 1 .. to : stream[i] \in TokenVals
    BY <1>2, <1>3
  <2>2. /\ toks \in Seq(TokenVals)
        /\ Len(toks) = IF pos + 1 <= to THEN to - (pos + 1) + 1 ELSE 0
        /\ \A i \in 1 .. to - (pos + 1) + 1 : toks[i] = stream[pos + 1 + i - 1]
    <3>1. pos + 1 \in Int /\ to \in Int
      BY <1>3
    <3> QED BY <2>1, <3>1, SubSeqProperties
  <2> HIDE DEF toks
  <2>3. Len(toks) = to - pos /\ Len(toks) \in Nat /\ pos + Len(toks) = to /\ to - (pos + 1) + 1 = to - pos
    BY <1>2, <1>3, <2>2
  <2>4. DOMAIN toks = 1 .. Len(toks)
    BY <2>2, LenProperties
  <2>5. ASSUME NEW i \in 1 .. Len(toks) PROVE toks[i] = stream[pos + i]
    <3>1. pos + 1 + i - 1 = pos + i /\ i \in 1 .. to - (pos + 1) + 1
      BY <1>3, <2>3
    <3> QED BY <2>2, <3>1
  <2> QED BY <2>2, <2>3, <2>4, <2>5
<1>5. ~EndsAndBegins(toks) /\ ~QueuesChunked(toks)
      /\ (toks = << >> /\ (pos = 0 \/ stream[pos].end) => Status(f) = "FS_NONE")
  BY <1>2 DEF AllowedPacket
<1> HIDE DEF toks
<1>6. /\ Laid(stream, reqs, NReq, off) /\ At(reqs, NReq, off, pos, c, k)
      /\ FrameAt(f, reqs, c, k, nctrl) /\ Busy(c, k) /\ Paused(c, k)
  BY <1>1 DEF Stand
<1>7. AtRest(f, c, k, nctrl) /\ (c \in Reqs /\ k = Length(reqs[c]) => mReqCtrl = NoCtrl)
  BY <1>2, <1>6 DEF Paused
<1>8. \E d, i : /\ At(reqs, NReq, off, to, d, i) /\ FrameAt(f', reqs, d, i, nctrl)
                /\ FedTo(f, reqs, c, k, nctrl, toks, Len(toks), f', d, i)
  <2>1. pos + Len(toks) <= Len(stream)
    BY <1>2, <1>4
  <2> DEFINE P(g, t) == \E d, i : /\ At(reqs, NReq, off, t, d, i) /\ FrameAt(g, reqs, d, i, nctrl)
                                  /\ FedTo(f, reqs, c, k, nctrl, toks, Len(toks), g, d, i)
  <2>2. P(FeedPacket(f, toks), pos + Len(toks))
    BY <1>3, <1>4, <1>5, <1>6, <1>7, <2>1, PacketFed
  <2> HIDE DEF P
  <2>3. P(f', to)
    BY <1>2, <1>4, <2>2
  <2> QED BY <2>3 DEF P
<1>9. PICK d, i : /\ At(reqs, NReq, off, to, d, i) /\ FrameAt(f', reqs, d, i, nctrl)
                  /\ FedTo(f, reqs, c, k, nctrl, toks, Len(toks), f', d, i)
  BY <1>8
<1>10. f.list = << >> /\ k \in Nat /\ c \in Nat \ {0} /\ Sane(reqs, c, k)
  BY <1>1, <1>7, StandSane DEF AtRest
<1>11. Taken(f, c, nctrl) => k >= 2 /\ c \in Reqs /\ k <= Length(reqs[c]) /\ Length(reqs[c]) \in Nat
  BY <1>1, <1>6, <1>10, StandSane, LengthIs DEF FrameAt, Sized
<1>12. /\ mReqCtrl # NoCtrl =>
            /\ Taken(f', d, nctrl) /\ nctrl \in Reqs
            /\ Len(got[nctrl]) = Given(f')
            /\ f'.list = << >> => "data" \in f'.stat
       /\ mReqCtrl = NoCtrl /\ Taken(f', d, nctrl) =>
            Finished(f', reqs, d, i) /\ (f'.list = << >> => "data" \notin f'.stat)
  <2>1. CASE Len(toks) = 0
    <3>1. f' = f /\ d = c /\ i = k /\ toks = << >>
      BY <1>4, <1>9, <2>1, EmptySeq DEF FedTo
    <3>2. ASSUME mReqCtrl = NoCtrl, Taken(f, c, nctrl) PROVE Finished(f, reqs, c, k) /\ "data" \notin f.stat
      <4>1. Finished(f, reqs, c, k)
        BY <1>6, <3>2 DEF Busy
      <4>2. stream[pos].end
        BY <1>1, <1>11, <3>2, <4>1, PosIs DEF Finished
      <4>3. Status(f) = "FS_NONE"
        BY <1>5, <3>1, <4>2
      <4> QED BY <1>6, <1>10, <4>1, <4>3, NothingLeft
    <3> QED BY <1>6, <3>1, <3>2 DEF Busy
  <2>2. CASE Len(toks) > 0 /\ Unended(f, reqs, c, k, nctrl)
    <3>1. d = c /\ f'.list = << >> /\ f'.rlen = f.rlen /\ f'.stat = f.stat
      BY <1>9, <2>2 DEF FedTo
    <3>2. Taken(f, c, nctrl) /\ k # Length(reqs[c])
      BY <1>10, <1>11, <2>2 DEF Unended
    <3>3. mReqCtrl # NoCtrl
      BY <1>6, <3>2 DEF Busy, Finished
    <3>4. Taken(f', c, nctrl) /\ Given(f') = Given(f)
      BY <1>10, <3>1, <3>2 DEF Taken, Given
    <3> QED BY <1>6, <1>10, <3>1, <3>3, <3>4 DEF Busy
  <2>3. CASE Len(toks) > 0 /\ ~Unended(f, reqs, c, k, nctrl)
    <3>1. ~Taken(f', d, nctrl)
      BY <1>9, <2>3 DEF FedTo
    <3>2. mReqCtrl = NoCtrl
      <4> SUFFICES ASSUME mReqCtrl # NoCtrl PROVE FALSE
        OBVIOUS
      <4>1. Taken(f, c, nctrl)
        BY <1>6 DEF Busy
      <4>2. k = Length(reqs[c]) /\ c \in Reqs
        BY <1>10, <1>11, <2>3, <4>1 DEF Unended
      <4> QED BY <1>7, <4>2
    <3> QED BY <3>1, <3>2
  <2> QED BY <1>4, <2>1, <2>2, <2>3
<1>13. Busy(d, i)' /\ Paused(d, i)'
  BY <1>2, <1>12 DEF Busy, Paused
<1>14. Stand(off, d, i)'
  BY <1>2, <1>6, <1>9, <1>13 DEF Stand
<1> QED BY <1>2, <1>14 DEF ReadInv, Told, Handed

(* A header: of the request after those whose headers were fetched, and the  *)
(* one before is complete.                                                   *)
LEMMA LoopHdrKeeps == ReadInv /\ LoopHdr => ReadInv'
<1> SUFFICES ASSUME ReadInv, LoopHdr PROVE ReadInv'
  OBVIOUS
<1> DEFINE x == FetchMsg(f)
           h == nctrl + 1
<1>1. PICK off, c, k : Stand(off, c, k)
  BY DEF ReadInv
<1>2. /\ pc = "loop" /\ Status(f) = "FS_HDR" /\ f' = x.f /\ nctrl' = h
      /\ asserted' = asserted \cup x.failed
      /\ IF x.res = "MSG_ONLY" THEN mReqCtrl' = NoCtrl /\ done' = done \cup {h}
         ELSE mReqCtrl' = h /\ done' = done
      /\ UNCHANGED <<reqs, stream, pos, got, pc>>
  BY DEF LoopHdr
<1>3. /\ Laid(stream, reqs, NReq, off) /\ At(reqs, NReq, off, pos, c, k)
      /\ FrameAt(f, reqs, c, k, nctrl) /\ Busy(c, k) /\ Paused(c, k)
      /\ Sane(reqs, c, k) /\ c \in Nat \ {0} /\ nctrl \in Nat
  BY <1>1, StandSane DEF Stand, FrameAt, Sized
<1>4. HeaderFetched(f, reqs, c, k, nctrl, x)
  BY <1>2, <1>3, MsgFetched
<1>5. h \in Reqs /\ reqs[h] \in Msgs
  <2>1. h <= c /\ (h = c => k >= 2) /\ c \in 1 .. NReq + 1 /\ NReq \in Nat
    BY <1>3, <1>4, NReqAssumption DEF HeaderFetched, At
  <2>2. k >= 2 => c \in Reqs
    BY <1>1, StandSane
  <2>3. h \in Reqs
    BY <1>3, <2>1, <2>2 DEF Reqs
  <2> QED BY <1>1, <2>3, StandSane
<1>6. /\ x.failed = {} /\ (x.res = "MSG_ONLY" <=> reqs[h].clen = 0)
      /\ FrameAt(x.f, reqs, c, k, h)
      /\ reqs[h].clen = 0 => ~Taken(x.f, c, h) \/ (Finished(x.f, reqs, c, k) /\ x.f.stat = {})
      /\ reqs[h].clen # 0 => /\ Taken(x.f, c, h) /\ Given(x.f) = 0
                             /\ x.f.list = << >> => "data" \in x.f.stat
      /\ ~Taken(f, c, nctrl)
  <2>1. "MSG_ONLY" # "MSG_WITHDATA"
    OBVIOUS
  <2> HIDE DEF x
  <2> QED BY <1>4, <2>1 DEF HeaderFetched
<1> HIDE DEF x
<1>7. mReqCtrl = NoCtrl
  BY <1>3, <1>6 DEF Busy
<1>8. h # NoCtrl /\ done = 1 .. nctrl /\ got[h] = << >> /\ (reqs[h].clen = 0 => reqs[h].units = 0)
      /\ 1 .. h = (1 .. nctrl) \cup {h} /\ h \notin 1 .. nctrl
  <2>1. h # 0 /\ h > nctrl /\ 1 .. h = (1 .. nctrl) \cup {h} /\ h \notin 1 .. nctrl
    BY <1>3
  <2>2. done = 1 .. nctrl
    <3>1. 0 \notin 1 .. nctrl
      BY <1>3
    <3> QED BY <1>7, <3>1 DEF ReadInv, Told, NoCtrl
  <2>3. got[h] = << >>
    BY <1>5, <2>1 DEF ReadInv, Handed
  <2>4. reqs[h].clen = 0 => reqs[h].units = 0
    BY <1>5 DEF Msgs, ChunkedBody
  <2> QED BY <2>1, <2>2, <2>3, <2>4 DEF NoCtrl
<1>9. Told'
  <2>1. CASE x.res = "MSG_ONLY"
    <3>1. 0 \notin 1 .. h
      BY <1>3
    <3> QED BY <1>2, <1>8, <2>1, <3>1 DEF Told, NoCtrl
  <2>2. CASE x.res # "MSG_ONLY"
    <3>1. (1 .. h) \ {h} = 1 .. nctrl
      BY <1>8
    <3> QED BY <1>2, <1>8, <2>2, <3>1 DEF Told
  <2> QED BY <2>1, <2>2
<1>10. Handed'
  <2>1. \A r \in Reqs : r > h => r > nctrl
    BY <1>3 DEF Reqs
  <2>2. Len(got[h]) = 0
    BY <1>8, EmptySeq
  <2>3. \A r \in Reqs : r \in done' => Len(got[r]) = reqs[r].units
    BY <1>2, <1>6, <1>8, <2>2 DEF ReadInv, Handed
  <2> QED BY <1>2, <2>1, <2>3 DEF ReadInv, Handed
<1>11. Busy(c, k)'
  <2>1. CASE x.res = "MSG_ONLY"
    <3>1. mReqCtrl' = NoCtrl /\ (~Taken(x.f, c, h) \/ Finished(x.f, reqs, c, k))
      BY <1>2, <1>6, <2>1
    <3> QED BY <1>2, <3>1 DEF Busy
  <2>2. CASE x.res # "MSG_ONLY"
    <3>1. /\ mReqCtrl' = h /\ Taken(x.f, c, h) /\ Given(x.f) = 0 /\ Len(got[h]) = 0
          /\ x.f.list = << >> => "data" \in x.f.stat
      BY <1>2, <1>6, <1>8, <2>2, EmptySeq
    <3> QED BY <1>2, <1>5, <1>8, <3>1 DEF Busy
  <2> QED BY <2>1, <2>2
<1>12. Paused(c, k)'
  <2>1. ~(Taken(x.f, c, h) /\ x.f.list = << >> /\ mReqCtrl' = NoCtrl /\ "data" \in x.f.stat)
    BY <1>2, <1>6, <1>8
  <2> QED BY <1>2, <2>1 DEF Paused
<1>13. Stand(off, c, k)'
  BY <1>2, <1>3, <1>6, <1>11, <1>12 DEF Stand
<1>14. asserted' = {} /\ stream' \in Seq(TokenVals)
  BY <1>2, <1>6 DEF ReadInv
<1> QED BY <1>9, <1>10, <1>13, <1>14 DEF ReadInv

(* Data: there is a controller for it, that of the header fetched last.      *)
LEMMA LoopDataKeeps == ReadInv /\ LoopData => ReadInv'
<1> SUFFICES ASSUME ReadInv, LoopData PROVE ReadInv'
  OBVIOUS
<1> DEFINE x == FetchData(f)
           give == x.data # << >> \/ x.res = "MSG_DATA_END"
           ends == x.res = "MSG_DATA_END"
<1>1. PICK off, c, k : Stand(off, c, k)
  BY DEF ReadInv
<1>3. /\ Laid(stream, reqs, NReq, off) /\ At(reqs, NReq, off, pos, c, k)
      /\ FrameAt(f, reqs, c, k, nctrl) /\ Busy(c, k) /\ Paused(c, k)
      /\ Sane(reqs, c, k) /\ c \in Nat \ {0} /\ nctrl \in Nat
  BY <1>1, StandSane DEF Stand, FrameAt, Sized
<1>4. pc = "loop" /\ Status(f) = "FS_DATA"
  BY DEF LoopData
<1>5. DataFetched(f, reqs, c, k, nctrl, x)
  BY <1>3, <1>4, PartFetched
<1>6. mReqCtrl # NoCtrl
  <2> SUFFICES ASSUME mReqCtrl = NoCtrl PROVE FALSE
    OBVIOUS
  <2>1. Taken(f, c, nctrl) /\ f.list = << >>
    BY <1>3, <1>5 DEF Busy, Finished, DataFetched
  <2>2. "data" \in f.stat
    BY <1>4, <2>1 DEF Status
  <2> QED BY <1>3, <1>4, <2>1, <2>2 DEF Paused
<1>2. /\ f' = x.f
      /\ asserted' = asserted \cup x.failed
      /\ got' = IF give THEN [got EXCEPT ![mReqCtrl] = @ \o x.data] ELSE got
      /\ done' = IF ends THEN done \cup {mReqCtrl} ELSE done
      /\ mReqCtrl' = IF ends THEN NoCtrl ELSE mReqCtrl
      /\ pc' = IF x.data # << >> THEN "loop" ELSE "idle"
      /\ UNCHANGED <<reqs, stream, pos, nctrl>>
  BY <1>6 DEF LoopData
<1>7. mReqCtrl = nctrl /\ nctrl \in Reqs /\ Taken(f, c, nctrl) /\ Len(got[nctrl]) = Given(f)
      /\ done = (1 .. nctrl) \ {nctrl} /\ reqs[nctrl] \in Msgs /\ nctrl # NoCtrl
  <2>1. mReqCtrl = nctrl /\ done = (1 .. nctrl) \ {mReqCtrl}
    BY <1>6 DEF ReadInv, Told
  <2> QED BY <1>1, <1>3, <1>6, <2>1, StandSane DEF Busy
<1>8. /\ x.failed = {} /\ FrameAt(x.f, reqs, c, k, nctrl)
      /\ x.data \in Seq(Nat) /\ AllOf(x.data, nctrl)
      /\ x.data = << >> => x.f = f /\ f.list = << >> /\ f.body = << >>
      /\ ends => /\ Given(f) + Len(x.data) = reqs[nctrl].units
                 /\ ~Taken(x.f, c, nctrl) \/ (Finished(x.f, reqs, c, k) /\ (x.data # << >> => x.f.stat = {}))
      /\ ~ends => /\ Taken(x.f, c, nctrl) /\ x.f.list = << >> /\ "data" \in x.f.stat
                  /\ Given(x.f) = Given(f) + Len(x.data)
                  /\ x.data = << >> => k # Length(reqs[c])
  <2> HIDE DEF x
  <2> QED BY <1>5 DEF DataFetched
<1>9. x.data = << >> => Len(x.data) = 0
  BY EmptySeq
<1> HIDE DEF x, ends
<1>10. /\ got[nctrl] \in Seq(Nat) /\ AllOf(got[nctrl], nctrl) /\ got \in [Reqs -> Seq(Nat)]
       /\ Len(got[nctrl]) \in Nat /\ Len(x.data) \in Nat
  BY <1>7, <1>8, LenProperties DEF ReadInv, Handed
<1>11. /\ got' \in [Reqs -> Seq(Nat)]
       /\ \A r \in Reqs : r # nctrl => got'[r] = got[r]
       /\ AllOf(got'[nctrl], nctrl)
       /\ Len(got'[nctrl]) = Given(f) + Len(x.data)
  <2> DEFINE new == got[nctrl] \o x.data
  <2>1. new \in Seq(Nat) /\ Len(new) = Len(got[nctrl]) + Len(x.data) /\ AllOf(new, nctrl)
    <3>1. /\ new \in Seq(Nat) /\ Len(new) = Len(got[nctrl]) + Len(x.data)
          /\ \A i \in 1 .. Len(got[nctrl]) + Len(x.data) :
               new[i] = IF i <= Len(got[nctrl]) THEN got[nctrl][i] ELSE x.data[i - Len(got[nctrl])]
      <4> DEFINE a == got[nctrl]
                 b == x.data
      <4>1. a \in Seq(Nat) /\ b \in Seq(Nat) /\ new = a \o b
        BY <1>8, <1>10
      <4> HIDE DEF a, b, new
      <4>2. /\ new \in Seq(Nat) /\ Len(new) = Len(a) + Len(b)
            /\ \A i \in 1 .. Len(a) + Len(b) : new[i] = IF i <= Len(a) THEN a[i] ELSE b[i - Len(a)]
        BY <4>1, ConcatProperties
      <4> QED BY <4>2 DEF a, b
    <3> DEFINE n == Len(got[nctrl])
               l == Len(x.data)
    <3>2. n \in Nat /\ l \in Nat /\ (\A i \in 1 .. n : got[nctrl][i] = nctrl)
          /\ (\A i \in 1 .. l : x.data[i] = nctrl) /\ Len(new) = n + l
          /\ \A i \in 1 .. n + l : new[i] = IF i <= n THEN got[nctrl][i] ELSE x.data[i - n]
      BY <1>8, <1>10, <3>1 DEF AllOf
    <3> HIDE DEF n, l, new
    <3>3. \A i \in 1 .. n + l : new[i] = nctrl
      <4> SUFFICES ASSUME NEW i \in 1 .. n + l PROVE new[i] = nctrl
        OBVIOUS
      <4>1. CASE i <= n
        <5>1. i \in 1 .. n
          BY <3>2, <4>1
        <5> QED BY <3>2, <4>1, <5>1
      <4>2. CASE ~(i <= n)
        <5>1. i - n \in 1 .. l
          BY <3>2, <4>2
        <5> QED BY <3>2, <4>2, <5>1
      <4> QED BY <4>1, <4>2
    <3> QED BY <3>1, <3>2, <3>3 DEF AllOf
  <2> HIDE DEF new
  <2>2. CASE give
    <3>1. got' = [got EXCEPT ![nctrl] = new]
      BY <1>2, <1>7, <2>2 DEF new
    <3> QED BY <1>7, <1>10, <2>1, <3>1
  <2>3. CASE ~give
    <3>1. got' = got /\ Len(x.data) = 0
      BY <1>2, <1>9, <2>3
    <3>2. Len(got[nctrl]) = Given(f) + Len(x.data)
      BY <1>7, <1>10, <3>1
    <3> QED BY <1>10, <3>1, <3>2
  <2> QED BY <2>2, <2>3
<1>12. Told'
  <2>1. CASE ends
    <3>1. 0 \notin 1 .. nctrl /\ nctrl \in 1 .. nctrl
      BY <1>3, <1>7 DEF NoCtrl
    <3>2. done' = (1 .. nctrl) \ {0}
      BY <1>2, <1>7, <2>1, <3>1
    <3> QED BY <1>2, <2>1, <3>2 DEF Told, NoCtrl
  <2>2. CASE ~ends
    BY <1>2, <1>7, <2>2 DEF Told
  <2> QED BY <2>1, <2>2
<1>13. Handed'
  <2>1. ASSUME NEW r \in Reqs PROVE /\ AllOf(got'[r], r)
                                    /\ r \in done' => Len(got'[r]) = reqs[r].units
                                    /\ r > nctrl => got'[r] = << >>
    <3>1. CASE r = nctrl
      <4>1. r \in done' => ends
        BY <1>2, <1>7, <3>1
      <4>2. ~(nctrl > nctrl)
        BY <1>3
      <4> QED BY <1>8, <1>11, <3>1, <4>1, <4>2
    <3>2. CASE r # nctrl
      <4>1. r \in done' => r \in done
        BY <1>2, <1>7, <3>2
      <4> QED BY <1>11, <3>2, <4>1 DEF ReadInv, Handed
    <3> QED BY <3>1, <3>2
  <2> QED BY <1>2, <1>11, <2>1 DEF Handed
<1>14. Busy(c, k)'
  <2>1. CASE ends
    <3>1. mReqCtrl' = NoCtrl /\ (~Taken(x.f, c, nctrl) \/ Finished(x.f, reqs, c, k))
      BY <1>2, <1>8, <2>1
    <3> QED BY <1>2, <3>1 DEF Busy
  <2>2. CASE ~ends
    BY <1>2, <1>7, <1>8, <1>11, <2>2 DEF Busy
  <2> QED BY <2>1, <2>2
<1>15. Paused(c, k)'
  <2>1. CASE x.data # << >>
    <3>1. ends => ~(Taken(x.f, c, nctrl) /\ "data" \in x.f.stat)
      BY <1>8, <2>1
    <3>2. ~ends => mReqCtrl' # NoCtrl
      BY <1>2, <1>6
    <3> QED BY <1>2, <2>1, <3>1, <3>2 DEF Paused
  <2>2. CASE x.data = << >>
    <3>1. x.f = f /\ f.list = << >> /\ f.body = << >>
      BY <1>8, <2>2
    <3>2. nctrl = c
      <4>1. nctrl = c - 0
        BY <1>7, <3>1, EmptySeq DEF Taken
      <4> QED BY <1>3, <4>1
    <3>3. AtRest(x.f, c, k, nctrl)
      BY <3>1, <3>2 DEF AtRest
    <3>4. k = Length(reqs[c]) => mReqCtrl' = NoCtrl
      BY <1>2, <1>8, <2>2
    <3> QED BY <1>2, <2>2, <3>3, <3>4 DEF Paused
  <2> QED BY <2>1, <2>2
<1>16. Stand(off, c, k)'
  BY <1>2, <1>3, <1>8, <1>14, <1>15 DEF Stand
<1>17. asserted' = {} /\ stream' \in Seq(TokenVals)
  BY <1>2, <1>8 DEF ReadInv
<1> QED BY <1>12, <1>13, <1>16, <1>17 DEF ReadInv

-----------------------------------------------------------------------------
(* Whatever the packets, as long as the assembler can take them apart:       *)
(* ReadInv always holds.                                                     *)
THEOREM ReadInvHolds ==
  ASSUME ~SplitThenNext, ~ChunkedThenNext
  PROVE  Spec => []ReadInv
<1>1. Init => ReadInv
  BY ReadInit
<1>2. ReadInv /\ [Next]_vars => ReadInv'
  <2> SUFFICES ASSUME ReadInv, [Next]_vars PROVE ReadInv'
    OBVIOUS
  <2>1. ASSUME NEW to \in 0 .. Len(stream), RecvPacket(to) PROVE ReadInv'
    BY <2>1, RecvKeeps
  <2>2. CASE LoopHdr
    BY <2>2, LoopHdrKeeps
  <2>3. CASE LoopData
    BY <2>3, LoopDataKeeps
  <2>4. CASE LoopNone
    BY <2>4, LoopNoneKeeps
  <2>5. CASE UNCHANGED vars
    BY <2>5 DEF vars, ReadInv, Told, Handed, Stand, Busy, Paused
  <2> QED BY <2>1, <2>2, <2>3, <2>4, <2>5 DEF Next
<1> QED BY <1>1, <1>2, PTL DEF Spec

(* Every controller is given the units of its own request only, and all of   *)
(* them before OnHttpReqMsg() tells it that the request is complete.         *)
THEOREM BodiesReachTheirOwn ==
  ASSUME ~SplitThenNext, ~ChunkedThenNext
  PROVE  Spec => []BodiesIntact
<1>1. ReadInv => BodiesIntact
  <2> SUFFICES ASSUME ReadInv, NEW c \in Reqs
               PROVE  /\ \A i \in DOMAIN got[c] : got[c][i] = c
                      /\ c \in done => Len(got[c]) = reqs[c].units
    BY DEF BodiesIntact
  <2>1. got[c] \in Seq(Nat) /\ AllOf(got[c], c) /\ (c \in done => Len(got[c]) = reqs[c].units)
    BY DEF ReadInv, Handed
  <2>2. DOMAIN got[c] = 1 .. Len(got[c])
    BY <2>1, LenProperties
  <2> QED BY <2>1, <2>2 DEF AllOf
<1> QED BY <1>1, ReadInvHolds, PTL

(* procRead() hands out the header of a request only when the one before it  *)
(* is complete.                                                              *)
THEOREM HeadersInTurn ==
  ASSUME ~SplitThenNext, ~ChunkedThenNext
  PROVE  Spec => []OneAtATime
<1>1. ReadInv => OneAtATime
  <2> SUFFICES ASSUME ReadInv, NEW c \in 1 .. nctrl - 1 PROVE c \in done
    BY DEF OneAtATime
  <2>1. nctrl \in Nat
    BY DEF ReadInv, Stand, FrameAt, Sized
  <2>2. c \in 1 .. nctrl /\ c # nctrl /\ c # NoCtrl
    BY <2>1 DEF NoCtrl
  <2> QED BY <2>2 DEF ReadInv, Told
<1> QED BY <1>1, ReadInvHolds, PTL

(* When procRead() waits for the next packet, every request that was         *)
(* received to its last byte is complete.                                    *)
THEOREM ReceivedIsHandedOn ==
  ASSUME ~SplitThenNext, ~ChunkedThenNext
  PROVE  Spec => []NothingHeldBack
<1>1. ReadInv => NothingHeldBack
  <2> SUFFICES ASSUME ReadInv, pc = "idle", NEW r \in Reqs,
                      \A i \in DOMAIN stream : stream[i].id = r => i <= pos
               PROVE  r \in done
    BY DEF NothingHeldBack
  <2>1. PICK off, c, k : Stand(off, c, k)
    BY DEF ReadInv
  <2>2. /\ off \in [1 .. NReq + 1 -> Nat] /\ NReq \in Nat \ {0}
        /\ \A d \in 1 .. NReq : /\ Length(reqs[d]) \in Nat /\ Length(reqs[d]) >= 2
                                /\ off[d + 1] = off[d] + Length(reqs[d])
        /\ Len(stream) \in Nat /\ off[NReq + 1] <= Len(stream)
    <3>1. off \in [1 .. NReq + 1 -> Nat] /\ off[NReq + 1] \in Nat
      <4>1. off \in [1 .. NReq + 1 -> Nat] /\ NReq + 1 \in 1 .. NReq + 1
        BY <2>1, NReqAssumption DEF Stand, Laid
      <4> QED BY <4>1
    <3>2. Len(stream) = off[NReq + 1] \/ Len(stream) = off[NReq + 1] + 1
      BY <2>1 DEF Stand, Laid
    <3>3. ASSUME NEW d \in 1 .. NReq
          PROVE  /\ Length(reqs[d]) \in Nat /\ Length(reqs[d]) >= 2
                 /\ off[d + 1] = off[d] + Length(reqs[d])
      <4>1. reqs[d] \in Msgs /\ off[d + 1] = off[d] + Length(reqs[d])
        BY <2>1 DEF Stand, Laid
      <4> QED BY <4>1, LengthIs
    <3>4. off[NReq + 1] <= Len(stream) /\ Len(stream) \in Nat
      BY <3>1, <3>2
    <3> QED BY <3>1, <3>3, <3>4, NReqAssumption
  <2>3. \A a \in 1 .. NReq, b \in 1 .. NReq + 1 : a < b => off[a] + Length(reqs[a]) <= off[b]
    BY <2>2, OffsetsGrow
  <2> DEFINE len == Length(reqs[r])
             last == off[r] + len
  <2>4. r \in 1 .. NReq /\ r \in Nat /\ len \in Nat /\ len >= 2 /\ off[r] \in Nat
    <3>1. r \in 1 .. NReq /\ r \in 1 .. NReq + 1
      BY <2>2 DEF Reqs
    <3> QED BY SMTT(30), <2>2, <3>1
  <2>5. last \in 1 .. Len(stream) /\ stream[last].id = r
    <3>1. len \in 1 .. len
      BY <2>4
    <3>2. IsTok(stream[last], r, reqs[r], len)
      BY <2>1, <2>4, <3>1 DEF Stand, Laid
    <3>3. last <= off[NReq + 1] /\ off[NReq + 1] \in Nat
      <4>1. NReq + 1 \in 1 .. NReq + 1 /\ r < NReq + 1
        BY <2>2, <2>4
      <4> QED BY <2>2, <2>3, <2>4, <4>1
    <3>4. last \in Nat /\ last >= 1
      BY <2>4
    <3> HIDE DEF last
    <3> QED BY <2>2, <3>2, <3>3, <3>4 DEF IsTok
  <2>6. last <= pos
    <3>1. DOMAIN stream = 1 .. Len(stream)
      BY LenProperties DEF ReadInv
    <3> QED BY <2>5, <3>1
  <2>7. /\ pos = off[c] + k /\ off[c] \in Nat /\ c \in 1 .. NReq + 1 /\ k \in Nat
        /\ c \in Reqs => k <= Length(reqs[c])
    BY <2>1, PosIs, StandSane DEF Stand, At
  <2>8. r < c \/ (r = c /\ k = len)
    <3>1. CASE r > c
      <4>1. c \in 1 .. NReq /\ r \in 1 .. NReq + 1 /\ c \in Reqs
        BY <2>2, <2>4, <2>7, <3>1 DEF Reqs
      <4>2. off[c] + Length(reqs[c]) <= off[r] /\ Length(reqs[c]) \in Nat /\ k <= Length(reqs[c])
        BY <2>2, <2>3, <2>7, <3>1, <4>1
      <4> QED BY <2>4, <2>6, <2>7, <4>2
    <3>2. CASE r = c
      <4>1. k <= len /\ len <= k
        BY <2>4, <2>6, <2>7, <3>2
      <4> QED BY <2>4, <2>7, <3>2, <4>1
    <3>3. c \in Nat
      BY <2>7
    <3> QED BY <2>4, <3>1, <3>2, <3>3
  <2>9. /\ FrameAt(f, reqs, c, k, nctrl) /\ Busy(c, k) /\ Paused(c, k)
    BY <2>1 DEF Stand
  <2>10. AtRest(f, c, k, nctrl) /\ (c \in Reqs /\ k = Length(reqs[c]) => mReqCtrl = NoCtrl)
    BY <2>9 DEF Paused
  <2>11. nctrl \in Nat /\ (nctrl = c - 1 \/ nctrl = c)
    <3>1. nctrl \in Nat /\ (nctrl = c - 1 - 0 \/ nctrl = c - 0)
      BY <2>9, <2>10, EmptySeq DEF FrameAt, Sized, AtRest, Taken
    <3> QED BY <2>7, <3>1
  <2>12. mReqCtrl # NoCtrl => nctrl = c
    <3>1. mReqCtrl # NoCtrl => nctrl = c - 0
      BY <2>9, <2>10, EmptySeq DEF Busy, AtRest, Taken
    <3> QED BY <2>7, <3>1
  <2>13. mReqCtrl \in {NoCtrl, nctrl} /\ done = (1 .. nctrl) \ {mReqCtrl}
    BY DEF ReadInv, Told
  <2>14. CASE r < c
    <3>1. r \in 1 .. nctrl /\ r # 0
      BY <2>4, <2>7, <2>11, <2>14
    <3>2. r # mReqCtrl
      BY <2>4, <2>7, <2>12, <2>13, <2>14, <3>1 DEF NoCtrl
    <3> QED BY <2>13, <3>1, <3>2
  <2>15. CASE r = c /\ k = len
    <3>1. mReqCtrl = NoCtrl
      BY <2>10, <2>15
    <3>2. nctrl = c
      BY <2>4, <2>10, <2>15 DEF AtRest
    <3>3. r \in 1 .. nctrl /\ r # NoCtrl
      BY <2>4, <2>11, <2>15, <3>2 DEF NoCtrl
    <3> QED BY <2>13, <3>1, <3>3
  <2> QED BY <2>8, <2>14, <2>15
<1> QED BY <1>1, ReadInvHolds, PTL

(* No assert() of fetchMsg(), fetchData() or procRead() fails.               *)
THEOREM AssertsHold ==
  ASSUME ~SplitThenNext, ~ChunkedThenNext
  PROVE  Spec => []NoReaderAssertFails
<1>1. ReadInv => NoReaderAssertFails
  BY DEF ReadInv, NoReaderAssertFails
<1> QED BY <1>1, ReadInvHolds, PTL
=============================================================================
