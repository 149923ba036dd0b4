-------------------------- MODULE ServCnnAnswers --------------------------
(* A server connection is a pipelined server (module PipelinedServer): for   *)
(* every number of requests, every body, slice and set of responses, and     *)
(* whatever the socket does, each step of ServCnn is a step of the promise   *)
(* or invisible to the peer and the application.                             *)
EXTENDS ServCnnFraming

(* The response at the front has been read up to s: of its n, the peer has   *)
(* at most that response, and not while the controller has some of it left.  *)
NotOver(c, u, s) ==
  /\ s.n \in {c - 1, c}
  /\ Avail(u) = "some" => s.n = c - 1

AnsweredInTurn ==
  /\ sock = "broken" => peer = "down"
  /\ sock # "broken" => IF mCtrlList = << >> THEN PeerView.n = nreq
                        ELSE NotOver(FrontCtrl, ctrl[FrontCtrl], PeerView)

AnsInv == cnn = "open" => AnsweredInTurn

-----------------------------------------------------------------------------
(* What the peer has read of the front.                                      *)

LEMMA FrontNotOver ==
  ASSUME AppFits, NEW c \in Reqs, NEW u \in Ctrls, NEW s \in Readings, FrontAt(c, u, s),
         u.te => u.chk = << >>
  PROVE  NotOver(c, u, s)
<1>1. c \in Int /\ Sent(c).n = c /\ Sent(c - 1).n = c - 1 /\ \A ph, n : InBody(c, ph, n).n = c - 1
  BY DEF Reqs, Sent, InBody
<1>2. CASE Fresh(u) /\ s = Sent(c - 1)
  BY <1>1, <1>2 DEF NotOver
<1>3. CASE ReadTo(c, u, s)
  <2>1. ~u.hdr /\ u.strm \in Int
    BY <1>3, MaxLenAssumption DEF ReadTo, Ctrls, NoStrm
  <2>2. CASE u.te
    <3>1. After(s, c, << >>) = s
      BY AfterNone
    <3>2. s = (IF u.eos THEN Sent(c) ELSE InBody(c, "size", 0)) /\ u.chk = << >>
      BY <1>3, <2>2, <3>1 DEF ReadTo, ChunksAt
    <3>3. Avail(u) = "some" => ~u.eos
      BY <2>1, <2>2, <3>2 DEF Avail
    <3> QED BY <1>1, <3>2, <3>3 DEF NotOver
  <2>3. CASE ~u.te /\ u.strm = NoStrm
    <3>1. Avail(u) = "lack" /\ ManualAt(c, u, s)
      BY <1>3, <2>1, <2>3 DEF ReadTo, Avail
    <3> QED BY <1>1, <3>1 DEF NotOver, ManualAt
  <2>4. CASE ~u.te /\ u.strm # NoStrm
    <3>1. (Avail(u) = "some" => u.strm > 0) /\ StreamAt(c, u, s)
      BY <1>3, <2>1, <2>4 DEF ReadTo, Avail
    <3> QED BY <1>1, <2>1, <3>1 DEF NotOver, StreamAt
  <2> QED BY <2>2, <2>3, <2>4
<1> QED BY <1>2, <1>3 DEF FrontAt

(* A controller that may still send has not been answered.                   *)
LEMMA SendsBeforeOver ==
  ASSUME NEW c \in Reqs, NEW u \in Ctrls, NEW s \in Readings, ReadTo(c, u, s), ~u.eos,
         u.strm = NoStrm, NotOver(c, u, s)
  PROVE  s.n = c - 1 /\ (u.te /\ u.chk = << >> => s = InBody(c, "size", 0))
<1>1. c \in Int /\ \A ph, n : InBody(c, ph, n).n = c - 1
  BY DEF Reqs, InBody
<1>2. CASE u.te /\ u.chk # << >>
  <2>1. Avail(u) = "some"
    BY <1>2 DEF Avail, ReadTo
  <2> QED BY <1>2, <2>1 DEF NotOver
<1>3. CASE u.te /\ u.chk = << >>
  <2>1. After(s, c, << >>) = s
    BY AfterNone
  <2>2. s = InBody(c, "size", 0)
    BY <1>3, <2>1 DEF ReadTo, ChunksAt
  <2> QED BY <1>1, <2>2
<1>4. CASE ~u.te
  BY <1>1, <1>4 DEF ReadTo, ManualAt
<1> QED BY <1>2, <1>3, <1>4

(* A chunk that is not the last, or not whole, leaves the response open.     *)
LEMMA ChunkKeepsOpen ==
  ASSUME NEW c \in Reqs, NEW n \in 0 .. MaxLen, NEW k \in 0 .. 3, k # 3 \/ n # 0
  PROVE  After(InBody(c, "size", 0), c, ChunkHead(n, k)).n = c - 1
<1> DEFINE s == InBody(c, "size", 0)
           Size == Tok("size", n)
           Data == Tok("data", n)
<1>1. c \in Int /\ n \in Nat /\ Size \in Tokens /\ Data \in Tokens
  BY MaxLenAssumption DEF Reqs, Tok, Tokens
<1>2. s \in Readings
  BY <1>1, InBodyType
<1>3. /\ Receive(s, Entry(c, Size)) = InBody(c, IF n = 0 THEN "last" ELSE "chunk", n)
      /\ Receive(InBody(c, "chunk", n), Entry(c, Data)) = InBody(c, "crlf", 0)
  BY <1>1, ReadsChunk
<1>4. \A ph, m : InBody(c, ph, m).n = c - 1
  BY DEF InBody
<1>5. s.n = c - 1
  BY <1>4
<1> HIDE DEF s, Size, Data
<1>6. CASE k = 0
  BY <1>2, <1>5, <1>6, AfterNone DEF ChunkHead, s
<1>7. CASE k = 1 \/ (k = 2 /\ n = 0)
  <2>1. ChunkHead(n, k) = <<Size>>
    BY <1>7 DEF ChunkHead, Size
  <2>2. After(s, c, <<Size>>) = Receive(s, Entry(c, Size))
    BY <1>1, <1>2, AfterOne
  <2> QED BY <1>3, <1>4, <2>1, <2>2 DEF s
<1>8. CASE k = 2 /\ n # 0
  <2>1. ChunkHead(n, k) = <<Size, Data>>
    BY <1>8 DEF ChunkHead, Size, Data
  <2>2. After(s, c, <<Size, Data>>) = Receive(Receive(s, Entry(c, Size)), Entry(c, Data))
    BY <1>1, <1>2, AfterTwo
  <2> QED BY <1>3, <1>4, <1>8, <2>1, <2>2 DEF s
<1>9. CASE k = 3 /\ n # 0
  <2>1. After(s, c, Chunk(n)) = s
    BY <1>9, ChunkRead DEF s
  <2> QED BY <1>5, <1>9, <2>1 DEF Chunk, s
<1> QED BY <1>6, <1>7, <1>8, <1>9

-----------------------------------------------------------------------------
(* The counts of the promise.                                                *)

LEMMA Counts ==
  ASSUME IInv
  PROVE  /\ nreq \in Nat /\ nreq <= NReq /\ NReq \in Nat /\ PeerView.n \in Int
         /\ Len(mCtrlList) \in Nat /\ (mCtrlList = << >> <=> Len(mCtrlList) = 0)
         /\ FrontCtrl = nreq - Len(mCtrlList) + 1 /\ FrontCtrl \in Int
         /\ mCtrlList # << >> => FrontCtrl <= nreq
<1>1. nreq \in Nat /\ nreq <= NReq /\ NReq \in Nat /\ mCtrlList \in Seq(Reqs) /\ PeerView \in Readings
  BY NReqAssumption, ViewType DEF IInv, TypeOK
<1>2. Len(mCtrlList) \in Nat /\ (mCtrlList = << >> <=> Len(mCtrlList) = 0)
  BY <1>1, EmptySeq, LenProperties
<1>3. PeerView.n \in Int
  BY <1>1 DEF Readings
<1> QED BY <1>1, <1>2, <1>3 DEF FrontCtrl

(* A step that neither the peer nor the application can see.                 *)
LEMMA Unseen ==
  ASSUME AnsInv, UNCHANGED <<nreq, wire, mCtrlList, cnn, ctrl>>,
         sock' = "broken" <=> sock = "broken", peer' \in {peer, "down"}
  PROVE  AnsInv' /\ UNCHANGED Promise!vars
<1>1. PeerView' = PeerView /\ FrontCtrl' = FrontCtrl /\ Conn' = Conn
  BY ViewSame DEF FrontCtrl, Conn
<1> QED BY <1>1 DEF AnsInv, AnsweredInTurn, NotOver, Promise!vars

(* The front sends: at most its response is finished by it.                  *)
LEMMA FrontSendsOn ==
  ASSUME IInv, AnsInv, cnn = "open", sock # "broken", mCtrlList # << >>,
         UNCHANGED <<nreq, mCtrlList, cnn, peer>>, sock' # "broken",
         PeerView.n = FrontCtrl - 1, NotOver(FrontCtrl, ctrl'[FrontCtrl], PeerView')
  PROVE  AnsInv' /\ (Promise!Answer \/ UNCHANGED Promise!vars)
<1>1. FrontCtrl' = FrontCtrl /\ Conn' = Conn /\ Conn = "open"
  BY DEF FrontCtrl, Conn
<1>2. AnsInv'
  BY <1>1 DEF AnsInv, AnsweredInTurn
<1>3. CASE PeerView'.n = PeerView.n
  BY <1>1, <1>2, <1>3 DEF Promise!vars
<1>4. CASE PeerView'.n # PeerView.n
  <2>1. PeerView'.n = PeerView.n + 1
    BY <1>4, Counts DEF NotOver
  <2>2. PeerView.n = nreq - Len(mCtrlList) /\ PeerView.n < nreq
    BY Counts
  <2> QED BY <1>1, <1>2, <2>1, <2>2 DEF Promise!Answer
<1> QED BY <1>2, <1>3, <1>4

(* A packet of the front is refused.                                         *)
LEMMA FrontRefused ==
  ASSUME IInv, AnsInv, cnn = "open", mCtrlList # << >>,
         UNCHANGED <<nreq, mCtrlList, cnn, peer>>, sock' = "broken",
         PeerView'.n = PeerView.n, sock = "broken" \/ peer = "down"
  PROVE  AnsInv' /\ (Promise!Break \/ UNCHANGED Promise!vars)
<1>1. Conn' = "broken" /\ peer' = "down"
  BY DEF Conn, AnsInv, AnsweredInTurn
<1>2. AnsInv'
  BY <1>1 DEF AnsInv, AnsweredInTurn
<1>3. CASE sock = "broken"
  BY <1>1, <1>2, <1>3 DEF Conn, Promise!vars
<1>4. CASE sock # "broken"
  <2>1. Conn = "open" /\ nreq - Len(mCtrlList) < nreq
    BY <1>4, Counts DEF Conn
  <2> QED BY <1>1, <1>2, <2>1 DEF Promise!Break
<1> QED BY <1>3, <1>4

(* The front ends.                                                           *)
LEMMA FrontEndsNow ==
  ASSUME IInv, AppFits, FrameInv, AnsInv, cnn = "open", mCtrlList # << >>,
         EndCtrl(Head(mCtrlList)), UNCHANGED <<nreq, cnn, peer, wire>>,
         \/ sock' = sock /\ ctrl' = ctrl /\ (sock # "broken" => PeerView = Sent(FrontCtrl))
         \/ sock' = "broken" /\ (sock = "broken" \/ peer = "down")
  PROVE  AnsInv' /\ (Promise!End \/ Promise!Break \/ Promise!GiveUp)
<1>1. /\ Len(mCtrlList') = Len(mCtrlList) - 1 /\ mCtrlList' \in Seq(Reqs)
      /\ PeerView' = PeerView
  BY EndCtrlOrder, EndCtrlType, FrontIs, ViewSame DEF IInv
<1>2. FrontCtrl' = FrontCtrl + 1
  BY <1>1, Counts DEF FrontCtrl
<1>3. /\ nreq' - Len(mCtrlList') = (nreq - Len(mCtrlList)) + 1
      /\ nreq - Len(mCtrlList) < nreq
  BY <1>1, Counts
<1>4. CASE sock' = "broken"
  <2>1. peer' = "down" /\ Conn' = "broken"
    BY <1>4 DEF AnsInv, AnsweredInTurn, Conn
  <2>2. AnsInv'
    BY <1>4, <2>1 DEF AnsInv, AnsweredInTurn
  <2>3. CASE sock = "broken"
    <3>1. Conn = "broken"
      BY <2>3 DEF Conn
    <3> QED BY <1>1, <1>3, <2>1, <2>2, <3>1 DEF Promise!GiveUp
  <2>4. CASE sock # "broken"
    <3>1. Conn = "open"
      BY <2>4 DEF Conn
    <3> QED BY <1>1, <1>3, <2>1, <2>2, <3>1 DEF Promise!Break
  <2> QED BY <2>3, <2>4
<1>5. CASE sock' # "broken"
  <2>1. /\ sock # "broken" /\ PeerView.n = FrontCtrl /\ Conn = "open" /\ Conn' = "open"
        /\ sock' = sock /\ ctrl' = ctrl
    BY <1>5 DEF Sent, Conn
  <2>2. Promise!End
    <3>1. nreq - Len(mCtrlList) < PeerView.n
      BY <2>1, Counts
    <3> QED BY <1>1, <1>3, <2>1, <3>1 DEF Promise!End
  <2>3. PeerView'.n = FrontCtrl' - 1
    BY <1>1, <1>2, <2>1, Counts
  <2>4. AnsweredInTurn'
    <3>1. CASE mCtrlList' = << >>
      <4>1. Len(mCtrlList') = 0
        BY <3>1
      <4>3. FrontCtrl = nreq
        <5>1. Len(mCtrlList) = 1
          BY <1>1, <4>1, Counts
        <5> QED BY <5>1, Counts
      <4>2. PeerView'.n = nreq'
        BY <1>1, <2>1, <4>3
      <4> QED BY <1>5, <3>1, <4>2 DEF AnsweredInTurn
    <3>2. CASE mCtrlList' # << >>
      BY <1>5, <2>3, <3>2 DEF AnsweredInTurn, NotOver
    <3> QED BY <3>1, <3>2
  <2> QED BY <2>2, <2>4 DEF AnsInv
<1> QED BY <1>4, <1>5

-----------------------------------------------------------------------------
(* The handlers.                                                             *)

(* Either nothing is seen, or a step of the promise.                         *)
PromiseStep == Promise!Next \/ UNCHANGED Promise!vars

LEMMA TxAnswers ==
  ASSUME IInv, AppFits, FrameInv, AnsInv, Tx
  PROVE  AnsInv' /\ PromiseStep
<1> DEFINE c == FrontCtrl
           u == ctrl[c]
<1> USE DEF PromiseStep, Promise!Next
<1>1. mCtrlList # << >> /\ cnn = "open" /\ mRespCtrl = Head(mCtrlList)
  BY DEF IInv, NoDanglingCtrl, TxAtFront, HandlerIsOpen, Tx, TxBlocked, TxSend, TxDone, TxLack
<1>2. /\ c \in Reqs /\ Head(mCtrlList) = c /\ mRespCtrl = c
      /\ u \in Ctrls /\ PeerView \in Readings /\ PeerView.ok
      /\ sock # "broken" => BehindIsFresh /\ FrontAt(c, u, PeerView)
  BY <1>1, FrontFacts
<1>3. CASE TxBlocked
  BY <1>3, Unseen DEF TxBlocked, reqVars, listVars, endVars
<1>4. ASSUME NEW r \in {"OK", "PENDING", "FAIL"}, TxSend(r) PROVE AnsInv' /\ PromiseStep
  <2>1. /\ nreq' = nreq /\ cnn' = cnn /\ peer' = peer /\ Avail(u) = "some" /\ sock' = SockAfter(r)
        /\ r \in SendResults
    BY <1>2, <1>4 DEF TxSend, reqVars, endVars
  <2>2. CASE r = "FAIL"
    <3>1. /\ sock' = "broken" /\ EndCtrl(Head(mCtrlList)) /\ wire' = wire
          /\ sock = "broken" \/ peer = "down"
      BY <1>2, <1>4, <2>1, <2>2 DEF TxSend, SockAfter, SendResults
    <3> QED BY <1>1, <2>1, <3>1, FrontEndsNow
  <2>3. CASE r # "FAIL"
    <3> DEFINE v == Consumed(Prepared(u))
               w == After(PeerView, c, Offered(Prepared(u)))
    <3>1. sock # "broken" /\ sock' # "broken"
      BY <2>1, <2>3 DEF SendResults, SockAfter
    <3>2. /\ ctrl' = [ctrl EXCEPT ![c] = v] /\ wire' = wire \o OnWire(c, Offered(Prepared(u)))
          /\ mCtrlList' = mCtrlList
      BY <1>2, <1>4, <2>3 DEF TxSend, listVars
    <3>3. Offered(Prepared(u)) \in Seq(Tokens) /\ v \in Ctrls
      BY <1>2, <2>1, SendType
    <3>4. PeerView' = w /\ w \in Readings
      BY <1>2, <3>2, <3>3, WireAfter, AfterType DEF IInv
    <3>5. FrontAt(c, v, w)
      BY <1>2, <2>1, <3>1, FrontOffers
    <3>6. v.te => v.chk = << >>
      <4>1. CASE u.hdr
        <5>1. Fresh(u)
          BY <1>2, <3>1, <4>1 DEF FrontAt, ReadTo
        <5>2. u.chk = << >>
          BY <5>1, FreshIs
        <5> QED BY <1>2, <4>1, <5>2 DEF Consumed, Prepared, Ctrls
      <4>2. CASE ~u.hdr
        BY <1>2, <4>2 DEF Consumed, Prepared, Ctrls
      <4> QED BY <4>1, <4>2
    <3>7. ctrl'[c] = v
      BY <1>2, <3>2 DEF IInv, TypeOK
    <3>8. PeerView.n = c - 1
      BY <1>1, <2>1, <3>1 DEF AnsInv, AnsweredInTurn, NotOver
    <3> HIDE DEF v, w, u
    <3>9. NotOver(c, ctrl'[c], PeerView')
      BY <1>2, <3>3, <3>4, <3>5, <3>6, <3>7, FrontNotOver
    <3> QED BY <1>1, <2>1, <3>1, <3>2, <3>8, <3>9, FrontSendsOn
  <2> QED BY <2>2, <2>3
<1>5. ASSUME EndCtrl(mRespCtrl), UNCHANGED <<nreq, cnn, peer, wire, ctrl, sock>>,
             Avail(u) = "none" \/ (Avail(u) = "lack" /\ u.eos)
      PROVE  AnsInv' /\ PromiseStep
  <2>1. sock # "broken" => PeerView = Sent(c)
    BY <1>2, <1>5, EndIsSent
  <2> QED BY <1>1, <1>5, <2>1, FrontEndsNow
<1>6. CASE TxDone
  BY <1>2, <1>5, <1>6 DEF TxDone, reqVars, endVars
<1>7. CASE TxLack
  <2>1. CASE u.eos
    BY <1>2, <1>5, <1>7, <2>1 DEF TxLack, reqVars, endVars
  <2>2. CASE ~u.eos
    BY <1>2, <1>7, <2>2, Unseen DEF TxLack, reqVars, listVars, endVars
  <2> QED BY <2>1, <2>2
<1> QED BY <1>3, <1>4, <1>6, <1>7 DEF Tx

LEMMA SendDataAnswers ==
  ASSUME IInv, HdrGone, ~EagerSend, AppFits, FrameInv, AnsInv,
         NEW d \in Reqs, NEW len \in 0 .. MaxLen, SendData(d, len), FrameInv'
  PROVE  AnsInv' /\ PromiseStep
<1> DEFINE c == FrontCtrl
           u == ctrl[c]
<1> USE DEF PromiseStep, Promise!Next
<1>1. /\ cnn = "open" /\ Live(d) /\ d \in asked /\ ctrl[d].resp /\ ctrl[d].strm = NoStrm
      /\ len \in SendLens(ctrl[d]) /\ ~ctrl[d].hdr
      /\ UNCHANGED <<nreq, mCtrlList, asked, cnn, peer>>
  BY DEF SendData, HdrGone, reqVars, listVars, endVars
<1>2. mCtrlList # << >> /\ c <= d
  BY <1>1, LiveIsBehind
<1>3. /\ c \in Reqs /\ Head(mCtrlList) = c
      /\ u \in Ctrls /\ PeerView \in Readings /\ PeerView.ok
      /\ sock # "broken" => BehindIsFresh /\ FrontAt(c, u, PeerView)
  BY <1>1, <1>2, FrontFacts
<1>4. d = c
  <2>1. d <= c
    BY <1>1 DEF FrameInv, AskedAreFront
  <2> QED BY <1>2, <1>3, <2>1 DEF Reqs
<1>5. sock # "broken" => ReadTo(c, u, PeerView)
  <2>1. Fresh(u) => u.hdr
    BY <1>1, <1>4, FreshIs
  <2> QED BY <1>1, <1>3, <1>4, <2>1 DEF FrontAt
<1>6. ~u.eos
  BY <1>1, <1>4 DEF SendLens, MaySend
<1>7. sock # "broken" => /\ PeerView.n = c - 1 /\ NotOver(c, u, PeerView)
                         /\ u.te /\ u.chk = << >> => PeerView = InBody(c, "size", 0)
  <2>1. sock # "broken" => NotOver(c, u, PeerView)
    BY <1>1, <1>2 DEF AnsInv, AnsweredInTurn
  <2> QED BY <1>1, <1>3, <1>4, <1>5, <1>6, <2>1, SendsBeforeOver
<1>8. FrontCtrl' = c /\ mCtrlList' # << >> /\ cnn' = "open"
  BY <1>1, <1>2 DEF FrontCtrl
<1>9. ASSUME sock' # "broken", sock # "broken", ctrl'[c].te => ctrl'[c].chk = << >>,
             ctrl'[c] \in Ctrls, PeerView' \in Readings
      PROVE  AnsInv' /\ PromiseStep
  <2>1. FrontAt(c, ctrl'[c], PeerView')
    BY <1>8, <1>9 DEF FrameInv, PeerAtFront
  <2>2. NotOver(c, ctrl'[c], PeerView')
    BY <1>3, <1>9, <2>1, FrontNotOver
  <2> QED BY <1>1, <1>2, <1>7, <1>9, <2>2, FrontSendsOn
<1>10. ASSUME NEW r \in {"OK", "PENDING", "FAIL"}, SendPlain(d, len, r)
       PROVE  AnsInv' /\ PromiseStep
  <2>1. CASE r = "FAIL"
    <3>1. /\ UNCHANGED <<wire, ctrl>>
          /\ sock' = sock \/ (sock' = "broken" /\ (sock = "broken" \/ peer = "down"))
      BY <1>10, <2>1 DEF SendPlain, SockAfter, SendResults
    <3>2. CASE sock' = sock
      BY <1>1, <3>1, <3>2, Unseen
    <3>3. CASE sock' = "broken" /\ (sock = "broken" \/ peer = "down")
      <4>1. PeerView' = PeerView
        BY <3>1, ViewSame
      <4> QED BY <1>1, <1>2, <3>3, <4>1, FrontRefused
    <3> QED BY <3>1, <3>2, <3>3
  <2>2. CASE r # "FAIL"
    <3>1. /\ Direct(c) /\ sock # "broken" /\ sock' # "broken" /\ ~u.te
          /\ ctrl' = [ctrl EXCEPT ![c] = Written(u, len, << >>)]
          /\ wire' = wire \o OnWire(c, <<Tok("data", len)>>)
      BY <1>4, <1>10, <2>2 DEF SendPlain, SendResults, SockAfter
    <3>2. <<Tok("data", len)>> \in Seq(Tokens) /\ << >> \in Seq(Tokens)
      BY MaxLenAssumption DEF Tok, Tokens
    <3>3. PeerView' \in Readings
      BY <1>3, <3>1, <3>2, WireAfter, AfterType DEF IInv
    <3>4. ctrl'[c] = Written(u, len, << >>) /\ Written(u, len, << >>) \in Ctrls
      BY <1>3, <3>1, <3>2, WrittenType DEF IInv, TypeOK
    <3>5. ~Written(u, len, << >>).te
      BY <1>3, <3>1 DEF Written, Ctrls
    <3> QED BY <1>9, <3>1, <3>3, <3>4, <3>5
  <2> QED BY <2>1, <2>2
<1>11. ASSUME NEW k \in 0 .. 3, NEW r \in {"OK", "PENDING", "FAIL"}, SendTec(d, len, k, r)
       PROVE  AnsInv' /\ PromiseStep
  <2> DEFINE v == Written(u, len, ChunkTail(len, k))
  <2>1. /\ u.te /\ ctrl' = [ctrl EXCEPT ![c] = v]
        /\ wire' = wire \o OnWire(c, ChunkHead(len, k))
        /\ k # 0 => u.chk = << >> /\ Direct(c) /\ sock' = SockAfter(r)
        /\ sock = "broken" => k = 0 /\ sock' = "broken"
        /\ sock' = "broken" => k # 3 /\ (sock = "broken" \/ peer = "down")
    <3>1. /\ u.te /\ ctrl' = [ctrl EXCEPT ![c] = v]
          /\ wire' = wire \o OnWire(c, ChunkHead(len, k))
          /\ k # 0 => u.chk = << >> /\ Direct(c) /\ sock' = SockAfter(r)
      BY <1>4, <1>11 DEF SendTec
    <3>2. sock = "broken" => k = 0 /\ sock' = "broken"
      BY <1>4, <1>11 DEF SendTec, SendResults, SockAfter
    <3>3. sock' = "broken" => k # 3 /\ (sock = "broken" \/ peer = "down")
      BY <1>4, <1>11 DEF SendTec, SendResults, SockAfter
    <3> QED BY <3>1, <3>2, <3>3
  <2>2. /\ ChunkHead(len, k) \in Seq(Tokens) /\ ChunkTail(len, k) \in Seq(Tokens)
        /\ v \in Ctrls /\ ctrl'[c] = v
    <3>1. ChunkHead(len, k) \in Seq(Tokens) /\ ChunkTail(len, k) \in Seq(Tokens)
      BY ChunkType
    <3>2. v \in Ctrls
      BY <1>3, <3>1, WrittenType
    <3> HIDE DEF v
    <3> QED BY <1>3, <2>1, <3>1, <3>2 DEF IInv, TypeOK
  <2>3. v.te /\ v.chk = u.chk \o ChunkTail(len, k)
    BY <1>3, <2>1 DEF Written, Ctrls
  <2>4. PeerView' = After(PeerView, c, ChunkHead(len, k)) /\ PeerView' \in Readings
    BY <1>3, <2>1, <2>2, WireAfter, AfterType DEF IInv
  <2> HIDE DEF v
  <2>5. k = 0 => PeerView' = PeerView
    BY <1>3, <2>4, AfterNone DEF ChunkHead
  <2>6. sock # "broken" /\ k # 3 => PeerView'.n = PeerView.n
    <3>1. CASE k = 0
      BY <2>5, <3>1
    <3>2. ASSUME k # 0, k # 3, sock # "broken" PROVE PeerView'.n = PeerView.n
      <4>1. PeerView = InBody(c, "size", 0) /\ PeerView.n = c - 1
        BY <1>7, <2>1, <3>2
      <4> QED BY <1>3, <2>4, <3>2, <4>1, ChunkKeepsOpen
    <3> QED BY <3>1, <3>2
  <2>7. CASE sock' = "broken"
    <3>1. PeerView'.n = PeerView.n
      BY <2>1, <2>5, <2>6, <2>7
    <3> QED BY <1>1, <1>2, <2>1, <2>7, <3>1, FrontRefused
  <2>8. CASE sock' # "broken" /\ k = 3
    <3>1. v.chk = << >> \o << >>
      BY <2>1, <2>3, <2>8, ChunkTailAll
    <3>2. v.chk = << >> /\ sock # "broken"
      BY <2>1, <2>8, <3>1
    <3> QED BY <1>9, <2>2, <2>4, <2>8, <3>2
  <2>9. CASE sock' # "broken" /\ k # 3
    <3>1. sock # "broken" /\ PeerView'.n = c - 1
      BY <1>7, <2>1, <2>6, <2>9
    <3>2. NotOver(c, ctrl'[c], PeerView')
      BY <3>1 DEF NotOver
    <3> QED BY <1>1, <1>2, <1>7, <2>9, <3>1, <3>2, FrontSendsOn
  <2> QED BY <2>7, <2>8, <2>9
<1> QED BY <1>10, <1>11 DEF SendData

LEMMA RecvHdrAnswers ==
  ASSUME IInv, AppFits, FrameInv, AnsInv, NEW msgonly \in BOOLEAN, RecvHdr(msgonly)
  PROVE  AnsInv' /\ Promise!Arrive
<1>1. /\ nreq' = nreq + 1 /\ nreq < NReq /\ mCtrlList' = Append(mCtrlList, nreq + 1)
      /\ UNCHANGED <<ctrl, wire, sock, cnn, peer>> /\ cnn = "open" /\ peer = "up"
      /\ nreq \in Nat /\ nreq + 1 \in Reqs /\ mCtrlList \in Seq(Reqs)
  BY NReqAssumption DEF RecvHdr, endVars, IInv, TypeOK, Reqs
<1>2. /\ Len(mCtrlList') = Len(mCtrlList) + 1 /\ Len(mCtrlList) \in Nat /\ mCtrlList' # << >>
  BY <1>1, AppendProperties, LenProperties
<1>3. /\ FrontCtrl' = FrontCtrl /\ PeerView' = PeerView
      /\ nreq' - Len(mCtrlList') = nreq - Len(mCtrlList)
  BY <1>1, <1>2, ViewSame DEF FrontCtrl
<1>4. sock # "broken" /\ Conn = "open" /\ Conn' = "open"
  BY <1>1 DEF AnsInv, AnsweredInTurn, Conn
<1>5. Promise!Arrive
  BY <1>1, <1>3, <1>4 DEF Promise!Arrive
<1>6. NotOver(FrontCtrl, ctrl[FrontCtrl], PeerView)
  <2>1. CASE mCtrlList # << >>
    BY <1>1, <1>4, <2>1 DEF AnsInv, AnsweredInTurn
  <2>2. CASE mCtrlList = << >>
    <3>1. PeerView.n = nreq /\ FrontCtrl = nreq + 1
      BY <1>1, <1>4, <2>2, Counts DEF AnsInv, AnsweredInTurn
    <3>2. PeerView.n = FrontCtrl - 1
      BY <1>1, <3>1
    <3> QED BY <3>2 DEF NotOver
  <2> QED BY <2>1, <2>2
<1>7. AnsweredInTurn'
  BY <1>1, <1>2, <1>3, <1>4, <1>6 DEF AnsweredInTurn
<1> QED BY <1>5, <1>7 DEF AnsInv

LEMMA ResponseAnswers ==
  ASSUME IInv, AppFits, FrameInv, AnsInv, NEW c \in Reqs, NEW s \in AppShapes, Response(c, s)
  PROVE  AnsInv' /\ UNCHANGED Promise!vars
<1>1. /\ UNCHANGED <<nreq, mCtrlList, wire, sock, cnn, peer>> /\ cnn = "open"
      /\ ~ctrl[c].resp /\ Live(c) /\ ctrl' = [ctrl EXCEPT ![c] = Responded(ctrl[c], s)]
  BY DEF Response, reqVars, listVars, endVars
<1>2. mCtrlList # << >>
  BY <1>1, LiveIsBehind
<1>3. /\ FrontCtrl \in Reqs
      /\ sock # "broken" => FrontAt(FrontCtrl, ctrl[FrontCtrl], PeerView)
                            /\ NotOver(FrontCtrl, ctrl[FrontCtrl], PeerView)
  BY <1>1, <1>2, FrontFacts DEF AnsInv, AnsweredInTurn
<1>4. FrontCtrl' = FrontCtrl /\ PeerView' = PeerView /\ Conn' = Conn
  BY <1>1, ViewSame DEF FrontCtrl, Conn
<1>5. ASSUME sock # "broken" PROVE NotOver(FrontCtrl, ctrl'[FrontCtrl], PeerView)
  <2>1. CASE c = FrontCtrl
    <3>1. PeerView = Sent(c - 1)
      BY <1>1, <1>3, <1>5, <2>1 DEF FrontAt, ReadTo
    <3>2. PeerView.n = c - 1
      BY <3>1 DEF Sent
    <3> QED BY <2>1, <3>2 DEF NotOver
  <2>2. CASE c # FrontCtrl
    <3>1. ctrl'[FrontCtrl] = ctrl[FrontCtrl]
      BY <1>1, <1>3, <2>2 DEF IInv, TypeOK
    <3> QED BY <1>3, <1>5, <3>1
  <2> QED BY <2>1, <2>2
<1>6. AnsInv'
  BY <1>1, <1>2, <1>4, <1>5 DEF AnsInv, AnsweredInTurn
<1> QED BY <1>1, <1>4, <1>6 DEF Promise!vars

LEMMA CloseAnswers ==
  ASSUME IInv, AnsInv, NEW how \in {"closed", "freed"}, ClosedAs(how)
  PROVE  AnsInv' /\ Promise!Close
<1>1. /\ nreq' = nreq /\ mCtrlList' = << >> /\ wire' = wire /\ cnn = "open" /\ cnn' # "open"
  BY DEF ClosedAs, Close, reqVars
<1>2. Len(mCtrlList') = 0 /\ nreq - 0 = nreq /\ PeerView' = PeerView
  BY <1>1, Counts, ViewSame
<1>3. Conn # "closed" /\ Conn' = "closed"
  BY <1>1 DEF Conn
<1> QED BY <1>1, <1>2, <1>3 DEF AnsInv, Promise!Close

LEMMA StepAnswers ==
  ASSUME ~EagerSend, AppFits, IInv, HdrGone, FrameInv, AnsInv, [Next]_vars, FrameInv'
  PROVE  AnsInv' /\ PromiseStep
<1> USE DEF PromiseStep
<1>1. ASSUME UNCHANGED <<nreq, wire, mCtrlList, cnn, ctrl>>, sock' = "broken" <=> sock = "broken",
             peer' \in {peer, "down"}
      PROVE  AnsInv' /\ PromiseStep
  BY <1>1, Unseen
<1>2. ASSUME NEW msgonly \in BOOLEAN, RecvHdr(msgonly) PROVE AnsInv' /\ PromiseStep
  BY <1>2, RecvHdrAnswers DEF Promise!Next
<1>3. ASSUME NEW dataend \in BOOLEAN, NEW refused \in BOOLEAN, RecvData(dataend, refused)
      PROVE  AnsInv' /\ PromiseStep
  BY <1>1, <1>3 DEF RecvData, listVars
<1>4. CASE CallbackReturns
  BY <1>1, <1>4 DEF CallbackReturns, listVars, endVars
<1>5. ASSUME NEW c \in Reqs, NEW s \in AppShapes, Response(c, s) PROVE AnsInv' /\ PromiseStep
  BY <1>5, ResponseAnswers
<1>6. CASE Tx
  BY <1>6, TxAnswers
<1>7. CASE ReadyReturns
  BY <1>1, <1>7 DEF ReadyReturns, reqVars, listVars, endVars
<1>8. ASSUME NEW c \in Reqs, NEW len \in 0 .. MaxLen, SendData(c, len)
      PROVE  AnsInv' /\ PromiseStep
  BY <1>8, SendDataAnswers
<1>9. CASE Writable
  <2>1. UNCHANGED <<nreq, wire, mCtrlList, cnn, ctrl, peer>> /\ sock # "broken" /\ sock' # "broken"
    BY <1>9 DEF Writable, reqVars, listVars, endVars
  <2> QED BY <1>1, <2>1
<1>10. ASSUME NEW how \in {"closed", "freed"}, ClosedAs(how) PROVE AnsInv' /\ PromiseStep
  BY <1>10, CloseAnswers DEF Promise!Next
<1>11. CASE TimerTick
  BY <1>1, <1>11 DEF TimerTick, reqVars, listVars, endVars
<1>12. CASE PeerDown
  BY <1>1, <1>12 DEF PeerDown, reqVars, listVars
<1>13. CASE UNCHANGED vars
  BY <1>1, <1>13 DEF vars
<1> QED
  BY <1>2, <1>3, <1>4, <1>5, <1>6, <1>7, <1>8, <1>9, <1>10, <1>11, <1>12, <1>13
  DEF Next, Disconnect, Disconnected, Timeout

LEMMA InitAnswers == Init => AnsInv /\ Promise!Init
<1> SUFFICES ASSUME Init PROVE AnsInv /\ Promise!Init
  OBVIOUS
<1>1. nreq = 0 /\ mCtrlList = << >> /\ cnn = "open" /\ sock = "writable"
  BY DEF Init
<1>2. Len(mCtrlList) = 0
  BY <1>1
<1>3. PeerView = Sent(0)
  BY <1>1, InitFrame DEF FrameInv, PeerAtFront
<1>4. PeerView.n = 0
  BY <1>3 DEF Sent
<1>5. Conn = "open"
  BY <1>1 DEF Conn
<1>6. nreq - Len(mCtrlList) = 0
  <2>1. nreq = 0
    BY <1>1
  <2> QED BY <1>2, <2>1
<1>7. AnsInv
  BY <1>1, <1>4 DEF AnsInv, AnsweredInTurn
<1> QED BY <1>1, <1>4, <1>5, <1>6, <1>7 DEF Promise!Init

(* The connection implements the pipelined server, for an application that   *)
(* answers consistently and sends when it was asked: whatever starttx(),     *)
(* sendData() and the socket do between them, what the peer reads is one     *)
(* whole response after the other, and OnHttpEnd() comes between the end of  *)
(* one and the end of the next.                                              *)
THEOREM PromiseKept ==
  ASSUME ~EagerSend, AppFits
  PROVE  Spec => KeepsPromise
<1>1. IInv /\ HdrGone /\ FrameInv /\ FrameInv' /\ AnsInv /\ [Next]_vars
        => AnsInv' /\ [Promise!Next]_(Promise!vars)
  BY StepAnswers DEF PromiseStep
<1> QED BY <1>1, InitAnswers, FramingInvariance, PTL DEF Spec, KeepsPromise, Promise!Spec
=============================================================================
