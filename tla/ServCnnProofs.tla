--------------------------- MODULE ServCnnProofs ---------------------------
(* Proofs about ServCnn for every number of requests, every body length,     *)
(* every set of response shapes and every setting of the flags.              *)
EXTENDS ServCnn, SequenceTheorems, TLAPS

-----------------------------------------------------------------------------
(* What the controller's operators keep.                                     *)

(* The pieces of a chunk are tokens, however many of them the socket took.   *)
LEMMA ChunkType ==
  ASSUME NEW n \in 0 .. MaxLen, NEW k \in 0 .. 3
  PROVE  ChunkHead(n, k) \in Seq(Tokens) /\ ChunkTail(n, k) \in Seq(Tokens)
<1>1. \A t \in {"hdr", "size", "data", "crlf"} : Tok(t, n) \in Tokens /\ Tok(t, 0) \in Tokens
  BY MaxLenAssumption DEF Tok, Tokens
<1>2. \A j \in 0 .. 3 : ChunkHead(n, j) \in Seq(Tokens)
  BY <1>1 DEF ChunkHead
<1>3. ChunkHead(n, 3) \in Seq(Tokens) /\ Len(ChunkHead(n, k)) \in Nat
  BY <1>2
<1>4. ChunkTail(n, k) \in Seq(Tokens)
  BY <1>3 DEF ChunkTail
<1> QED BY <1>2, <1>4

(* A controller stays a controller through every call.                       *)
LEMMA RespondedType ==
  ASSUME NEW u \in Ctrls, NEW s \in Shapes
  PROVE  Responded(u, s) \in Ctrls
BY DEF Responded, Ctrls, Shapes

LEMMA NewCtrlType == NewCtrl \in Ctrls
BY MaxLenAssumption DEF NewCtrl, Ctrls, NoStrm, Chunked

LEMMA Slice1Type ==
  ASSUME NEW u \in Ctrls, u.strm # NoStrm
  PROVE  Slice1(u) \in 0 .. MaxLen /\ Slice1(u) <= u.strm
BY MaxLenAssumption, SliceAssumption DEF Slice1, Ctrls, NoStrm

LEMMA PreparedType ==
  ASSUME NEW u \in Ctrls
  PROVE  Prepared(u) \in Ctrls
<1>1. CASE ~u.hdr /\ u.te /\ u.chk = << >> /\ u.strm # NoStrm /\ ~u.eos
  <2>1. Slice1(u) \in 0 .. MaxLen /\ Slice1(u) <= u.strm
    BY <1>1, Slice1Type
  <2>2. Chunk(Slice1(u)) \in Seq(Tokens) /\ Chunk(0) \in Seq(Tokens)
    BY <2>1, ChunkType, MaxLenAssumption DEF Chunk
  <2>3. u.strm - Slice1(u) \in NoStrm .. MaxLen
    BY <2>1, MaxLenAssumption DEF Ctrls, NoStrm
  <2>4. (Chunk(Slice1(u)) \o (IF Slice1(u) = u.strm THEN Chunk(0) ELSE << >>)) \in Seq(Tokens)
    BY <2>2
  <2> QED BY <1>1, <2>3, <2>4 DEF Prepared, Ctrls
<1>2. CASE ~(~u.hdr /\ u.te /\ u.chk = << >> /\ u.strm # NoStrm /\ ~u.eos)
  BY <1>2 DEF Prepared
<1> QED BY <1>1, <1>2

(* What getDataPtr() offers when it offers something is a packet of tokens,  *)
(* and consuming it leaves a controller.                                     *)
LEMMA OfferedType ==
  ASSUME NEW v \in Ctrls, v.hdr \/ v.te \/ v.strm # NoStrm
  PROVE  Offered(v) \in Seq(Tokens)
<1>1. CASE v.hdr
  <2>1. Tok("hdr", v.clen) \in Tokens
    BY DEF Tok, Tokens, Ctrls, Chunked
  <2>2. <<Tok("hdr", v.clen)>> \in Seq(Tokens)
    BY <2>1
  <2> QED BY <1>1, <2>2 DEF Offered
<1>2. CASE ~v.hdr /\ v.te
  BY <1>2 DEF Offered, Ctrls
<1>3. CASE ~v.hdr /\ ~v.te
  <2>1. Slice1(v) \in 0 .. MaxLen
    BY <1>3, Slice1Type
  <2>2. Tok("data", Slice1(v)) \in Tokens
    BY <2>1, MaxLenAssumption DEF Tok, Tokens
  <2>3. <<Tok("data", Slice1(v))>> \in Seq(Tokens)
    BY <2>2
  <2> QED BY <1>3, <2>3 DEF Offered
<1> QED BY <1>1, <1>2, <1>3

LEMMA ConsumedType ==
  ASSUME NEW v \in Ctrls, v.hdr \/ v.te \/ v.strm # NoStrm
  PROVE  Consumed(v) \in Ctrls
<1>1. CASE v.hdr
  BY <1>1 DEF Consumed, Ctrls
<1>2. CASE ~v.hdr /\ v.te
  <2>1. << >> \in Seq(Tokens)
    OBVIOUS
  <2> QED BY <1>2, <2>1 DEF Consumed, Ctrls
<1>3. CASE ~v.hdr /\ ~v.te
  <2>1. Slice1(v) \in 0 .. MaxLen /\ Slice1(v) <= v.strm
    BY <1>3, Slice1Type
  <2>2. v.rcnt + Slice1(v) \in Nat /\ v.strm - Slice1(v) \in NoStrm .. MaxLen
    BY <2>1, MaxLenAssumption DEF Ctrls, NoStrm
  <2> QED BY <1>3, <2>2 DEF Consumed, Ctrls
<1> QED BY <1>1, <1>2, <1>3

(* The two together, for the controller the transmit loop looks at.          *)
LEMMA SendType ==
  ASSUME NEW u \in Ctrls, Avail(u) = "some"
  PROVE  /\ Offered(Prepared(u)) \in Seq(Tokens)
         /\ Consumed(Prepared(u)) \in Ctrls
<1>1. Prepared(u) \in Ctrls
  BY PreparedType
<1>2. Prepared(u).hdr \/ Prepared(u).te \/ Prepared(u).strm # NoStrm
  BY DEF Avail, Prepared, NoStrm, Ctrls
<1> QED BY <1>1, <1>2, OfferedType, ConsumedType

LEMMA WrittenType ==
  ASSUME NEW u \in Ctrls, NEW len \in 0 .. MaxLen, NEW s \in Seq(Tokens)
  PROVE  Written(u, len, s) \in Ctrls
<1>1. u.wcnt + len \in Nat /\ u.chk \o s \in Seq(Tokens)
  BY MaxLenAssumption DEF Ctrls
<1> QED BY <1>1 DEF Written, Ctrls

LEMMA OnWireType ==
  ASSUME NEW c \in Reqs, NEW toks \in Seq(Tokens)
  PROVE  /\ OnWire(c, toks) \in Seq([c : Reqs, tok : Tokens])
         /\ Len(OnWire(c, toks)) = Len(toks)
         /\ \A i \in 1 .. Len(toks) : OnWire(c, toks)[i].c = c
<1>1. DOMAIN toks = 1 .. Len(toks) /\ Len(toks) \in Nat
  OBVIOUS
<1>2. \A i \in 1 .. Len(toks) : [c |-> c, tok |-> toks[i]] \in [c : Reqs, tok : Tokens]
  OBVIOUS
<1>3. OnWire(c, toks) \in Seq([c : Reqs, tok : Tokens])
  BY <1>1, <1>2 DEF OnWire
<1>4. DOMAIN OnWire(c, toks) = 1 .. Len(toks)
  BY <1>1 DEF OnWire
<1> QED BY <1>1, <1>3, <1>4 DEF OnWire

-----------------------------------------------------------------------------
(* Every variable keeps its type.                                            *)

(* A controller leaves the list; the rest of it stays a list.                *)
LEMMA EndCtrlType ==
  ASSUME TypeOK, NEW c \in Reqs, mCtrlList # << >>, EndCtrl(c)
  PROVE  /\ mCtrlList' \in Seq(Reqs) /\ mDummyCtrlList' \in SUBSET Reqs
         /\ ended' \in [Reqs -> Nat]
BY DEF TypeOK, EndCtrl

(* What leaves for the socket is a sequence of tokens of that controller.    *)
LEMMA WireType ==
  ASSUME TypeOK, NEW c \in Reqs, NEW toks \in Seq(Tokens), wire' = wire \o OnWire(c, toks)
  PROVE  wire' \in Seq([c : Reqs, tok : Tokens])
<1>1. OnWire(c, toks) \in Seq([c : Reqs, tok : Tokens])
  BY OnWireType
<1>2. wire \in Seq([c : Reqs, tok : Tokens])
  BY DEF TypeOK
<1> QED BY <1>1, <1>2, ConcatProperties

LEMMA StartTxType ==
  ASSUME TypeOK, StartTx, pc \in {"idle", "hdr", "msg"}
  PROVE  /\ mTimerUpdate' \in BOOLEAN /\ mRespCtrl' \in Reqs \cup {NoCtrl}
         /\ pc' \in {"idle", "hdr", "msg", "tx", "ready"} /\ ret' \in {"idle", "hdr", "msg"}
<1>1. mCtrlList # << >> => Head(mCtrlList) \in Reqs
  BY HeadTailProperties DEF TypeOK
<1>2. CASE mCtrlList = << >>
  BY <1>2 DEF TypeOK, StartTx
<1>3. CASE mCtrlList # << >>
  BY <1>1, <1>3 DEF TypeOK, StartTx
<1> QED BY <1>2, <1>3

LEMMA TxType ==
  ASSUME TypeOK, NoDanglingCtrl, Tx
  PROVE  TypeOK'
<1>1. pc = "tx" /\ mCtrlList # << >> /\ mRespCtrl = Head(mCtrlList) /\ mRespCtrl \in Reqs
  BY DEF TypeOK, NoDanglingCtrl, TxAtFront, Tx, TxBlocked, TxSend, TxDone, TxLack
<1>2. ctrl[mRespCtrl] \in Ctrls
  BY <1>1 DEF TypeOK
<1>3. CASE TxBlocked
  BY <1>3 DEF TypeOK, TxBlocked, LeaveTx, reqVars, listVars, endVars
<1>4. ASSUME NEW r \in {"OK", "PENDING", "FAIL"}, TxSend(r) PROVE TypeOK'
  <2> DEFINE u == Prepared(ctrl[mRespCtrl])
  <2>1. /\ u \in Ctrls
        /\ r # "FAIL" => Consumed(u) \in Ctrls /\ Offered(u) \in Seq(Tokens)
    BY <1>2, <1>4, PreparedType, SendType DEF TxSend
  <2>2. ctrl' \in [Reqs -> Ctrls]
    BY <1>1, <1>4, <2>1 DEF TxSend, TypeOK
  <2>3. wire' \in Seq([c : Reqs, tok : Tokens])
    BY <1>1, <1>4, <2>1, WireType DEF TxSend, TypeOK
  <2>4. /\ mCtrlList' \in Seq(Reqs) /\ mDummyCtrlList' \in SUBSET Reqs
        /\ ended' \in [Reqs -> Nat]
    BY <1>1, <1>4, EndCtrlType DEF TxSend, TypeOK, listVars
  <2>5. /\ sock' \in {"writable", "pending", "broken", "closed"}
        /\ pc' \in {"idle", "hdr", "msg", "tx", "ready"}
        /\ mRespCtrl' \in Reqs \cup {NoCtrl} /\ mPauseSend' \in BOOLEAN
    BY <1>4 DEF TxSend, SockAfter, LeaveTx, TypeOK
  <2> QED BY <1>4, <2>2, <2>3, <2>4, <2>5 DEF TxSend, TypeOK, reqVars, endVars
<1>5. CASE TxDone
  <2>1. /\ mCtrlList' \in Seq(Reqs) /\ mDummyCtrlList' \in SUBSET Reqs
        /\ ended' \in [Reqs -> Nat]
    BY <1>1, <1>5, EndCtrlType DEF TxDone
  <2>2. /\ pc' \in {"idle", "hdr", "msg", "tx", "ready"}
        /\ mRespCtrl' \in Reqs \cup {NoCtrl}
    BY <1>1, <1>5 DEF TxDone, NextCtrl, LeaveTx, TypeOK
  <2> QED BY ZenonT(40), <1>5, <2>1, <2>2 DEF TxDone, TypeOK, reqVars, endVars
<1>6. CASE TxLack
  <2>1. /\ mCtrlList' \in Seq(Reqs) /\ mDummyCtrlList' \in SUBSET Reqs
        /\ ended' \in [Reqs -> Nat]
    BY <1>1, <1>6, EndCtrlType DEF TxLack, TypeOK, listVars
  <2>2. /\ pc' \in {"idle", "hdr", "msg", "tx", "ready"}
        /\ mRespCtrl' \in Reqs \cup {NoCtrl} /\ asked' \in SUBSET Reqs
    BY <1>1, <1>6 DEF TxLack, LeaveTx, TypeOK
  <2> QED BY <1>6, <2>1, <2>2 DEF TxLack, TypeOK, reqVars, endVars
<1> QED BY <1>3, <1>4, <1>5, <1>6 DEF Tx

LEMMA SendDataType ==
  ASSUME TypeOK, NEW c \in Reqs, NEW len \in 0 .. MaxLen, SendData(c, len)
  PROVE  TypeOK'
<1>1. ctrl[c] \in Ctrls
  BY DEF TypeOK
<1>2. asserted' \in SUBSET {"mHdrStrm.remain()==0"}
  BY DEF SendData, TypeOK
<1>3. ASSUME NEW r \in {"OK", "PENDING", "FAIL"}, SendPlain(c, len, r) PROVE TypeOK'
  <2>1. Written(ctrl[c], len, << >>) \in Ctrls
    BY <1>1, WrittenType, EmptySeq
  <2>2. Tok("data", len) \in Tokens /\ <<Tok("data", len)>> \in Seq(Tokens)
    BY MaxLenAssumption DEF Tok, Tokens
  <2>3. ctrl' \in [Reqs -> Ctrls] /\ armed' \in BOOLEAN
    BY <1>3, <2>1 DEF SendPlain, TypeOK
  <2>4. wire' \in Seq([c : Reqs, tok : Tokens])
    BY <1>3, <2>2, WireType DEF SendPlain, TypeOK
  <2>5. /\ sock' \in {"writable", "pending", "broken", "closed"}
        /\ mTimerUpdate' \in BOOLEAN /\ mPauseSend' \in BOOLEAN
    BY <1>3 DEF SendPlain, SockAfter, TypeOK
  <2> QED
    BY <1>2, <2>3, <2>4, <2>5 DEF SendData, TypeOK, reqVars, listVars, endVars
<1>4. ASSUME NEW k \in 0 .. 3, NEW r \in {"OK", "PENDING", "FAIL"}, SendTec(c, len, k, r)
      PROVE  TypeOK'
  <2>1. ChunkHead(len, k) \in Seq(Tokens) /\ ChunkTail(len, k) \in Seq(Tokens)
    BY ChunkType
  <2>2. Written(ctrl[c], len, ChunkTail(len, k)) \in Ctrls
    BY <1>1, <2>1, WrittenType
  <2>3. ctrl' \in [Reqs -> Ctrls] /\ armed' \in BOOLEAN
    BY <1>4, <2>2 DEF SendTec, TypeOK
  <2>4. wire' \in Seq([c : Reqs, tok : Tokens])
    BY <1>4, <2>1, WireType DEF SendTec, TypeOK
  <2>5. /\ sock' \in {"writable", "pending", "broken", "closed"}
        /\ mTimerUpdate' \in BOOLEAN /\ mPauseSend' \in BOOLEAN
    BY <1>4 DEF SendTec, SockAfter, TypeOK
  <2> QED
    BY <1>2, <2>3, <2>4, <2>5 DEF SendData, TypeOK, reqVars, listVars, endVars
<1> QED BY <1>3, <1>4 DEF SendData

(* The type invariant is inductive together with NoDanglingCtrl.             *)
LEMMA TypeStep ==
  ASSUME TypeOK, NoDanglingCtrl, [Next]_vars
  PROVE  TypeOK'
<1>1. ASSUME NEW msgonly \in BOOLEAN, RecvHdr(msgonly) PROVE TypeOK'
  <2>1. nreq + 1 \in Reqs /\ nreq' \in 0 .. NReq
    BY <1>1, NReqAssumption DEF RecvHdr, TypeOK, Reqs
  <2>2. mCtrlList' \in Seq(Reqs)
    BY <1>1, <2>1, AppendProperties DEF RecvHdr, TypeOK
  <2> QED BY <1>1, <2>1, <2>2 DEF RecvHdr, ClearDummyCtrl, TypeOK, endVars
<1>2. ASSUME NEW dataend \in BOOLEAN, NEW refused \in BOOLEAN, RecvData(dataend, refused)
      PROVE  TypeOK'
  BY <1>2 DEF RecvData, TypeOK, listVars
<1>3. CASE CallbackReturns
  BY <1>3 DEF CallbackReturns, TypeOK, listVars, endVars
<1>4. ASSUME NEW c \in Reqs, NEW s \in AppShapes, Response(c, s) PROVE TypeOK'
  <2>1. ctrl' \in [Reqs -> Ctrls]
    <3>1. Responded(ctrl[c], s) \in Ctrls
      BY RespondedType, AppShapesAssumption DEF TypeOK
    <3> QED BY <1>4, <3>1 DEF Response, TypeOK
  <2>2. /\ mTimerUpdate' \in BOOLEAN /\ mRespCtrl' \in Reqs \cup {NoCtrl}
        /\ pc' \in {"idle", "hdr", "msg", "tx", "ready"} /\ ret' \in {"idle", "hdr", "msg"}
    BY <1>4, StartTxType DEF Response
  <2> QED BY <1>4, <2>1, <2>2 DEF Response, TypeOK, reqVars, listVars, endVars
<1>5. CASE Tx
  BY <1>5, TxType
<1>6. CASE ReadyReturns
  BY <1>6 DEF ReadyReturns, LeaveTx, TypeOK, reqVars, listVars, endVars
<1>7. ASSUME NEW c \in Reqs, NEW len \in 0 .. MaxLen, SendData(c, len) PROVE TypeOK'
  BY <1>7, SendDataType
<1>8. CASE Writable
  <2>1. /\ mTimerUpdate' \in BOOLEAN /\ mRespCtrl' \in Reqs \cup {NoCtrl}
        /\ pc' \in {"idle", "hdr", "msg", "tx", "ready"} /\ ret' \in {"idle", "hdr", "msg"}
    BY <1>8, StartTxType DEF Writable
  <2> QED BY <1>8, <2>1 DEF Writable, TypeOK, reqVars, listVars, endVars
<1>9. ASSUME NEW how \in {"closed", "freed"}, ClosedAs(how) PROVE TypeOK'
  <2>1. mCtrlList' \in Seq(Reqs) /\ ended' \in [Reqs -> Nat]
    BY <1>9, EmptySeq DEF ClosedAs, Close, TypeOK
  <2> QED BY <1>9, <2>1 DEF ClosedAs, Close, ClearDummyCtrl, TypeOK, reqVars
<1>10. CASE TimerTick
  BY <1>10 DEF TimerTick, TypeOK, reqVars, listVars, endVars
<1>11. CASE PeerDown
  BY <1>11 DEF PeerDown, TypeOK, reqVars, listVars
<1>12. CASE UNCHANGED vars
  BY <1>12 DEF vars, TypeOK
<1> QED
  BY <1>1, <1>2, <1>3, <1>4, <1>5, <1>6, <1>7, <1>8, <1>9, <1>10, <1>11, <1>12
  DEF Next, Disconnect, Disconnected, Timeout

-----------------------------------------------------------------------------
(* Order: who is in the list, who has ended, whose bytes are on the wire.    *)

(* The request body being received belongs to the newest controller.         *)
ReqCtrlIsLast == cnn = "open" /\ mReqCtrl # NoCtrl => mReqCtrl = nreq

(* A handler only runs on an open connection.                                *)
HandlerIsOpen == pc # "idle" => cnn = "open"

(* The wire is sorted, and nothing on it is from behind the front.           *)
WireOrder ==
  /\ \A i, j \in DOMAIN wire : i < j => wire[i].c <= wire[j].c
  /\ \A i \in DOMAIN wire : /\ wire[i].c <= nreq
                             /\ wire[i].c <= nreq - Len(mCtrlList) + 1

(* The inductive invariant.  EndedInOrder makes the list the requests        *)
(* nreq - Len + 1 .. nreq, so that "not behind the front" is arithmetic.     *)
IInv == TypeOK /\ EndedInOrder /\ NoDanglingCtrl /\ ReqCtrlIsLast /\ HandlerIsOpen /\ WireOrder

(* A wire entry names the request it belongs to.                             *)
LEMMA WireIsNumbered ==
  ASSUME TypeOK
  PROVE  \A i \in DOMAIN wire : wire[i].c \in Nat
<1> SUFFICES ASSUME NEW i \in DOMAIN wire PROVE wire[i].c \in Nat
  OBVIOUS
<1>1. wire \in Seq([c : Reqs, tok : Tokens]) /\ i \in 1 .. Len(wire)
  BY LenProperties DEF TypeOK
<1>2. wire[i] \in [c : Reqs, tok : Tokens]
  BY <1>1, ElementOfSeq
<1> QED BY <1>2 DEF Reqs

(* The front of the list is the oldest request that has not ended.           *)
LEMMA FrontIs ==
  ASSUME TypeOK, EndedInOrder, mCtrlList # << >>
  PROVE  /\ Len(mCtrlList) \in 1 .. nreq
         /\ Head(mCtrlList) = nreq - Len(mCtrlList) + 1
         /\ Head(mCtrlList) \in Reqs
<1>1. Len(mCtrlList) \in Nat \ {0} /\ nreq \in Nat /\ DOMAIN mCtrlList = 1 .. Len(mCtrlList)
  BY EmptySeq, LenProperties, NReqAssumption DEF TypeOK
<1>2. Head(mCtrlList) = mCtrlList[1] /\ mCtrlList[1] \in Reqs
  BY <1>1, HeadTailProperties, ElementOfSeq DEF TypeOK
<1> QED BY <1>1, <1>2 DEF EndedInOrder, Reqs

(* endCtrl() of the front ends exactly the next request in order.            *)
LEMMA EndCtrlOrder ==
  ASSUME TypeOK, EndedInOrder, mCtrlList # << >>, EndCtrl(Head(mCtrlList)), nreq' = nreq
  PROVE  EndedInOrder' /\ Len(mCtrlList') = Len(mCtrlList) - 1
<1>1. /\ Len(mCtrlList) \in 1 .. nreq /\ nreq \in Nat
      /\ Head(mCtrlList) = nreq - Len(mCtrlList) + 1 /\ Head(mCtrlList) \in Reqs
  BY FrontIs, NReqAssumption DEF TypeOK
<1>2. /\ mCtrlList' \in Seq(Reqs) /\ Len(mCtrlList') = Len(mCtrlList) - 1
      /\ \A i \in 1 .. Len(mCtrlList') : mCtrlList'[i] = mCtrlList[i + 1]
  BY HeadTailProperties DEF EndCtrl, TypeOK
<1>3. DOMAIN mCtrlList = 1 .. Len(mCtrlList) /\ DOMAIN mCtrlList' = 1 .. Len(mCtrlList')
  BY <1>2, LenProperties DEF TypeOK
<1>4. \A i \in DOMAIN mCtrlList' : mCtrlList'[i] = nreq' - Len(mCtrlList') + i
  <2> SUFFICES ASSUME NEW i \in 1 .. Len(mCtrlList')
               PROVE  mCtrlList'[i] = nreq' - Len(mCtrlList') + i
    BY <1>3
  <2>1. i + 1 \in DOMAIN mCtrlList
    BY <1>1, <1>2, <1>3
  <2>2. mCtrlList[i + 1] = nreq - Len(mCtrlList) + (i + 1)
    BY <2>1 DEF EndedInOrder
  <2> QED BY <1>1, <1>2, <2>2
<1>5. \A c \in Reqs : ended'[c] = IF c <= nreq' - Len(mCtrlList') THEN 1 ELSE 0
  BY <1>1, <1>2 DEF EndedInOrder, EndCtrl, TypeOK, Reqs
<1> QED BY <1>2, <1>4, <1>5 DEF EndedInOrder

(* The controller of the request being received stays allocated when the     *)
(* front ends: it is that front, now a dummy, or still in the list.          *)
LEMMA EndCtrlKeepsReq ==
  ASSUME TypeOK, EndedInOrder, ReqCtrlIsLast, mCtrlList # << >>, EndCtrl(Head(mCtrlList)),
         UNCHANGED <<nreq, mReqCtrl, cnn>>, cnn = "open", mReqCtrl # NoCtrl
  PROVE  Live(mReqCtrl)' \/ mReqCtrl' \in mDummyCtrlList'
<1>1. /\ Len(mCtrlList) \in 1 .. nreq /\ nreq \in Nat
      /\ Head(mCtrlList) = nreq - Len(mCtrlList) + 1
  BY FrontIs, NReqAssumption DEF TypeOK
<1>2. EndedInOrder' /\ Len(mCtrlList') = Len(mCtrlList) - 1 /\ mReqCtrl = nreq
  BY EndCtrlOrder DEF ReqCtrlIsLast
<1>3. CASE Len(mCtrlList) = 1
  <2>1. Head(mCtrlList) = mReqCtrl'
    BY <1>1, <1>2, <1>3
  <2> QED BY <2>1 DEF EndCtrl
<1>4. CASE Len(mCtrlList) > 1
  <2>1. mCtrlList' \in Seq(Reqs) /\ DOMAIN mCtrlList' = 1 .. Len(mCtrlList')
    BY HeadTailProperties, LenProperties DEF EndCtrl, TypeOK
  <2>2. Len(mCtrlList') \in DOMAIN mCtrlList'
    BY <1>1, <1>2, <1>4, <2>1
  <2>3. mCtrlList'[Len(mCtrlList')] = nreq
    BY <1>1, <1>2, <2>2 DEF EndedInOrder
  <2>4. Live(mReqCtrl)'
    BY <1>2, <2>2, <2>3 DEF Live
  <2> QED BY <2>4
<1>5. Len(mCtrlList) = 1 \/ Len(mCtrlList) > 1
  <2>1. \A m \in Nat : \A n \in 1 .. m : n = 1 \/ n > 1
    OBVIOUS
  <2> QED BY <1>1, <2>1
<1> QED BY <1>3, <1>4, <1>5

(* Bytes from the front keep the wire sorted.                                *)
LEMMA WireOrderSend ==
  ASSUME TypeOK, EndedInOrder, WireOrder, mCtrlList # << >>, NEW toks \in Seq(Tokens),
         wire' = wire \o OnWire(Head(mCtrlList), toks), UNCHANGED <<nreq, mCtrlList>>
  PROVE  WireOrder'
<1> DEFINE c == Head(mCtrlList)
           w == OnWire(c, toks)
           T == [c : Reqs, tok : Tokens]
<1>1. Len(mCtrlList) \in 1 .. nreq /\ nreq \in Nat /\ c = nreq - Len(mCtrlList) + 1 /\ c \in Reqs
  BY FrontIs, NReqAssumption DEF TypeOK
<1>2. w \in Seq(T) /\ \A i \in 1 .. Len(w) : w[i].c = c
  BY <1>1, OnWireType
<1>3. wire \in Seq(T)
  BY DEF TypeOK
<1>4. /\ wire' \in Seq(T) /\ Len(wire') = Len(wire) + Len(w)
      /\ \A i \in 1 .. Len(wire) + Len(w) :
            wire'[i] = IF i <= Len(wire) THEN wire[i] ELSE w[i - Len(wire)]
  BY <1>2, <1>3, ConcatProperties
<1>5. /\ DOMAIN wire = 1 .. Len(wire) /\ DOMAIN wire' = 1 .. Len(wire')
      /\ Len(wire) \in Nat /\ Len(w) \in Nat
  BY <1>2, <1>3, <1>4, LenProperties
<1> HIDE DEF w, c
<1>6. \A i \in DOMAIN wire' : IF i <= Len(wire) THEN i \in DOMAIN wire /\ wire'[i].c = wire[i].c
                                                ELSE wire'[i].c = c
  <2> SUFFICES ASSUME NEW i \in DOMAIN wire'
               PROVE  IF i <= Len(wire) THEN i \in DOMAIN wire /\ wire'[i].c = wire[i].c
                                        ELSE wire'[i].c = c
    OBVIOUS
  <2>1. i \in 1 .. Len(wire) + Len(w)
    BY <1>4, <1>5
  <2>2. CASE i <= Len(wire)
    BY <1>4, <1>5, <2>1, <2>2
  <2>3. CASE i > Len(wire)
    <3>1. i - Len(wire) \in 1 .. Len(w) /\ wire'[i] = w[i - Len(wire)]
      BY <1>4, <1>5, <2>1, <2>3
    <3> QED BY <1>2, <2>3, <3>1
  <2> QED BY <1>5, <2>1, <2>2, <2>3
<1>7. \A i \in DOMAIN wire : wire[i].c \in Nat /\ wire[i].c <= c
  <2> SUFFICES ASSUME NEW i \in DOMAIN wire PROVE wire[i].c \in Nat /\ wire[i].c <= c
    OBVIOUS
  <2>1. wire[i] \in T
    BY <1>3, <1>5, ElementOfSeq
  <2>2. wire[i].c \in Nat
    BY <2>1 DEF Reqs
  <2> QED BY <1>1, <2>2 DEF WireOrder
<1>8. \A i, j \in DOMAIN wire' : i < j => wire'[i].c <= wire'[j].c
  <2> SUFFICES ASSUME NEW i \in DOMAIN wire', NEW j \in DOMAIN wire', i < j
               PROVE  wire'[i].c <= wire'[j].c
    OBVIOUS
  <2>1. CASE j <= Len(wire)
    <3>1. i <= Len(wire)
      BY <1>4, <1>5, <2>1
    <3> QED BY <1>6, <2>1, <3>1 DEF WireOrder
  <2>2. CASE j > Len(wire)
    <3>1. wire'[j].c = c /\ c \in Nat
      BY SMTT(30), <1>1, <1>4, <1>5, <1>6, <2>2 DEF Reqs
    <3> QED BY <1>6, <1>7, <3>1
  <2> QED BY <1>4, <1>5, <2>1, <2>2
<1>9. \A i \in DOMAIN wire' : wire'[i].c <= c
  BY <1>1, <1>6, <1>7 DEF Reqs
<1>10. \A i \in DOMAIN wire' : /\ wire'[i].c <= nreq'
                               /\ wire'[i].c <= nreq' - Len(mCtrlList') + 1
  <2> SUFFICES ASSUME NEW i \in DOMAIN wire'
               PROVE  wire'[i].c <= nreq' /\ wire'[i].c <= nreq' - Len(mCtrlList') + 1
    OBVIOUS
  <2>1. wire'[i].c \in Nat /\ wire'[i].c <= c
    BY <1>1, <1>6, <1>7, <1>9 DEF Reqs
  <2> QED BY SMTT(30), <1>1, <2>1
<1> QED BY <1>8, <1>10 DEF WireOrder

-----------------------------------------------------------------------------
(* Steps.  The order is about eight variables; most steps leave them alone,  *)
(* and a step of a handler moves pc within the open connection.              *)

(* The parts of the invariant that are only about these variables.           *)
orderVars == <<nreq, mCtrlList, mDummyCtrlList, ended, wire, mReqCtrl, cnn>>

LEMMA OrderUnchanged ==
  ASSUME EndedInOrder, ReqCtrlIsLast, WireOrder, UNCHANGED orderVars
  PROVE  EndedInOrder' /\ ReqCtrlIsLast' /\ WireOrder'
BY DEF EndedInOrder, ReqCtrlIsLast, WireOrder, orderVars

LEMMA KeptUnchanged ==
  ASSUME ReqCtrlIsKept, UNCHANGED orderVars
  PROVE  ReqCtrlIsKept'
BY DEF ReqCtrlIsKept, Live, orderVars

(* The front ends and the wire stays.                                        *)
LEMMA FrontEnds ==
  ASSUME IInv, mCtrlList # << >>, EndCtrl(Head(mCtrlList)), UNCHANGED <<nreq, mReqCtrl, cnn, wire>>
  PROVE  EndedInOrder' /\ ReqCtrlIsLast' /\ WireOrder' /\ ReqCtrlIsKept'
<1>1. EndedInOrder' /\ Len(mCtrlList') = Len(mCtrlList) - 1
  BY EndCtrlOrder DEF IInv
<1>2. ReqCtrlIsLast'
  BY DEF IInv, ReqCtrlIsLast
<1>3. ReqCtrlIsKept'
  <2>1. CASE cnn = "open" /\ mReqCtrl # NoCtrl
    BY <2>1, EndCtrlKeepsReq DEF IInv, ReqCtrlIsKept
  <2>2. CASE ~(cnn = "open" /\ mReqCtrl # NoCtrl)
    BY <2>2 DEF ReqCtrlIsKept
  <2> QED BY <2>1, <2>2
<1>4. WireOrder'
  <2>1. Len(mCtrlList) \in 1 .. nreq /\ nreq \in Nat
    BY FrontIs, NReqAssumption DEF IInv, TypeOK
  <2>2. \A i \in DOMAIN wire : wire[i].c \in Nat
    BY WireIsNumbered DEF IInv
  <2>3. \A i \in DOMAIN wire' : wire'[i].c <= nreq' /\ wire'[i].c <= nreq' - Len(mCtrlList') + 1
    BY <1>1, <2>1, <2>2 DEF IInv, WireOrder
  <2>4. \A i, j \in DOMAIN wire' : i < j => wire'[i].c <= wire'[j].c
    BY DEF IInv, WireOrder
  <2> QED BY <2>3, <2>4 DEF WireOrder
<1> QED BY <1>1, <1>2, <1>3, <1>4

(* The front sends and the list stays.                                       *)
LEMMA FrontSends ==
  ASSUME IInv, mCtrlList # << >>, NEW toks \in Seq(Tokens),
         wire' = wire \o OnWire(Head(mCtrlList), toks),
         UNCHANGED <<nreq, mCtrlList, mDummyCtrlList, ended, mReqCtrl, cnn>>
  PROVE  EndedInOrder' /\ ReqCtrlIsLast' /\ WireOrder' /\ ReqCtrlIsKept'
<1>1. WireOrder'
  BY WireOrderSend DEF IInv
<1>2. EndedInOrder' /\ ReqCtrlIsLast'
  BY DEF IInv, EndedInOrder, ReqCtrlIsLast
<1>3. ReqCtrlIsKept'
  BY DEF IInv, NoDanglingCtrl, ReqCtrlIsKept, Live
<1> QED BY <1>1, <1>2, <1>3

(* A step of the transmit loop.                                              *)
LEMMA TxOrder ==
  ASSUME IInv, Tx
  PROVE  IInv'
<1> USE DEF IInv
<1>0. /\ pc = "tx" /\ mCtrlList # << >> /\ mRespCtrl = Head(mCtrlList) /\ cnn = "open"
      /\ Head(mCtrlList) \in Reqs /\ ret \in {"idle", "hdr", "msg"} /\ ReqCtrlIsKept
  BY FrontIs DEF NoDanglingCtrl, TxAtFront, HandlerIsOpen, Tx, TxBlocked, TxSend, TxDone, TxLack, TypeOK
<1>1. TypeOK'
  BY TxType
<1>2. cnn' = cnn /\ nreq' = nreq /\ mReqCtrl' = mReqCtrl
  BY DEF Tx, TxBlocked, TxSend, TxDone, TxLack, endVars, reqVars
<1>3. HandlerIsOpen'
  BY <1>0, <1>2 DEF HandlerIsOpen
<1>4. CASE TxBlocked
  <2>1. UNCHANGED orderVars /\ pc' \notin {"tx", "ready"}
    BY <1>0, <1>2, <1>4 DEF TxBlocked, LeaveTx, orderVars, listVars
  <2> QED BY <1>0, <1>1, <1>3, <2>1, OrderUnchanged, KeptUnchanged DEF NoDanglingCtrl, TxAtFront
<1>5. ASSUME NEW r \in {"OK", "PENDING", "FAIL"}, TxSend(r) PROVE IInv'
  <2>1. CASE r = "FAIL"
    <3>1. EndCtrl(Head(mCtrlList)) /\ wire' = wire /\ pc' \notin {"tx", "ready"}
      BY <1>0, <1>5, <2>1 DEF TxSend, LeaveTx
    <3> QED BY <1>0, <1>1, <1>2, <1>3, <3>1, FrontEnds DEF NoDanglingCtrl, TxAtFront
  <2>2. CASE r # "FAIL"
    <3> DEFINE toks == Offered(Prepared(ctrl[mRespCtrl]))
    <3>1. toks \in Seq(Tokens)
      BY <1>0, <1>5, SendType DEF TxSend, TypeOK
    <3>2. /\ wire' = wire \o OnWire(Head(mCtrlList), toks)
          /\ UNCHANGED <<mCtrlList, mDummyCtrlList, ended, mRespCtrl>>
      BY <1>0, <1>5, <2>2 DEF TxSend, listVars
    <3> HIDE DEF toks
    <3>3. EndedInOrder' /\ ReqCtrlIsLast' /\ WireOrder' /\ ReqCtrlIsKept'
      BY <1>0, <1>2, <3>1, <3>2, FrontSends
    <3>4. TxAtFront'
      BY <1>0, <3>2 DEF TxAtFront
    <3> QED BY <1>1, <1>3, <3>3, <3>4 DEF NoDanglingCtrl
  <2> QED BY <2>1, <2>2
<1>6. CASE TxDone
  <2>1. EndCtrl(Head(mCtrlList)) /\ wire' = wire /\ mCtrlList' = Tail(mCtrlList)
    BY <1>0, <1>6 DEF TxDone, EndCtrl
  <2>2. TxAtFront'
    BY <1>0, <1>6, <2>1 DEF TxDone, NextCtrl, LeaveTx, TxAtFront
  <2> QED BY <1>0, <1>1, <1>2, <1>3, <2>1, <2>2, FrontEnds DEF NoDanglingCtrl
<1>7. CASE TxLack
  <2>1. CASE ctrl[mRespCtrl].eos
    <3>1. EndCtrl(Head(mCtrlList)) /\ wire' = wire /\ pc' \notin {"tx", "ready"}
      BY <1>0, <1>7, <2>1 DEF TxLack, LeaveTx
    <3> QED BY <1>0, <1>1, <1>2, <1>3, <3>1, FrontEnds DEF NoDanglingCtrl, TxAtFront
  <2>2. CASE ~ctrl[mRespCtrl].eos
    <3>1. UNCHANGED orderVars /\ UNCHANGED mRespCtrl
      BY <1>2, <1>7, <2>2 DEF TxLack, listVars, orderVars
    <3>2. TxAtFront'
      BY <1>0, <3>1 DEF TxAtFront, orderVars
    <3> QED BY <1>0, <1>1, <1>3, <3>1, <3>2, OrderUnchanged, KeptUnchanged DEF NoDanglingCtrl
  <2> QED BY <2>1, <2>2
<1> QED BY <1>4, <1>5, <1>6, <1>7 DEF Tx

(* sendData(): only the front writes, the others keep what they have.        *)
LEMMA SendDataOrder ==
  ASSUME IInv, NEW c \in Reqs, NEW len \in 0 .. MaxLen, SendData(c, len)
  PROVE  IInv'
<1>1. TypeOK'
  BY SendDataType DEF IInv
<1>2. UNCHANGED <<nreq, mCtrlList, mDummyCtrlList, ended, mReqCtrl, cnn, mRespCtrl, pc>>
  BY DEF SendData, reqVars, listVars, endVars
<1>3. HandlerIsOpen' /\ TxAtFront'
  BY <1>2 DEF IInv, HandlerIsOpen, NoDanglingCtrl, TxAtFront
<1>4. CASE wire' = wire
  <2>1. UNCHANGED orderVars
    BY <1>2, <1>4 DEF orderVars
  <2> QED BY <1>1, <1>3, <2>1, OrderUnchanged, KeptUnchanged DEF IInv, NoDanglingCtrl
<1>5. ASSUME NEW toks \in Seq(Tokens), mCtrlList # << >>, wire' = wire \o OnWire(Head(mCtrlList), toks)
      PROVE  IInv'
  <2>1. EndedInOrder' /\ ReqCtrlIsLast' /\ WireOrder' /\ ReqCtrlIsKept'
    BY <1>2, <1>5, FrontSends
  <2> QED BY <1>1, <1>3, <2>1 DEF IInv, NoDanglingCtrl
<1>6. ASSUME NEW r \in {"OK", "PENDING", "FAIL"}, SendPlain(c, len, r) PROVE IInv'
  <2>1. CASE r = "FAIL"
    BY <1>4, <1>6, <2>1 DEF SendPlain
  <2>2. CASE r # "FAIL"
    <3>1. Direct(c) /\ wire' = wire \o OnWire(c, <<Tok("data", len)>>)
      BY <1>6, <2>2 DEF SendPlain
    <3>2. Tok("data", len) \in Tokens /\ <<Tok("data", len)>> \in Seq(Tokens)
      BY MaxLenAssumption DEF Tok, Tokens
    <3> QED BY <1>5, <3>1, <3>2 DEF Direct
  <2> QED BY <2>1, <2>2
<1>7. ASSUME NEW k \in 0 .. 3, NEW r \in {"OK", "PENDING", "FAIL"}, SendTec(c, len, k, r)
      PROVE  IInv'
  <2>1. ChunkHead(len, k) \in Seq(Tokens) /\ wire' = wire \o OnWire(c, ChunkHead(len, k))
    BY <1>7, ChunkType DEF SendTec
  <2>2. CASE Direct(c)
    BY <1>5, <2>1, <2>2 DEF Direct
  <2>3. CASE ~Direct(c)
    <3>1. k = 0 /\ ChunkHead(len, k) = << >>
      BY <1>7, <2>3 DEF SendTec, ChunkHead
    <3>2. OnWire(c, << >>) = << >>
      <4>1. OnWire(c, << >>) \in Seq([c : Reqs, tok : Tokens]) /\ Len(OnWire(c, << >>)) = 0
        BY OnWireType, EmptySeq
      <4> QED BY <4>1, EmptySeq
    <3>3. wire' = wire
      BY <2>1, <3>1, <3>2, ConcatEmptySeq DEF IInv, TypeOK
    <3> QED BY <1>4, <3>3
  <2> QED BY <2>2, <2>3
<1> QED BY <1>6, <1>7 DEF SendData

(* A new request goes to the end of the list.                                *)
LEMMA RecvHdrOrder ==
  ASSUME IInv, NEW msgonly \in BOOLEAN, RecvHdr(msgonly), TypeOK'
  PROVE  IInv'
<1>1. /\ nreq \in Nat /\ nreq + 1 \in Reqs /\ nreq' = nreq + 1
      /\ mCtrlList \in Seq(Reqs) /\ mCtrlList' = Append(mCtrlList, nreq + 1)
      /\ UNCHANGED <<wire, ended, cnn>> /\ mReqCtrl' = nreq + 1 /\ cnn = "open"
      /\ pc' \in {"msg", "hdr"}
  BY NReqAssumption DEF IInv, TypeOK, RecvHdr, Reqs, endVars
<1>2. /\ Len(mCtrlList) \in Nat /\ Len(mCtrlList') = Len(mCtrlList) + 1
      /\ DOMAIN mCtrlList = 1 .. Len(mCtrlList) /\ DOMAIN mCtrlList' = 1 .. Len(mCtrlList')
      /\ \A i \in 1 .. Len(mCtrlList) : mCtrlList'[i] = mCtrlList[i]
      /\ mCtrlList'[Len(mCtrlList) + 1] = nreq + 1
  BY <1>1, AppendProperties, LenProperties
<1>3. EndedInOrder'
  <2>1. \A i \in DOMAIN mCtrlList' : mCtrlList'[i] = nreq' - Len(mCtrlList') + i
    BY <1>1, <1>2 DEF IInv, EndedInOrder
  <2>2. nreq' - Len(mCtrlList') = nreq - Len(mCtrlList)
    BY <1>1, <1>2
  <2>3. \A c \in Reqs : ended'[c] = IF c <= nreq' - Len(mCtrlList') THEN 1 ELSE 0
    BY <1>1, <2>2 DEF IInv, EndedInOrder
  <2> QED BY <2>1, <2>3 DEF EndedInOrder
<1>4. WireOrder'
  <2>1. \A i \in DOMAIN wire : wire[i].c \in Nat
    BY WireIsNumbered DEF IInv
  <2> QED BY <1>1, <1>2, <2>1 DEF IInv, WireOrder
<1>5. ReqCtrlIsLast' /\ HandlerIsOpen' /\ TxAtFront'
  BY <1>1 DEF ReqCtrlIsLast, HandlerIsOpen, TxAtFront
<1>6. ReqCtrlIsKept'
  <2>1. Len(mCtrlList') \in DOMAIN mCtrlList' /\ mCtrlList'[Len(mCtrlList')] = mReqCtrl'
    BY <1>1, <1>2
  <2> QED BY <2>1 DEF ReqCtrlIsKept, Live
<1> QED BY <1>3, <1>4, <1>5, <1>6 DEF IInv, NoDanglingCtrl

(* close() ends what is left, in order.                                      *)
LEMMA CloseOrder ==
  ASSUME IInv, NEW how \in {"closed", "freed"}, ClosedAs(how), TypeOK'
  PROVE  IInv'
<1>1. /\ nreq' = nreq /\ nreq \in Nat /\ mCtrlList' = << >> /\ wire' = wire /\ cnn' # "open"
      /\ pc' = "idle" /\ Len(mCtrlList') = 0 /\ DOMAIN mCtrlList' = {}
      /\ ended' = [c \in Reqs |-> IF Live(c) THEN ended[c] + 1 ELSE ended[c]]
  BY EmptySeq DEF IInv, TypeOK, ClosedAs, Close, reqVars
<1>2. mCtrlList \in Seq(Reqs) /\ Len(mCtrlList) \in Nat /\ DOMAIN mCtrlList = 1 .. Len(mCtrlList)
  BY LenProperties DEF IInv, TypeOK
<1>3. \A c \in Reqs : Live(c) <=> nreq - Len(mCtrlList) < c /\ c <= nreq
  <2> SUFFICES ASSUME NEW c \in Reqs
               PROVE  Live(c) <=> nreq - Len(mCtrlList) < c /\ c <= nreq
    OBVIOUS
  <2>1. ASSUME Live(c) PROVE nreq - Len(mCtrlList) < c /\ c <= nreq
    BY <1>1, <1>2, <2>1 DEF Live, IInv, EndedInOrder
  <2>2. ASSUME nreq - Len(mCtrlList) < c, c <= nreq PROVE Live(c)
    <3>1. c - (nreq - Len(mCtrlList)) \in DOMAIN mCtrlList
      BY <1>1, <1>2, <2>2 DEF Reqs
    <3>2. mCtrlList[c - (nreq - Len(mCtrlList))] = c
      BY <1>1, <1>2, <3>1 DEF IInv, EndedInOrder, Reqs
    <3> QED BY <3>1, <3>2 DEF Live
  <2> QED BY <2>1, <2>2
<1>4. \A c \in Reqs : ended'[c] = IF c <= nreq' - Len(mCtrlList') THEN 1 ELSE 0
  <2> SUFFICES ASSUME NEW c \in Reqs
               PROVE  ended'[c] = IF c <= nreq THEN 1 ELSE 0
    BY <1>1
  <2>1. ended[c] = IF c <= nreq - Len(mCtrlList) THEN 1 ELSE 0
    BY DEF IInv, EndedInOrder
  <2>2. ended'[c] = IF Live(c) THEN ended[c] + 1 ELSE ended[c]
    BY <1>1
  <2> QED BY <1>1, <1>2, <1>3, <2>1, <2>2 DEF Reqs
<1>5. EndedInOrder'
  BY <1>1, <1>4 DEF EndedInOrder
<1>6. WireOrder'
  <2>1. \A i \in DOMAIN wire : wire[i].c \in Nat
    BY WireIsNumbered DEF IInv
  <2> QED BY <1>1, <2>1 DEF IInv, WireOrder
<1>7. ReqCtrlIsLast' /\ HandlerIsOpen' /\ NoDanglingCtrl'
  BY <1>1 DEF ReqCtrlIsLast, HandlerIsOpen, NoDanglingCtrl, TxAtFront, ReqCtrlIsKept
<1> QED BY <1>5, <1>6, <1>7 DEF IInv

-----------------------------------------------------------------------------
(* The theorems.                                                             *)

LEMMA InitIInv == Init => IInv
<1> SUFFICES ASSUME Init PROVE IInv
  OBVIOUS
<1>1. TypeOK
  <2>1. ctrl \in [Reqs -> Ctrls] /\ ended \in [Reqs -> Nat] /\ nreq \in 0 .. NReq
    BY NewCtrlType, NReqAssumption DEF Init
  <2>2. mCtrlList \in Seq(Reqs) /\ wire \in Seq([c : Reqs, tok : Tokens])
    BY EmptySeq DEF Init
  <2> QED BY <2>1, <2>2 DEF Init, TypeOK
<1>2. Len(mCtrlList) = 0 /\ DOMAIN mCtrlList = {} /\ DOMAIN wire = {}
  BY EmptySeq DEF Init
<1> QED
  BY <1>1, <1>2
  DEF Init, IInv, EndedInOrder, NoDanglingCtrl, TxAtFront, ReqCtrlIsKept, ReqCtrlIsLast,
      HandlerIsOpen, WireOrder, NoCtrl, Reqs

LEMMA StepIInv == IInv /\ [Next]_vars => IInv'
<1> SUFFICES ASSUME IInv, [Next]_vars PROVE IInv'
  OBVIOUS
<1>1. TypeOK'
  BY TypeStep DEF IInv
<1>2. ASSUME UNCHANGED orderVars, HandlerIsOpen', TxAtFront' PROVE IInv'
  BY <1>1, <1>2, OrderUnchanged, KeptUnchanged DEF IInv, NoDanglingCtrl
<1>3. ASSUME NEW msgonly \in BOOLEAN, RecvHdr(msgonly) PROVE IInv'
  BY <1>1, <1>3, RecvHdrOrder
<1>4. ASSUME NEW dataend \in BOOLEAN, NEW refused \in BOOLEAN, RecvData(dataend, refused)
      PROVE  IInv'
  <2>1. /\ UNCHANGED <<nreq, mCtrlList, mDummyCtrlList, ended, wire, cnn>>
        /\ mReqCtrl' \in {mReqCtrl, NoCtrl} /\ cnn = "open" /\ pc' \in {"msg", "idle"}
    BY <1>4 DEF RecvData, listVars
  <2>2. EndedInOrder' /\ WireOrder' /\ ReqCtrlIsLast' /\ HandlerIsOpen'
    BY <2>1 DEF IInv, EndedInOrder, WireOrder, ReqCtrlIsLast, HandlerIsOpen
  <2>3. NoDanglingCtrl'
    BY <2>1 DEF IInv, NoDanglingCtrl, TxAtFront, ReqCtrlIsKept, Live
  <2> QED BY <1>1, <2>2, <2>3 DEF IInv
<1>5. CASE CallbackReturns
  <2>1. /\ UNCHANGED <<nreq, mCtrlList, mDummyCtrlList, ended, wire, cnn>>
        /\ mReqCtrl' \in {mReqCtrl, NoCtrl} /\ pc' = "idle"
    BY <1>5 DEF CallbackReturns, listVars, endVars
  <2>2. EndedInOrder' /\ WireOrder' /\ ReqCtrlIsLast' /\ HandlerIsOpen'
    BY <2>1 DEF IInv, EndedInOrder, WireOrder, ReqCtrlIsLast, HandlerIsOpen
  <2>3. NoDanglingCtrl'
    BY <2>1 DEF IInv, NoDanglingCtrl, TxAtFront, ReqCtrlIsKept, Live
  <2> QED BY <1>1, <2>2, <2>3 DEF IInv
<1>6. ASSUME NEW c \in Reqs, NEW s \in AppShapes, Response(c, s) PROVE IInv'
  BY <1>2, <1>6
  DEF Response, StartTx, orderVars, reqVars, listVars, endVars, HandlerIsOpen, TxAtFront
<1>7. CASE Tx
  BY <1>7, TxOrder
<1>8. CASE ReadyReturns
  <2>1. UNCHANGED orderVars /\ UNCHANGED mRespCtrl /\ cnn = "open" /\ pc = "ready"
    BY <1>8 DEF ReadyReturns, orderVars, reqVars, listVars, endVars, IInv, HandlerIsOpen
  <2> QED BY <1>2, <2>1 DEF orderVars, HandlerIsOpen, TxAtFront, IInv, NoDanglingCtrl
<1>9. ASSUME NEW c \in Reqs, NEW len \in 0 .. MaxLen, SendData(c, len) PROVE IInv'
  BY <1>9, SendDataOrder
<1>10. CASE Writable
  BY <1>2, <1>10
  DEF Writable, StartTx, orderVars, reqVars, listVars, endVars, HandlerIsOpen, TxAtFront
<1>11. ASSUME NEW how \in {"closed", "freed"}, ClosedAs(how) PROVE IInv'
  BY <1>1, <1>11, CloseOrder
<1>12. CASE TimerTick
  BY <1>2, <1>12
  DEF TimerTick, orderVars, reqVars, listVars, endVars, HandlerIsOpen, TxAtFront
<1>13. CASE PeerDown
  BY <1>2, <1>13
  DEF PeerDown, orderVars, reqVars, listVars, HandlerIsOpen, TxAtFront, IInv, NoDanglingCtrl
<1>14. CASE UNCHANGED vars
  BY <1>2, <1>14
  DEF vars, orderVars, HandlerIsOpen, TxAtFront, IInv, NoDanglingCtrl
<1> QED
  BY <1>3, <1>4, <1>5, <1>6, <1>7, <1>8, <1>9, <1>10, <1>11, <1>12, <1>13, <1>14
  DEF Next, Disconnect, Disconnected, Timeout

THEOREM Invariance == Spec => []IInv
BY InitIInv, StepIInv, PTL DEF Spec

(* Every variable of the connection has its type, always.                    *)
THEOREM TypeCorrect == Spec => []TypeOK
<1>1. IInv => TypeOK
  BY DEF IInv
<1> QED BY <1>1, Invariance, PTL

(* OnHttpEnd() is called once per controller and in request order.           *)
THEOREM EndsInOrder == Spec => []EndedInOrder
<1>1. IInv => EndedInOrder
  BY DEF IInv
<1> QED BY <1>1, Invariance, PTL

(* No deleted controller is used by the transmit loop or the read handler.   *)
THEOREM NothingDangles == Spec => []NoDanglingCtrl
<1>1. IInv => NoDanglingCtrl
  BY DEF IInv
<1> QED BY <1>1, Invariance, PTL

(* Responses leave in the order of the requests, whatever the application    *)
(* does and whenever the socket blocks.                                      *)
THEOREM PipelineOrder == Spec => []WireInOrder
<1>1. IInv => WireInOrder
  <2> SUFFICES ASSUME IInv PROVE WireInOrder
    OBVIOUS
  <2>1. ASSUME NEW i \in DOMAIN wire, NEW j \in DOMAIN mCtrlList, j > 1
        PROVE  wire[i].c < mCtrlList[j]
    <3>1. nreq \in Nat /\ Len(mCtrlList) \in Nat /\ j \in 1 .. Len(mCtrlList)
      BY LenProperties, NReqAssumption DEF IInv, TypeOK
    <3>2. mCtrlList[j] = nreq - Len(mCtrlList) + j /\ wire[i].c <= nreq - Len(mCtrlList) + 1
      BY DEF IInv, EndedInOrder, WireOrder
    <3>3. wire[i].c \in Nat
      BY WireIsNumbered DEF IInv
    <3> QED BY <2>1, <3>1, <3>2, <3>3
  <2>2. \A i, j \in DOMAIN wire : i < j => wire[i].c <= wire[j].c
    BY DEF IInv, WireOrder
  <2> QED BY <2>1, <2>2 DEF WireInOrder
<1> QED BY <1>1, Invariance, PTL

-----------------------------------------------------------------------------
(* Whoever calls sendData() only when it was asked does so when the header   *)
(* has left: the transmit loop asks for data behind the header alone, and a  *)
(* new response takes the controller out of those that were asked.           *)
HdrGone ==
  /\ asserted = {}
  /\ \A c \in asked : ~ctrl[c].hdr
  /\ pc = "ready" => mRespCtrl \in asked

(* No call but response() gives a controller a header to send.               *)
LEMMA HdrKept ==
  ASSUME NEW u, NEW len, NEW s, u \in Ctrls, ~u.hdr
  PROVE  ~Consumed(Prepared(u)).hdr /\ ~Prepared(u).hdr /\ ~Written(u, len, s).hdr
<1>1. ~Prepared(u).hdr /\ DOMAIN Prepared(u) = DOMAIN u
  BY DEF Prepared, Ctrls
<1>2. "hdr" \in DOMAIN Prepared(u)
  BY <1>1 DEF Ctrls
<1>3. ~Consumed(Prepared(u)).hdr
  BY <1>1, PreparedType DEF Consumed, Ctrls
<1>4. ~Written(u, len, s).hdr
  BY DEF Written, Ctrls
<1> QED BY <1>1, <1>3, <1>4

(* The steps of the transmit loop.                                           *)
LEMMA TxHdrGone ==
  ASSUME IInv, HdrGone, Tx
  PROVE  HdrGone'
<1>1. /\ ctrl \in [Reqs -> Ctrls] /\ asked \in SUBSET Reqs /\ ret \in {"idle", "hdr", "msg"}
      /\ pc = "tx" => mRespCtrl \in Reqs
  BY FrontIs DEF IInv, TypeOK, NoDanglingCtrl, TxAtFront
<1>2. CASE TxBlocked
  BY <1>1, <1>2 DEF TxBlocked, LeaveTx, HdrGone
<1>3. ASSUME NEW r \in {"OK", "PENDING", "FAIL"}, TxSend(r) PROVE HdrGone'
  <2>1. mRespCtrl \in Reqs /\ ctrl[mRespCtrl] \in Ctrls
    BY <1>1, <1>3 DEF TxSend
  <2>2. /\ asked' = asked /\ asserted' = asserted /\ pc' # "ready"
        /\ \/ ctrl' = [ctrl EXCEPT ![mRespCtrl] = Prepared(ctrl[mRespCtrl])]
           \/ ctrl' = [ctrl EXCEPT ![mRespCtrl] = Consumed(Prepared(ctrl[mRespCtrl]))]
    BY <1>1, <1>3 DEF TxSend, LeaveTx
  <2>3. ASSUME NEW c \in asked PROVE ~ctrl'[c].hdr
    <3>1. c \in Reqs /\ ~ctrl[c].hdr
      BY <1>1 DEF HdrGone
    <3>2. CASE c = mRespCtrl
      BY <1>1, <2>1, <2>2, <3>1, <3>2, HdrKept
    <3>3. CASE c # mRespCtrl
      BY <1>1, <2>2, <3>1, <3>3
    <3> QED BY <3>2, <3>3
  <2> QED BY <2>2, <2>3 DEF HdrGone
<1>4. CASE TxDone
  BY <1>1, <1>4 DEF TxDone, NextCtrl, LeaveTx, HdrGone
<1>5. CASE TxLack
  <2>1. ~ctrl[mRespCtrl].hdr
    BY <1>5 DEF TxLack, Avail
  <2>2. UNCHANGED <<ctrl, asserted>>
    BY <1>5 DEF TxLack
  <2>3. \/ asked' = asked /\ pc' # "ready"
        \/ asked' = asked \cup {mRespCtrl} /\ mRespCtrl' = mRespCtrl
    BY <1>1, <1>5 DEF TxLack, LeaveTx
  <2> QED BY <2>1, <2>2, <2>3 DEF HdrGone
<1> QED BY <1>2, <1>3, <1>4, <1>5 DEF Tx

(* A call of sendData().                                                     *)
LEMMA SendDataHdrGone ==
  ASSUME IInv, ~EagerSend, HdrGone, NEW c \in Reqs, NEW len \in 0 .. MaxLen, SendData(c, len)
  PROVE  HdrGone'
<1>1. ctrl \in [Reqs -> Ctrls] /\ asked \in SUBSET Reqs /\ ctrl[c] \in Ctrls
  BY DEF IInv, TypeOK
<1>2. c \in asked /\ ~ctrl[c].hdr
  BY DEF SendData, HdrGone
<1>3. UNCHANGED <<asked, asserted, pc, mRespCtrl>>
  BY <1>2 DEF SendData
<1>4. ctrl' = ctrl \/ \E s : ctrl' = [ctrl EXCEPT ![c] = Written(ctrl[c], len, s)]
  BY DEF SendData, SendPlain, SendTec
<1>5. ASSUME NEW d \in asked PROVE ~ctrl'[d].hdr
  <2>1. d \in Reqs /\ ~ctrl[d].hdr
    BY <1>1 DEF HdrGone
  <2>2. CASE ctrl' = ctrl
    BY <2>1, <2>2
  <2>3. ASSUME NEW s, ctrl' = [ctrl EXCEPT ![c] = Written(ctrl[c], len, s)] PROVE ~ctrl'[d].hdr
    BY <1>1, <1>2, <2>1, <2>3, HdrKept
  <2> QED BY <1>4, <2>2, <2>3
<1> QED BY <1>3, <1>5 DEF HdrGone

LEMMA StepHdrGone == IInv /\ ~EagerSend /\ HdrGone /\ [Next]_vars => HdrGone'
<1> SUFFICES ASSUME IInv, ~EagerSend, HdrGone, [Next]_vars PROVE HdrGone'
  OBVIOUS
<1>1. /\ ctrl \in [Reqs -> Ctrls] /\ asked \in SUBSET Reqs /\ ret \in {"idle", "hdr", "msg"}
  BY DEF IInv, TypeOK
<1>2. ASSUME NEW msgonly \in BOOLEAN, RecvHdr(msgonly) PROVE HdrGone'
  BY <1>2 DEF RecvHdr, HdrGone
<1>3. ASSUME NEW dataend \in BOOLEAN, NEW refused \in BOOLEAN, RecvData(dataend, refused)
      PROVE  HdrGone'
  BY <1>3 DEF RecvData, HdrGone
<1>4. CASE CallbackReturns
  BY <1>4 DEF CallbackReturns, HdrGone
<1>5. ASSUME NEW c \in Reqs, NEW s \in AppShapes, Response(c, s) PROVE HdrGone'
  <2>1. asked' = asked \ {c} /\ asserted' = asserted /\ pc' # "ready"
    BY <1>5 DEF Response, StartTx
  <2>2. \A d \in Reqs \ {c} : ctrl'[d] = ctrl[d]
    BY <1>1, <1>5 DEF Response
  <2> QED BY <1>1, <2>1, <2>2 DEF HdrGone
<1>6. CASE Tx
  BY <1>6, TxHdrGone
<1>7. CASE ReadyReturns
  BY <1>1, <1>7 DEF ReadyReturns, LeaveTx, HdrGone
<1>8. ASSUME NEW c \in Reqs, NEW len \in 0 .. MaxLen, SendData(c, len) PROVE HdrGone'
  BY <1>8, SendDataHdrGone
<1>9. CASE Writable
  BY <1>9 DEF Writable, StartTx, HdrGone
<1>10. ASSUME NEW how, ClosedAs(how) PROVE HdrGone'
  BY <1>10 DEF ClosedAs, HdrGone
<1>11. CASE TimerTick
  BY <1>11 DEF TimerTick, HdrGone
<1>12. CASE PeerDown
  BY <1>12 DEF PeerDown, HdrGone
<1>13. CASE UNCHANGED vars
  BY <1>13 DEF vars, HdrGone
<1> QED
  BY <1>2, <1>3, <1>4, <1>5, <1>6, <1>7, <1>8, <1>9, <1>10, <1>11, <1>12, <1>13
  DEF Next, Disconnect, Disconnected, Timeout

(* sendData() finds the header gone, from a callback or from a timer, for an *)
(* application whose timers wait until they were asked once.                 *)
THEOREM AskedMaySend ==
  ASSUME ~EagerSend
  PROVE  Spec => []NoAssertFails
<1>1. Init => HdrGone
  BY DEF Init, HdrGone
<1>2. HdrGone => NoAssertFails
  BY DEF HdrGone, NoAssertFails
<1>3. IInv /\ HdrGone /\ [Next]_vars => HdrGone'
  BY StepHdrGone
<1> QED BY <1>1, <1>2, <1>3, Invariance, PTL DEF Spec
=============================================================================
