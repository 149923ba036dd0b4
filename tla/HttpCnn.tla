------------------------------ MODULE HttpCnn ------------------------------
(* A client connection (src/cahttp/HttpCnn.cpp) and the requests that share  *)
(* it (src/cahttp/CaHttpReq.cpp): addMsgStream() and transfer(), the         *)
(* transmit loop starttx(), procRead() with the callbacks it makes, and the  *)
(* end of the connection.                                                    *)
(*                                                                           *)
(* Everything runs on one event loop; pc says where a handler is that calls  *)
(* the application back.  A request is known by the order of its request().  *)
EXTENDS CaHttpFrame, HttpMsgStream, FiniteSets

CONSTANTS NReq,           \* requests the application makes on the connection
          ReqBodies,      \* what they carry
          Resps,          \* the responses the server gives: announced length and units
          Pipelined,      \* a request may be made while another waits for its response
          BeforeConnect,  \* requests that may be made before the connection is up
          RequestAfterLoss, \* a request may be made after the connection was lost
          SockPends,      \* the socket may not take a packet at once
          SplitThenNext,  \* a packet may end a body and begin the next response
          TimerSend,      \* the application sends its body data from timers, too
          SendBusy,       \* ... even while a packet is queued
          MaxRecv,        \* mMaxRecvBufSize, in units
          MaySever        \* the server may go away, the application may close

ASSUME NReqAssumption == NReq \in Nat \ {0} /\ BeforeConnect \in Nat /\ MaxRecv \in Nat
ASSUME BodiesAssumption == ReqBodies \subseteq Bodies
ASSUME RespsAssumption ==
  \A x \in Resps : x.units \in Nat /\ (x.clen = x.units \/ x.clen = ChunkedBody)

Reqs == 1 .. NReq
None == 0              \* nullptr; no request, no message

VARIABLES
  nreq,          \* requests made
  req,           \* the CaHttpReq objects
  mIsConnected,
  mCur,          \* mCurMsgInfo: the request whose response is awaited
  mPipeList,     \* requests behind it
  mSendQueList,  \* ... that are still to be sent: pointers into mPipeList
  sock,          \* "new", "connecting", "writable", "pending" (a packet is queued),
                 \* "drained" (it has gone, the event is due), "broken", "closed", "shut"
  held,          \* the packet that is queued, with the request it is from
  srv,           \* what the server has read
  peer,          \* "up" or "down"
  tx,            \* ptxmsg of starttx()
  pc,            \* "idle", "tx", "under" (underrun callback), "read", "end" (end callback), "crashed"
  ret,           \* where starttx() returns to
  inflow, pos,   \* tokens the server has sent, and how many were received
  f,             \* mFrame
  mRecvMsg,      \* the message fetched last
  asserted       \* assert()s that failed

reqVars  == <<nreq, req>>
pipeVars == <<mCur, mPipeList, mSendQueList>>
txVars   == <<tx, ret>>
inVars   == <<inflow, pos, f, mRecvMsg>>
sockVars == <<sock, held, srv>>
vars == <<nreq, req, mIsConnected, mCur, mPipeList, mSendQueList, sock, held, srv, peer, tx,
          pc, ret, inflow, pos, f, mRecvMsg, asserted>>

NewReq(b) == [body |-> b, strm |-> NewStrm(b), manual |-> b.strm = NoStrm /\ b.clen # 0,
              wcnt |-> 0,          \* mSendWriteCnt
              buf |-> << >>,       \* mChunkedBuf
              eos |-> FALSE, pause |-> FALSE, asked |-> FALSE,
              active |-> TRUE,     \* REQ_ACTIVE
              msg |-> None,        \* mRespMsg
              data |-> << >>,      \* mRecvDataBuf
              ends |-> << >>]      \* HTTP_REQ_END callbacks: 0 or -1

NoReq == [NewReq([te |-> FALSE, strm |-> NoStrm, clen |-> 0]) EXCEPT !.active = FALSE]

-----------------------------------------------------------------------------
(* The server reads what arrives, request by request: those it has whole,    *)
(* the one it is reading and what that still lacks, the units of each body.  *)

Start == [whole |-> << >>, cur |-> None, left |-> 0, got |-> [r \in Reqs |-> 0], ok |-> TRUE]

Read(s, e) ==
  LET done == [s EXCEPT !.whole = Append(@, e.c), !.cur = None, !.left = 0]
      n == e.tok.n
  IN CASE s.cur = None /\ e.tok.t = "hdr" ->
            IF n = 0 THEN done ELSE [s EXCEPT !.cur = e.c, !.left = n]
       [] s.cur = e.c /\ e.tok.t = "data" /\ s.left # ChunkedLen /\ n <= s.left ->
            IF n = s.left THEN done ELSE [s EXCEPT !.left = @ - n]
       [] s.cur = e.c /\ e.tok.t = "chunk" /\ s.left = ChunkedLen ->
            [s EXCEPT !.got[e.c] = @ + n]
       [] s.cur = e.c /\ e.tok.t = "last" /\ s.left = ChunkedLen -> done
       [] OTHER -> [s EXCEPT !.ok = FALSE]

ReadAll(s, toks) == FoldLeft(Read, s, toks)

(* Responses it has begun to send: the k-th goes to the k-th whole request.  *)
Answered == Cardinality({i \in DOMAIN inflow : inflow[i].t = "begin"})

-----------------------------------------------------------------------------
Init ==
  /\ nreq = 0 /\ req = [r \in Reqs |-> NoReq]
  /\ mIsConnected = FALSE /\ mCur = None /\ mPipeList = << >> /\ mSendQueList = << >>
  /\ sock = "new" /\ held = << >> /\ srv = Start /\ peer = "up"
  /\ tx = None /\ pc = "idle" /\ ret = "idle"
  /\ inflow = << >> /\ pos = 0 /\ f = NewFrame /\ mRecvMsg = None
  /\ asserted = {}

IsWritable == sock \in {"writable", "broken"}

(* What sendPacket() can answer, and the socket afterwards.                  *)
SendResults ==
  IF sock # "writable" THEN {"FAIL"}
  ELSE {"OK"} \cup (IF SockPends THEN {"PENDING"} ELSE {})
              \cup (IF peer = "down" THEN {"FAIL"} ELSE {})

SendPacket(r, c, toks) ==
  LET packet == [i \in DOMAIN toks |-> [c |-> c, tok |-> toks[i]]] IN
  /\ r \in SendResults
  /\ srv' = IF r = "OK" THEN ReadAll(srv, packet) ELSE srv
  /\ held' = IF r = "PENDING" THEN packet ELSE held
  /\ sock' = CASE r = "PENDING" -> "pending"
               [] r = "FAIL" /\ sock = "writable" -> "broken"
               [] OTHER -> sock

(* HTTP_REQ_END: the request is no longer active.                            *)
Ended(q, status) == [q EXCEPT !.active = FALSE, !.ends = Append(@, status)]

StartTx(cur) == tx' = cur /\ ret' = pc /\ pc' = "tx"

LeaveTx == pc' = ret /\ tx' = None

AddToCurrent(r) ==                     \* mutant: the connection serves the newest request
  /\ mCur' = r
  /\ IF mCur = None THEN UNCHANGED <<mPipeList, mSendQueList>>
     ELSE /\ mPipeList' = Append(mPipeList, mCur)
          /\ mSendQueList' = Append(mSendQueList, mCur)

AddUnqueued(r) ==                      \* mutant: only a pipe that is empty queues for sending
  IF mCur = None
  THEN mCur' = r /\ UNCHANGED <<mPipeList, mSendQueList>>
  ELSE /\ mPipeList' = Append(mPipeList, r)
       /\ mSendQueList' = IF mPipeList = << >> THEN Append(mSendQueList, r) ELSE mSendQueList
       /\ UNCHANGED mCur

(* addMsgStream()                                                            *)
AddMsgStream(r) ==
  IF mCur = None
  THEN mCur' = r /\ UNCHANGED <<mPipeList, mSendQueList>>
  ELSE /\ mPipeList' = Append(mPipeList, r)
       /\ mSendQueList' = Append(mSendQueList, r)
       /\ UNCHANGED mCur

(* The application makes a request(), from an event of its own or from the   *)
(* callback that ends another; transfer() connects or starts sending.        *)
Request(b) ==
  LET r == nreq + 1 IN
  /\ nreq < NReq /\ pc \in {"idle", "end"}
  /\ sock \notin {"closed", "shut"} \/ (RequestAfterLoss /\ sock = "closed")
  /\ Pipelined \/ mCur = None
  /\ mIsConnected \/ nreq < BeforeConnect
  /\ nreq' = r
  /\ req' = [req EXCEPT ![r] = NewReq(b)]
  /\ AddMsgStream(r)
  /\ IF mIsConnected
     THEN StartTx(mCur') /\ UNCHANGED sock
     ELSE sock' = "connecting" /\ UNCHANGED <<pc, txVars>>
  /\ UNCHANGED <<mIsConnected, held, srv, peer, inVars, asserted>>

(* NETEV_CONNECTED                                                           *)
Connected ==
  /\ pc = "idle" /\ sock = "connecting" /\ peer = "up"
  /\ sock' = "writable" /\ mIsConnected' = TRUE
  /\ StartTx(mCur)
  /\ UNCHANGED <<reqVars, pipeVars, held, srv, peer, inVars, asserted>>

(* starttx() has no message: it takes the last one of the queue, although it *)
(* drops the first, or returns.  What it takes may have left mPipeList, and  *)
(* then reading through the pointer is undefined.                            *)
TxTake ==
  /\ pc = "tx" /\ tx = None
  /\ IF mSendQueList = << >>
     THEN LeaveTx /\ UNCHANGED mSendQueList
     ELSE LET r == Last(mSendQueList)
              dangles == \A i \in DOMAIN mPipeList : mPipeList[i] # r
          IN /\ tx' = r /\ mSendQueList' = Tail(mSendQueList)
             /\ pc' \in {"tx"} \cup (IF dangles THEN {"crashed"} ELSE {})
  /\ UNCHANGED <<reqVars, mIsConnected, mCur, mPipeList, sockVars, peer, ret, inVars, asserted>>

(* A packet is queued: the loop is left with the message unfinished.         *)
TxBlocked ==
  /\ pc = "tx" /\ tx # None /\ ~IsWritable
  /\ LeaveTx
  /\ UNCHANGED <<reqVars, mIsConnected, pipeVars, sockVars, peer, ret, inVars, asserted>>

(* getDataPtr() gives data.                                                  *)
TxSend(r) ==
  LET s == Prepared(req[tx].strm) IN
  /\ pc = "tx" /\ tx # None /\ IsWritable /\ Avail(req[tx].strm) = "some"
  /\ SendPacket(r, tx, Offered(s))
  /\ req' = [req EXCEPT ![tx] = IF r = "FAIL" THEN Ended([@ EXCEPT !.strm = s], -1)
                                ELSE [@ EXCEPT !.strm = Consumed(s)]]
  /\ IF r = "OK" THEN UNCHANGED <<pc, tx>> ELSE LeaveTx
  /\ UNCHANGED <<nreq, mIsConnected, pipeVars, peer, ret, inVars, asserted>>

(* getDataPtr() says the message is over.                                    *)
TxDone ==
  /\ pc = "tx" /\ tx # None /\ IsWritable /\ Avail(req[tx].strm) = "none"
  /\ tx' = None
  /\ UNCHANGED <<reqVars, mIsConnected, pipeVars, sockVars, peer, pc, ret, inVars, asserted>>

(* getDataPtr() lacks data: CE_UNDERRUN asks the application.                *)
TxLack ==
  /\ pc = "tx" /\ tx # None /\ IsWritable /\ Avail(req[tx].strm) = "lack"
  /\ req' = [req EXCEPT ![tx].pause = TRUE, ![tx].asked = TRUE]
  /\ pc' = "under"
  /\ UNCHANGED <<nreq, mIsConnected, pipeVars, sockVars, peer, txVars, inVars, asserted>>

(* The lengths an application passes to sendData(); an empty piece ends a    *)
(* chunked body.                                                             *)
SendLens(q) ==
  IF ~q.manual \/ q.eos THEN {}
  ELSE {n \in 0 .. MaxLen : /\ q.wcnt + n <= IF q.body.te THEN MaxLen ELSE q.body.clen
                            /\ n = 0 => q.body.te}

(* The underrun callback returns: the loop goes on if something was sent.    *)
(* An application that has no timer to send from tries at least one write.   *)
UnderReturns ==
  /\ pc = "under"
  /\ TimerSend \/ ~req[tx].pause \/ sock # "writable" \/ SendLens(req[tx]) = {}
  /\ IF req[tx].pause THEN LeaveTx ELSE pc' = "tx" /\ UNCHANGED tx
  /\ UNCHANGED <<reqVars, mIsConnected, pipeVars, sockVars, peer, ret, inVars, asserted>>

(* sendData() with an announced length: refused data is not counted.         *)
SendPlain(r, n, res) ==
  LET q == req[r] IN
  /\ ~q.body.te
  /\ SendPacket(res, r, <<Tok("data", n)>>)
  /\ req' = IF res = "FAIL" THEN req
            ELSE [req EXCEPT ![r] = [q EXCEPT !.pause = FALSE, !.wcnt = @ + n,
                                              !.eos = q.wcnt + n >= q.body.clen]]

SendTecKeepsBuf(r, n, res) ==          \* mutant: mChunkedBuf is not cleared when it is sent
  LET q == req[r]
      toks == Append(q.buf, IF n = 0 THEN Tok("last", 0) ELSE Tok("chunk", n))
  IN
  /\ q.body.te
  /\ SendPacket(res, r, toks)
  /\ req' = [req EXCEPT ![r] =
       IF res = "FAIL" THEN [q EXCEPT !.buf = toks, !.eos = (n = 0)]
       ELSE [q EXCEPT !.buf = toks, !.eos = (n = 0), !.pause = FALSE, !.wcnt = @ + n]]

(* sendData() of a chunked body: what the socket refuses stays in            *)
(* mChunkedBuf and goes first the next time.  wcnt counts what the           *)
(* application was told is sent.                                             *)
SendTec(r, n, res) ==
  LET q == req[r]
      toks == Append(q.buf, IF n = 0 THEN Tok("last", 0) ELSE Tok("chunk", n))
  IN
  /\ q.body.te
  /\ SendPacket(res, r, toks)
  /\ req' = [req EXCEPT ![r] =
       IF res = "FAIL" THEN [q EXCEPT !.buf = toks, !.eos = (n = 0)]
       ELSE [q EXCEPT !.buf = << >>, !.eos = (n = 0), !.pause = FALSE, !.wcnt = @ + n]]

(* The application sends body data, from the underrun callback or a timer.   *)
SendData(r, n) ==
  /\ n \in SendLens(req[r])
  /\ \/ pc = "under" /\ r = tx
     \/ pc = "idle" /\ TimerSend /\ req[r].asked /\ req[r].active
  /\ sock \notin {"closed", "shut"}
  /\ SendBusy \/ sock = "writable"
  /\ Len(req[r].buf) < MaxLen
  /\ \E res \in {"OK", "PENDING", "FAIL"} : SendPlain(r, n, res) \/ SendTec(r, n, res)
  /\ UNCHANGED <<nreq, mIsConnected, pipeVars, peer, txVars, pc, inVars, asserted>>

-----------------------------------------------------------------------------
(* procRead(): recvPacket() and feedPacket().                                *)
RecvPacket(to) ==
  LET toks == SubSeq(inflow, pos + 1, to) IN
  /\ pc = "idle" /\ sock \notin {"new", "connecting", "closed", "shut"}
  /\ pos < to /\ to <= Len(inflow)
  /\ SplitThenNext \/ ~EndsAndBegins(toks)
  /\ f' = FeedPacket(f, toks)
  /\ pos' = to
  /\ pc' = "read"
  /\ UNCHANGED <<reqVars, mIsConnected, pipeVars, sockVars, peer, txVars, inflow, mRecvMsg,
                 asserted>>

(* CE_RECV_MSG: the request has its response.                                *)
Completed(q, m) == Ended([q EXCEPT !.msg = m], 0)

(* The loop: a header.  Without a request that waits for one the debug build *)
(* stops at an assert() and the release build calls an empty function.       *)
LoopHdr ==
  LET x == FetchMsg(f) IN
  /\ pc = "read" /\ Status(f) = "FS_HDR"
  /\ f' = x.f
  /\ asserted' = asserted \cup x.failed
                          \cup (IF mCur = None THEN {"mCurMsgInfo.msgStrm"} ELSE {})
  /\ mRecvMsg' = x.msg.id
  /\ IF mCur = None
     THEN pc' = "crashed" /\ UNCHANGED req
     ELSE IF x.res = "MSG_ONLY"
     THEN pc' = "end" /\ req' = [req EXCEPT ![mCur] = Completed(@, x.msg.id)]
     ELSE UNCHANGED <<pc, req>>
  /\ UNCHANGED <<nreq, mIsConnected, pipeVars, sockVars, peer, txVars, inflow, pos>>

(* The data callback: what does not fit is dropped.                          *)
Received(q, data) ==
  IF Len(q.data) + Len(data) <= MaxRecv THEN [q EXCEPT !.data = @ \o data] ELSE q

(* The loop: data.                                                           *)
LoopData ==
  LET x == FetchData(f)
      ends == x.res = "MSG_DATA_END"
  IN
  /\ pc = "read" /\ Status(f) = "FS_DATA"
  /\ f' = x.f
  /\ asserted' = asserted \cup x.failed
  /\ IF mCur = None
     THEN pc' = "crashed" /\ UNCHANGED req
     ELSE /\ req' = [req EXCEPT ![mCur] =
                       IF ends THEN Completed(Received(@, x.data), mRecvMsg)
                       ELSE Received(@, x.data)]
          /\ pc' = CASE ends -> "end" [] x.res = "MSG_DATA_EMPTY" -> "idle" [] OTHER -> "read"
  /\ UNCHANGED <<nreq, mIsConnected, pipeVars, sockVars, peer, txVars, inflow, pos, mRecvMsg>>

(* The loop: nothing more in this packet.                                    *)
LoopNone ==
  /\ pc = "read" /\ Status(f) = "FS_NONE"
  /\ pc' = "idle"
  /\ UNCHANGED <<reqVars, mIsConnected, pipeVars, sockVars, peer, txVars, inVars, asserted>>

EndReturnsKeeps ==                     \* mutant: the last message is not cleared
  /\ pc = "end"
  /\ IF mPipeList = << >>
     THEN pc' = "idle" /\ UNCHANGED <<mCur, mPipeList>>
     ELSE pc' = "read" /\ mCur' = Head(mPipeList) /\ mPipeList' = Tail(mPipeList)
  /\ UNCHANGED <<reqVars, mIsConnected, mSendQueList, sockVars, peer, txVars, inVars, asserted>>

EndReturnsNewest ==                    \* mutant: the newest request is next
  /\ pc = "end"
  /\ IF mPipeList = << >>
     THEN mCur' = None /\ pc' = "idle" /\ UNCHANGED mPipeList
     ELSE pc' = "read" /\ mCur' = Last(mPipeList) /\ mPipeList' = Front(mPipeList)
  /\ UNCHANGED <<reqVars, mIsConnected, mSendQueList, sockVars, peer, txVars, inVars, asserted>>

(* The end callback returns: the next request of the pipe waits for its      *)
(* response and the loop goes on, or no request is left.                     *)
EndReturns ==
  /\ pc = "end"
  /\ IF mPipeList = << >>
     THEN mCur' = None /\ pc' = "idle" /\ UNCHANGED mPipeList
     ELSE mCur' = Head(mPipeList) /\ mPipeList' = Tail(mPipeList) /\ pc' = "read"
  /\ UNCHANGED <<reqVars, mIsConnected, mSendQueList, sockVars, peer, txVars, inVars, asserted>>

-----------------------------------------------------------------------------
WritableIgnored ==                     \* mutant: the event does not restart the loop
  /\ pc = "idle" /\ sock = "drained"
  /\ sock' = "writable"
  /\ UNCHANGED <<reqVars, mIsConnected, pipeVars, held, srv, peer, pc, txVars, inVars, asserted>>

(* NETEV_WRITABLE                                                            *)
Writable ==
  /\ pc = "idle" /\ sock = "drained"
  /\ sock' = "writable"
  /\ StartTx(mCur)
  /\ UNCHANGED <<reqVars, mIsConnected, pipeVars, held, srv, peer, inVars, asserted>>

WaitingFirst(r) == r = mCur            \* mutant: those in the pipe are not told

(* procDisconnected(): every request on the connection ends.                 *)
Waiting(r) == r = mCur \/ \E i \in DOMAIN mPipeList : mPipeList[i] = r

(* NETEV_DISCONNECTED, before or after the connection is up.                 *)
Disconnected ==
  /\ pc = "idle" /\ peer = "down" /\ sock \notin {"new", "closed", "shut"}
  /\ sock' = "closed"
  /\ req' = [r \in Reqs |->
             IF ~Waiting(r) THEN req[r] ELSE Ended(req[r], IF req[r].msg = None THEN -1 ELSE 0)]
  /\ UNCHANGED <<nreq, mIsConnected, pipeVars, held, srv, peer, pc, txVars, inVars, asserted>>

(* close(), by the application.                                              *)
Close ==
  /\ MaySever /\ pc = "idle" /\ sock \notin {"new", "closed", "shut"}
  /\ sock' = "shut"
  /\ UNCHANGED <<reqVars, mIsConnected, pipeVars, held, srv, peer, pc, txVars, inVars, asserted>>

(* The server: the queued packet arrives, it answers a request, it goes away.*)
Flush ==
  /\ sock = "pending" /\ peer = "up"
  /\ sock' = "drained" /\ srv' = ReadAll(srv, held) /\ held' = << >>
  /\ UNCHANGED <<reqVars, mIsConnected, pipeVars, peer, pc, txVars, inVars, asserted>>

Answer(x) ==
  /\ peer = "up" /\ Answered < Len(srv.whole)
  /\ inflow' = inflow \o MsgTokens(srv.whole[Answered + 1], x.clen, x.units)
  /\ UNCHANGED <<reqVars, mIsConnected, pipeVars, sockVars, peer, pc, txVars, pos, f, mRecvMsg,
                 asserted>>

PeerDown ==
  /\ MaySever /\ peer = "up"
  /\ peer' = "down"
  /\ UNCHANGED <<reqVars, mIsConnected, pipeVars, sockVars, pc, txVars, inVars, asserted>>

-----------------------------------------------------------------------------
Tx == TxTake \/ TxBlocked \/ (\E r \in {"OK", "PENDING", "FAIL"} : TxSend(r)) \/ TxDone \/ TxLack

Loop == LoopHdr \/ LoopData \/ LoopNone

Next ==
  \/ \E b \in ReqBodies : Request(b)
  \/ Connected \/ Tx \/ UnderReturns
  \/ \E r \in Reqs, n \in 0 .. MaxLen : SendData(r, n)
  \/ \E to \in 1 .. Len(inflow) : RecvPacket(to)
  \/ Loop \/ EndReturns \/ Writable \/ Disconnected \/ Close
  \/ Flush \/ (\E x \in Resps : Answer(x)) \/ PeerDown

Spec == Init /\ [][Next]_vars

Handler == Tx \/ UnderReturns \/ Loop \/ EndReturns

(* The event loop dispatches what is ready, a handler that has begun goes    *)
(* on, the application sends the body it announced, and the server answers   *)
(* what it has received.                                                     *)
Fairness ==
  /\ WF_vars(Handler)
  /\ WF_vars(Connected) /\ WF_vars(Writable) /\ WF_vars(Disconnected) /\ WF_vars(Flush)
  /\ WF_vars(\E x \in Resps : Answer(x))
  /\ WF_vars(\E to \in 1 .. Len(inflow) : RecvPacket(to))
  /\ \A r \in Reqs : SF_vars(\E n \in 0 .. MaxLen : SendData(r, n))

FairSpec == Spec /\ Fairness

-----------------------------------------------------------------------------
(* The server receives the requests in the order the application made them,  *)
(* none missing, and each whole before the next begins.                      *)
RequestsInOrder ==
  LET v == ReadAll(srv, held) IN v.ok /\ \A i \in DOMAIN v.whole : v.whole[i] = i

(* A request is told it has ended well only with its own response, header    *)
(* and whole body: the responses are matched to requests by order alone.     *)
OwnResponse ==
  \A r \in 1 .. nreq :
    LET n == Cardinality({i \in DOMAIN inflow : inflow[i].id = r /\ inflow[i].t = "body"}) IN
    /\ \A i \in DOMAIN req[r].data : req[r].data[i] = r
    /\ (\E i \in DOMAIN req[r].ends : req[r].ends[i] = 0)
         => req[r].msg = r /\ (n <= MaxRecv => Len(req[r].data) = n)

(* A request that has ended well is told nothing more, whatever becomes of   *)
(* the connection; one that was told of a refused packet is told once more,  *)
(* by its response or by the loss of the connection.                         *)
NothingAfterEnd ==
  \A r \in 1 .. nreq :
    /\ \A i \in DOMAIN req[r].ends : req[r].ends[i] = 0 => i = Len(req[r].ends)
    /\ Len(req[r].ends) <= 2

(* The connection does not rest with something to send: at rest and with the *)
(* socket ready, every request made is sent as far as its stream gives.      *)
NothingUnsent ==
  pc = "idle" /\ sock = "writable" => \A r \in 1 .. nreq : Avail(req[r].strm) # "some"

(* What the application was told is sent of a chunked body reaches the       *)
(* server once, or will when the queued packet goes.                         *)
BodySentOnce ==
  \A r \in 1 .. nreq :
    req[r].manual /\ req[r].body.te => ReadAll(srv, held).got[r] = req[r].wcnt

(* No assert() of the connection or the assembler fails.                     *)
NoClientAssertFails == asserted = {}

(* Every request is told that it has ended, unless the application closes.   *)
EveryRequestEnds == \A r \in Reqs : r <= nreq ~> req[r].ends # << >> \/ sock = "shut"
=============================================================================
