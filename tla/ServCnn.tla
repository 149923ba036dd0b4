------------------------------ MODULE ServCnn ------------------------------
(* One server connection (src/cahttp/ServCnn.cpp): the controllers of the    *)
(* requests received so far, the transmit loop starttx() that sends their    *)
(* responses in request order, sendData() called by the application, and the *)
(* ways the connection ends.                                                 *)
(*                                                                           *)
(* Everything runs on the event loop of one task.  A handler is several      *)
(* steps (pc says where it is) because it calls the application back and     *)
(* because the socket may take, queue or refuse each packet; no other event  *)
(* is dispatched before the handler is done (pc = "idle").                   *)
EXTENDS CaHttpUrlCtrl, FiniteSets, SequencesExt

CONSTANTS NReq,        \* requests the peer sends on the connection
          AppShapes,   \* the responses the application gives
          TimerSend,   \* application timers call sendData(), not only OnHttpSendBufReady()
          EagerSend,   \* ... even before OnHttpSendBufReady() asked for data
          Pipelined,   \* the peer sends a request before the last response is complete
          WithBody,    \* some requests carry a body
          MaySever     \* the peer may go away, the timer may expire

ASSUME NReqAssumption == NReq \in Nat \ {0}
ASSUME AppShapesAssumption == AppShapes \subseteq Shapes
ASSUME FlagsAssumption ==
  /\ TimerSend \in BOOLEAN /\ EagerSend \in BOOLEAN /\ Pipelined \in BOOLEAN
  /\ WithBody \in BOOLEAN /\ MaySever \in BOOLEAN

Reqs == 1 .. NReq      \* a controller is named by the request it was allocated for
NoCtrl == 0            \* nullptr

VARIABLES
  nreq,            \* requests received, controllers allocated
  ctrl,            \* the controllers
  mCtrlList,       \* controllers whose response is still to be sent
  mDummyCtrlList,  \* ended controllers, not yet deleted
  mReqCtrl,        \* the controller that receives the request body
  mRespCtrl,       \* the controller starttx() works on
  mPauseSend, mTimerUpdate,
  mLocalMsg,       \* LM_DISCONNECT is posted
  cnn,             \* "open", "closed" (close() ran), "freed" (erased from the map)
  sock,            \* "writable", "pending" (a packet is queued), "broken", "closed"
  armed,           \* reserveWrite(): a writable event will come
  peer,            \* "up" or "down"
  wire,            \* what was handed to the socket, with the controller it is from
  pc,              \* "idle", "hdr"/"msg" (request callback), "tx", "ready" (send callback)
  ret,             \* where starttx() returns to
  ended,           \* OnHttpEnd() calls, per controller
  asked,           \* controllers OnHttpSendBufReady() was called on since they responded
  asserted         \* assert()s that failed; the release build goes on

reqVars  == <<nreq, mReqCtrl>>
listVars == <<mCtrlList, mDummyCtrlList, ended>>
endVars  == <<mLocalMsg, cnn, peer>>
vars == <<nreq, ctrl, mCtrlList, mDummyCtrlList, mReqCtrl, mRespCtrl, mPauseSend,
          mTimerUpdate, mLocalMsg, cnn, sock, armed, peer, wire, pc, ret, ended, asked,
          asserted>>

-----------------------------------------------------------------------------
(* The peer: an HTTP client that reads what is on the wire.                  *)

(* n responses read in full, and nothing of the next.                        *)
Sent(n) == [n |-> n, ph |-> "hdr", left |-> 0, ok |-> TRUE]
Start == Sent(0)

Receive(s, e) ==
  LET next(ph, left) == [n |-> s.n, ph |-> ph, left |-> left, ok |-> TRUE]
      done == Sent(s.n + 1)
      bad  == [s EXCEPT !.ok = FALSE]
      t == e.tok.t
      n == e.tok.n
  IN CASE ~s.ok \/ e.c # s.n + 1 -> bad
       [] s.ph = "hdr" /\ t = "hdr" ->
            IF n = Chunked THEN next("size", 0) ELSE IF n = 0 THEN done ELSE next("cl", n)
       [] s.ph = "cl" /\ t = "data" /\ n <= s.left ->
            IF n = s.left THEN done ELSE next("cl", s.left - n)
       [] s.ph = "size" /\ t = "size" -> next(IF n = 0 THEN "last" ELSE "chunk", n)
       [] s.ph = "chunk" /\ t = "data" /\ n = s.left -> next("crlf", 0)
       [] s.ph = "crlf" /\ t = "crlf" -> next("size", 0)
       [] s.ph = "last" /\ t = "crlf" -> done
       [] OTHER -> bad

(* The same; TLC evaluates s once, also in a primed expression.              *)
ReceiveOnce(s, e) == CHOOSE r \in {Receive(t, e) : t \in {s}} : TRUE

PeerView == FoldLeft(ReceiveOnce, Start, wire)

Whole(c) == PeerView.n >= c

-----------------------------------------------------------------------------
Init ==
  /\ nreq = 0
  /\ ctrl = [c \in Reqs |-> NewCtrl]
  /\ mCtrlList = << >> /\ mDummyCtrlList = {}
  /\ mReqCtrl = NoCtrl /\ mRespCtrl = NoCtrl
  /\ mPauseSend = FALSE /\ mTimerUpdate = FALSE /\ mLocalMsg = FALSE
  /\ cnn = "open" /\ sock = "writable" /\ armed = FALSE /\ peer = "up"
  /\ wire = << >>
  /\ pc = "idle" /\ ret = "idle"
  /\ ended = [c \in Reqs |-> 0] /\ asked = {} /\ asserted = {}

Live(c) == \E i \in DOMAIN mCtrlList : mCtrlList[i] = c

EndCtrlPopsBack(c) ==                  \* mutant: the newest controller leaves the list
  /\ ended' = [ended EXCEPT ![c] = @ + 1]
  /\ mCtrlList' = Front(mCtrlList)
  /\ mDummyCtrlList' = mDummyCtrlList \cup {c}

(* endCtrl(c): the front of the list goes, whichever controller ends.        *)
EndCtrl(c) ==
  /\ ended' = [ended EXCEPT ![c] = @ + 1]
  /\ mCtrlList' = Tail(mCtrlList)
  /\ mDummyCtrlList' = mDummyCtrlList \cup {c}

(* clearDummyCtrl()                                                          *)
ClearDummyCtrl == mDummyCtrlList' = {}

(* What sendPacket() can answer, and the socket afterwards: it fails once    *)
(* the peer is gone, and then for good.                                      *)
SendResults == IF sock = "broken" THEN {"FAIL"}
               ELSE {"OK", "PENDING"} \cup (IF peer = "down" THEN {"FAIL"} ELSE {})
SockAfter(r) == CASE r = "OK" -> "writable" [] r = "PENDING" -> "pending" [] OTHER -> "broken"
IsWritable == sock \in {"writable", "broken"}

OnWire(c, toks) == [i \in DOMAIN toks |-> [c |-> c, tok |-> toks[i]]]

-----------------------------------------------------------------------------
(* procRead(): a request header arrives.  Ended controllers are deleted, a   *)
(* controller is allocated and called back; without a body the request is    *)
(* complete at once.                                                         *)
RecvHdr(msgonly) ==
  /\ pc = "idle" /\ cnn = "open" /\ peer = "up"
  /\ nreq < NReq
  /\ Pipelined \/ (Whole(nreq) /\ sock = "writable")
  /\ msgonly \/ WithBody
  /\ ClearDummyCtrl
  /\ nreq' = nreq + 1
  /\ mCtrlList' = Append(mCtrlList, nreq + 1)
  /\ mReqCtrl' = nreq + 1
  /\ mTimerUpdate' = TRUE
  /\ pc' = IF msgonly THEN "msg" ELSE "hdr"
  /\ UNCHANGED <<ctrl, ended, mRespCtrl, mPauseSend, sock, armed, wire, ret, asked,
                 asserted, endVars>>

RecvDataClears(dataend, refused) ==    \* mutant: ended controllers are deleted here too
  /\ pc = "idle" /\ cnn = "open" /\ peer = "up" /\ mReqCtrl # NoCtrl
  /\ mTimerUpdate' = TRUE
  /\ mLocalMsg' = (mLocalMsg \/ refused)
  /\ pc' = IF dataend /\ ~refused THEN "msg" ELSE "idle"
  /\ mReqCtrl' = IF dataend /\ refused THEN NoCtrl ELSE mReqCtrl
  /\ ClearDummyCtrl
  /\ UNCHANGED <<nreq, ctrl, mCtrlList, ended, mRespCtrl, mPauseSend, cnn, sock, armed, peer,
                 wire, ret, asked, asserted>>

(* procRead(): body data for mReqCtrl.  The request's data stream may refuse *)
(* it, and then the connection is asked to disconnect.                       *)
RecvData(dataend, refused) ==
  /\ pc = "idle" /\ cnn = "open" /\ peer = "up" /\ mReqCtrl # NoCtrl
  /\ mTimerUpdate' = TRUE
  /\ mLocalMsg' = (mLocalMsg \/ refused)
  /\ pc' = IF dataend /\ ~refused THEN "msg" ELSE "idle"
  /\ mReqCtrl' = IF dataend /\ refused THEN NoCtrl ELSE mReqCtrl
  /\ UNCHANGED <<nreq, ctrl, listVars, mRespCtrl, mPauseSend, cnn, sock, armed, peer, wire,
                 ret, asked, asserted>>

(* A request callback returns; after OnHttpReqMsg() mReqCtrl is reset.       *)
CallbackReturns ==
  /\ pc \in {"hdr", "msg"}
  /\ pc' = "idle"
  /\ mReqCtrl' = IF pc = "msg" THEN NoCtrl ELSE mReqCtrl
  /\ UNCHANGED <<nreq, ctrl, listVars, mRespCtrl, mPauseSend, mTimerUpdate, endVars, sock,
                 armed, wire, ret, asked, asserted>>

-----------------------------------------------------------------------------
StartTxAtBack ==                       \* mutant: the newest controller is served first
  /\ mTimerUpdate' = TRUE
  /\ ret' = pc
  /\ IF mCtrlList = << >>
     THEN UNCHANGED <<pc, mRespCtrl>>
     ELSE pc' = "tx" /\ mRespCtrl' = Last(mCtrlList)

(* starttx() begins with the front controller, or has nothing to do.         *)
StartTx ==
  /\ mTimerUpdate' = TRUE
  /\ ret' = pc
  /\ IF mCtrlList = << >>
     THEN UNCHANGED <<pc, mRespCtrl>>
     ELSE pc' = "tx" /\ mRespCtrl' = Head(mCtrlList)

(* The application responds, from a request callback or from a timer of its  *)
(* own, once per controller and not after OnHttpEnd().                       *)
Response(c, s) ==
  /\ cnn = "open" /\ ~ctrl[c].resp /\ Live(c)
  /\ pc = "idle" \/ (pc \in {"hdr", "msg"} /\ c = mReqCtrl)
  /\ ctrl' = [ctrl EXCEPT ![c] = Responded(@, s)]
  /\ asked' = asked \ {c}
  /\ StartTx
  /\ UNCHANGED <<reqVars, listVars, mPauseSend, endVars, sock, armed, wire, asserted>>

(* starttx() returns to its caller.                                          *)
LeaveTx == pc' = ret

(* The controller ended: the loop goes on with the next one, if any.         *)
NextCtrl ==
  IF Tail(mCtrlList) = << >>
  THEN mRespCtrl' = NoCtrl /\ LeaveTx
  ELSE mRespCtrl' = Head(Tail(mCtrlList)) /\ pc' = "tx"

(* A packet is queued, or a controller that is not done stops the loop.      *)
TxBlocked ==
  /\ pc = "tx" /\ ~IsWritable
  /\ LeaveTx
  /\ UNCHANGED <<reqVars, ctrl, listVars, mRespCtrl, mPauseSend, mTimerUpdate, endVars,
                 sock, armed, wire, ret, asked, asserted>>

(* getDataPtr() gives data.                                                  *)
TxSend(r) ==
  LET c == mRespCtrl
      u == Prepared(ctrl[c])
  IN
  /\ pc = "tx" /\ IsWritable /\ Avail(ctrl[c]) = "some"
  /\ r \in SendResults
  /\ mPauseSend' = FALSE
  /\ sock' = SockAfter(r)
  /\ IF r = "FAIL"
     THEN /\ ctrl' = [ctrl EXCEPT ![c] = u]
          /\ EndCtrl(c) /\ mRespCtrl' = NoCtrl /\ LeaveTx
          /\ UNCHANGED wire
     ELSE /\ ctrl' = [ctrl EXCEPT ![c] = Consumed(u)]
          /\ wire' = wire \o OnWire(c, Offered(u))
          /\ IF r = "OK" THEN UNCHANGED pc ELSE LeaveTx
          /\ UNCHANGED <<mRespCtrl, listVars>>
  /\ UNCHANGED <<reqVars, mTimerUpdate, endVars, armed, ret, asked, asserted>>

(* getDataPtr() says the response is over.                                   *)
TxDone ==
  /\ pc = "tx" /\ IsWritable /\ Avail(ctrl[mRespCtrl]) = "none"
  /\ mPauseSend' = FALSE
  /\ EndCtrl(mRespCtrl)
  /\ NextCtrl
  /\ UNCHANGED <<reqVars, ctrl, mTimerUpdate, endVars, sock, armed, wire, ret, asked,
                 asserted>>

(* getDataPtr() lacks data: procDataLack() finds the end of the stream, and  *)
(* the loop is left (mPauseSend), or asks the application for data.          *)
TxLack ==
  /\ pc = "tx" /\ IsWritable /\ Avail(ctrl[mRespCtrl]) = "lack"
  /\ mPauseSend' = TRUE
  /\ IF ctrl[mRespCtrl].eos
     THEN EndCtrl(mRespCtrl) /\ mRespCtrl' = NoCtrl /\ LeaveTx /\ UNCHANGED asked
     ELSE pc' = "ready" /\ asked' = asked \cup {mRespCtrl} /\ UNCHANGED <<listVars, mRespCtrl>>
  /\ UNCHANGED <<reqVars, ctrl, mTimerUpdate, endVars, sock, armed, wire, ret, asserted>>

(* OnHttpSendBufReady() returns: without a successful write the loop ends.   *)
(* An application that has no timer to send from tries at least one write.   *)
ReadyReturns ==
  /\ pc = "ready"
  /\ \/ TimerSend \/ ~mPauseSend \/ sock # "writable"
     \/ ~ctrl[mRespCtrl].resp \/ SendLens(ctrl[mRespCtrl]) = {}
  /\ IF mPauseSend THEN LeaveTx ELSE pc' = "tx"
  /\ UNCHANGED <<reqVars, ctrl, listVars, mRespCtrl, mPauseSend, mTimerUpdate, endVars,
                 sock, armed, wire, ret, asked, asserted>>

-----------------------------------------------------------------------------
(* writeData() goes straight to the socket for the front controller only.    *)
Direct(c) == mCtrlList # << >> /\ Head(mCtrlList) = c /\ IsWritable

(* sendData() of a response with an announced length.                        *)
SendPlain(c, len, r) ==
  LET u == ctrl[c] IN
  /\ ~u.te
  /\ r \in IF Direct(c) THEN SendResults ELSE {"FAIL"}
  /\ mPauseSend' = (Direct(c) /\ r # "OK")
  /\ mTimerUpdate' = TRUE
  /\ sock' = IF Direct(c) THEN SockAfter(r) ELSE sock
  /\ IF r = "FAIL"
     THEN UNCHANGED <<ctrl, wire, armed>>
     ELSE /\ ctrl' = [ctrl EXCEPT ![c] = Written(u, len, << >>)]
          /\ wire' = wire \o OnWire(c, <<Tok("data", len)>>)
          /\ armed' = (armed \/ (r = "OK" /\ u.wcnt + len = u.clen))

(* sendData() of a chunked response, through writeTec(): k pieces of the     *)
(* chunk go to the socket, the others wait in mChkStrm.  A packet that is    *)
(* queued or refused leaves the socket so that no further piece is taken.    *)
SendTec(c, len, k, r) ==
  LET u == ctrl[c]
      tried == u.chk = << >>
      direct == tried /\ Direct(c)
  IN
  /\ u.te
  /\ IF direct THEN k \in 0 .. 3 /\ r \in SendResults ELSE k = 0 /\ r = "PENDING"
  /\ direct => (r = "OK" => k = 3) /\ (r = "PENDING" => k > 0) /\ (r = "FAIL" => k < 3)
  /\ direct /\ sock = "broken" => k = 0
  /\ mPauseSend' = IF ~tried THEN mPauseSend
                   ELSE direct /\ (r = "FAIL" \/ (r = "PENDING" /\ k = 3))
  /\ mTimerUpdate' = (mTimerUpdate \/ tried)
  /\ sock' = IF direct THEN SockAfter(r) ELSE sock
  /\ ctrl' = [ctrl EXCEPT ![c] = Written(u, len, ChunkTail(len, k))]
  /\ wire' = wire \o OnWire(c, ChunkHead(len, k))
  /\ UNCHANGED armed

(* The application calls sendData(), from OnHttpSendBufReady() or from a     *)
(* timer of its own.                                                         *)
SendData(c, len) ==
  /\ cnn = "open" /\ Live(c) /\ ctrl[c].resp /\ ctrl[c].strm = NoStrm
  /\ len \in SendLens(ctrl[c])
  /\ \/ pc = "ready" /\ c = mRespCtrl
     \/ pc = "idle" /\ TimerSend /\ (EagerSend \/ c \in asked)
  /\ asserted' = IF ctrl[c].hdr THEN asserted \cup {"mHdrStrm.remain()==0"} ELSE asserted
  /\ \/ \E r \in {"OK", "PENDING", "FAIL"} : SendPlain(c, len, r)
     \/ \E k \in 0 .. 3, r \in {"OK", "PENDING", "FAIL"} : SendTec(c, len, k, r)
  /\ UNCHANGED <<reqVars, listVars, mRespCtrl, endVars, pc, ret, asked>>

-----------------------------------------------------------------------------
WritableIgnored ==                     \* mutant: the event does not restart the loop
  /\ pc = "idle" /\ cnn = "open"
  /\ \/ sock = "pending" /\ peer = "up"
     \/ armed /\ sock = "writable"
  /\ sock' = "writable" /\ armed' = FALSE
  /\ UNCHANGED <<reqVars, ctrl, listVars, mRespCtrl, mPauseSend, mTimerUpdate, endVars, wire,
                 pc, ret, asked, asserted>>

(* NETEV_WRITABLE: the queued packet has gone, or reserveWrite() asked.      *)
Writable ==
  /\ pc = "idle" /\ cnn = "open"
  /\ \/ sock = "pending" /\ peer = "up"
     \/ armed /\ sock = "writable"
  /\ sock' = "writable" /\ armed' = FALSE
  /\ StartTx
  /\ UNCHANGED <<reqVars, ctrl, listVars, mPauseSend, endVars, wire, asked, asserted>>

(* close(): every controller ends, then all ended controllers are deleted.   *)
Close ==
  /\ ended' = [c \in Reqs |-> IF Live(c) THEN ended[c] + 1 ELSE ended[c]]
  /\ mCtrlList' = << >>
  /\ ClearDummyCtrl
  /\ mRespCtrl' = IF mCtrlList = << >> THEN mRespCtrl ELSE NoCtrl
  /\ sock' = "closed" /\ armed' = FALSE
  /\ mLocalMsg' = FALSE

ClosedAs(how) ==
  /\ pc = "idle" /\ cnn = "open"
  /\ Close
  /\ cnn' = how
  /\ UNCHANGED <<reqVars, ctrl, mPauseSend, mTimerUpdate, peer, wire, pc, ret, asked,
                 asserted>>

(* LM_DISCONNECT closes; nobody erases the connection from the map.          *)
Disconnect == mLocalMsg /\ ClosedAs("closed")

(* NETEV_DISCONNECTED: the connection is closed and freed.                   *)
Disconnected == peer = "down" /\ ClosedAs("freed")

(* The connection timer closes after an interval without activity.           *)
Timeout == MaySever /\ ~mTimerUpdate /\ ClosedAs("freed")

TimerTick ==
  /\ MaySever /\ pc = "idle" /\ cnn = "open" /\ mTimerUpdate
  /\ mTimerUpdate' = FALSE
  /\ UNCHANGED <<reqVars, ctrl, listVars, mRespCtrl, mPauseSend, endVars, sock, armed, wire,
                 pc, ret, asked, asserted>>

(* The peer goes away; sendPacket() may notice before the event does.        *)
PeerDown ==
  /\ MaySever /\ peer = "up" /\ cnn = "open"
  /\ peer' = "down"
  /\ UNCHANGED <<reqVars, ctrl, listVars, mRespCtrl, mPauseSend, mTimerUpdate, mLocalMsg, cnn,
                 sock, armed, wire, pc, ret, asked, asserted>>

-----------------------------------------------------------------------------
Tx == TxBlocked \/ (\E r \in {"OK", "PENDING", "FAIL"} : TxSend(r)) \/ TxDone \/ TxLack

Next ==
  \/ \E msgonly \in BOOLEAN : RecvHdr(msgonly)
  \/ \E dataend, refused \in BOOLEAN : RecvData(dataend, refused)
  \/ CallbackReturns
  \/ \E c \in Reqs, s \in AppShapes : Response(c, s)
  \/ Tx
  \/ ReadyReturns
  \/ \E c \in Reqs, len \in 0 .. MaxLen : SendData(c, len)
  \/ Writable
  \/ Disconnect \/ Disconnected \/ Timeout \/ TimerTick \/ PeerDown

Spec == Init /\ [][Next]_vars

(* The event loop dispatches what is ready, a handler that has begun goes    *)
(* on, and the application answers: it responds to every complete request    *)
(* and, asked for data, sends the rest of its response.                      *)
Fairness ==
  /\ WF_vars(CallbackReturns) /\ WF_vars(Tx) /\ WF_vars(ReadyReturns)
  /\ WF_vars(Writable) /\ WF_vars(Disconnect) /\ WF_vars(Disconnected)
  /\ WF_vars(\E refused \in BOOLEAN : RecvData(TRUE, refused))
  /\ \A c \in Reqs : /\ WF_vars(\E s \in AppShapes : Response(c, s))
                     /\ SF_vars(\E len \in 0 .. MaxLen : SendData(c, len))

FairSpec == Spec /\ Fairness

-----------------------------------------------------------------------------
(* Every variable has its type.                                              *)
TypeOK ==
  /\ nreq \in 0 .. NReq
  /\ ctrl \in [Reqs -> Ctrls]
  /\ mCtrlList \in Seq(Reqs)
  /\ mDummyCtrlList \in SUBSET Reqs
  /\ mReqCtrl \in Reqs \cup {NoCtrl} /\ mRespCtrl \in Reqs \cup {NoCtrl}
  /\ mPauseSend \in BOOLEAN /\ mTimerUpdate \in BOOLEAN /\ mLocalMsg \in BOOLEAN
  /\ cnn \in {"open", "closed", "freed"}
  /\ sock \in {"writable", "pending", "broken", "closed"}
  /\ armed \in BOOLEAN /\ peer \in {"up", "down"}
  /\ wire \in Seq([c : Reqs, tok : Tokens])
  /\ pc \in {"idle", "hdr", "msg", "tx", "ready"} /\ ret \in {"idle", "hdr", "msg"}
  /\ ended \in [Reqs -> Nat]
  /\ asked \in SUBSET Reqs
  /\ asserted \in SUBSET {"mHdrStrm.remain()==0"}

(* The controllers end in the order their requests arrived, none twice and   *)
(* none is skipped: endCtrl() pops the front of the list although it is      *)
(* given the controller to end.                                              *)
EndedInOrder ==
  /\ \A i \in DOMAIN mCtrlList : mCtrlList[i] = nreq - Len(mCtrlList) + i
  /\ \A c \in Reqs : ended[c] = IF c <= nreq - Len(mCtrlList) THEN 1 ELSE 0

(* The loop works on the front of the list.                                  *)
TxAtFront == pc \in {"tx", "ready"} => mCtrlList # << >> /\ mRespCtrl = Head(mCtrlList)

(* The controller whose request is being received is still allocated.        *)
ReqCtrlIsKept ==
  cnn = "open" /\ mReqCtrl # NoCtrl => Live(mReqCtrl) \/ mReqCtrl \in mDummyCtrlList

(* What starttx() and procRead() hold a pointer to is not deleted: deletion  *)
(* waits in mDummyCtrlList for the next request header.                      *)
NoDanglingCtrl == TxAtFront /\ ReqCtrlIsKept

(* Nothing reaches the wire from a controller behind one that is still to be *)
(* answered: responses leave in the order of the requests.                   *)
WireInOrder ==
  /\ \A i, j \in DOMAIN wire : i < j => wire[i].c <= wire[j].c
  /\ \A i \in DOMAIN wire, j \in DOMAIN mCtrlList : j > 1 => wire[i].c < mCtrlList[j]

(* The peer can read the wire: a response is whole, body and last chunk      *)
(* included, before the next one begins, whoever wrote it: the transmit      *)
(* loop, sendData() or the pieces it left in mChkStrm.                       *)
ResponsesWellFramed == PeerView.ok

(* While the socket lives, a controller is only ended (OnHttpEnd(), later    *)
(* deleted) when its whole response was handed to the socket.                *)
EndedMeansSent ==
  cnn = "open" /\ sock # "broken" => \A c \in Reqs : ended[c] > 0 => Whole(c)

(* The event loop never rests with something to send: when no handler runs   *)
(* and no writable event is due, the front controller has nothing ready.     *)
NoStranded ==
  cnn = "open" /\ pc = "idle" /\ sock = "writable" /\ ~armed /\ mCtrlList # << >>
    => Avail(ctrl[Head(mCtrlList)]) # "some"

(* No assert() of the controller fails.                                      *)
NoAssertFails == asserted = {}

(* A request that has arrived is answered in full, unless the peer goes away *)
(* or the connection is closed.                                              *)
EveryRequestAnswered ==
  \A c \in Reqs : c <= nreq ~> Whole(c) \/ cnn # "open" \/ peer = "down"

Conn == IF cnn # "open" THEN "closed" ELSE IF sock = "broken" THEN "broken" ELSE "open"

Promise == INSTANCE PipelinedServer
             WITH arrived <- nreq, answered <- PeerView.n,
                  ended <- nreq - Len(mCtrlList), conn <- Conn

(* The connection is a pipelined server: counted by what the peer has read   *)
(* off the wire, responses are finished one at a time and in turn, and a     *)
(* controller is ended (endCtrl() counts by the list) when its response was  *)
(* finished, or when the socket refused it or close() ran.                   *)
KeepsPromise == Promise!Spec
=============================================================================
