------------------------------ MODULE ByteRead ------------------------------
(* The read side byte by byte: the text of the messages goes through the     *)
(* HTTP parser (HttpParser), whose callbacks fill the frame assembler        *)
(* (src/cahttp/CaHttpFrame.cpp), and procRead() of src/cahttp/ServCnn.cpp    *)
(* hands out what the assembler holds.  ServRead, whose packets are runs of  *)
(* tokens, is shown to say the same (TokenLevel).                            *)
(*                                                                           *)
(* A packet may end after any byte.  A unit of body is the position of its   *)
(* byte on the connection.  Responses go through the same assembler; their   *)
(* reader is given the loop of procRead(), that of HttpCnn being the same as *)
(* long as every response was asked for.                                     *)
EXTENDS ServRead, FrameCallbacks

CONSTANTS Conversations, \* what a peer may send: messages and what follows them
          SplitUrl       \* packets end within or right behind the URL of a request

VARIABLES
  sent,    \* the conversation, laid out
  at,      \* bytes read by the parser
  p,       \* mParser
  f0,      \* the assembler when the last packet arrived
  draft,   \* mMsg before its header is complete
  hdr,     \* mCurHdrName and mCurHdrVal
  heads,   \* the messages whose header was completed
  given,   \* what the controllers were given with OnHttpReqMsgHdr()
  mParsingStop

bvars == <<sent, at, p, f0, draft, hdr, heads, given, mParsingStop>>

-----------------------------------------------------------------------------
(* What the peer sends.  A message: its text up to the end of the header, in *)
(* which the message begins after `blank' bytes, and then its pieces,        *)
(* framing and data in turn; what a reader should make of it.                *)
Text(m) == m.head \o FoldLeft(LAMBDA s, t : s \o t, "", m.pieces)

PieceStart(m, i) == Len(m.head) + FoldLeft(LAMBDA n, t : n + Len(t), 0, SubSeq(m.pieces, 1, i - 1))

(* The bytes of the body, as offsets in the message's text.                  *)
BodyOffsets(m) ==
  LET dataPiece(j) == LET n == Len(m.pieces[2 * j]) IN [k \in 1 .. n |-> PieceStart(m, 2 * j) + k]
  IN FlattenSeq([j \in 1 .. Len(m.pieces) \div 2 |-> dataPiece(j)])

TokenOffsets(m) ==
  <<m.blank + 1, Len(m.head)>> \o BodyOffsets(m)
    \o IF m.clen = ChunkedBody THEN <<Len(Text(m))>> ELSE << >>

(* A conversation laid out: its text, where each of its messages starts and  *)
(* where the first byte behind them is, the bytes of each body, and the byte *)
(* that completes each token.                                                *)
LaidOut(t) ==
  LET start(c) == FoldLeft(LAMBDA n, m : n + Len(Text(m)), 0, SubSeq(t.msgs, 1, c - 1))
      placed(c, o) == [i \in DOMAIN o |-> start(c) + o[i]]
      ends == [c \in Reqs |-> placed(c, TokenOffsets(t.msgs[c]))]
  IN [msgs   |-> t.msgs, type |-> t.type, begins |-> t.begins,
      wire   |-> FoldLeft(LAMBDA w, m : w \o Text(m), "", t.msgs) \o t.tail,
      starts |-> [c \in 1 .. NReq + 1 |-> start(c)],
      bodies |-> [c \in Reqs |-> placed(c, BodyOffsets(t.msgs[c]))],
      tokpos |-> FlattenSeq(ends) \o IF t.begins THEN <<start(NReq + 1) + 1>> ELSE << >>]

wire == sent.wire
tokpos == sent.tokpos
BodyAt(c) == sent.bodies[c]

BInit ==
  /\ sent \in {LaidOut(t) : t \in Conversations}
  /\ reqs = [c \in Reqs |-> [clen |-> sent.msgs[c].clen, units |-> Len(BodyOffsets(sent.msgs[c]))]]
  /\ stream = FlattenSeq([c \in Reqs |-> MsgTokens(c, reqs[c].clen, reqs[c].units)])
                \o IF sent.begins THEN <<MsgTokens(NReq + 1, 0, 0)[1]>> ELSE << >>
  /\ pos = 0 /\ f = NewFrame /\ nctrl = 0 /\ mReqCtrl = NoCtrl
  /\ got = [c \in Reqs |-> << >>] /\ done = {} /\ pc = "idle" /\ asserted = {}
  /\ at = 0 /\ p = NewParser(sent.type) /\ f0 = f
  /\ draft = NoHead /\ hdr = [name |-> "", val |-> ""] /\ heads = << >> /\ given = << >>
  /\ mParsingStop = FALSE

-----------------------------------------------------------------------------
Assembler == [f |-> f, draft |-> draft, hdr |-> hdr, heads |-> heads]

(* The callbacks of a byte, or of the end of a packet, in order.             *)
MakeCallbacks(q) ==
  LET a == FoldLeft(LAMBDA b, c : Callback(b, c, q, wire), Assembler, q.cbs) IN
  /\ f' = a.f /\ draft' = a.draft /\ hdr' = a.hdr /\ heads' = a.heads
  /\ p' = [q EXCEPT !.cbs = << >>]

-----------------------------------------------------------------------------
(* Packets cut as the flags say.  The tokens of a packet that ends at byte n. *)
PacketTokens(n) == SubSeq(stream, pos + 1, Cardinality({k \in DOMAIN tokpos : tokpos[k] <= n}))
Separable(toks) == (~SplitThenNext => ~EndsAndBegins(toks)) /\ (~ChunkedThenNext => ~QueuesChunked(toks))

(* feedPacket(): a byte of a packet, the first one included.                 *)
FeedByte ==
  LET q == IF pc = "idle" THEN PacketBegin(p, at + 1) ELSE p IN
  /\ pc \in {"idle", "parse"} /\ ~mParsingStop
  /\ at < Len(wire) /\ q.err = "HPE_OK" /\ ~q.ret
  /\ Separable(PacketTokens(at + 1))
  /\ MakeCallbacks(Byte(q, CharAt(wire, at + 1), at + 1))
  /\ at' = at + 1 /\ pc' = "parse"
  /\ f0' = IF pc = "idle" THEN f ELSE f0
  /\ UNCHANGED <<reqs, stream, pos, nctrl, mReqCtrl, got, done, asserted,
                 sent, given, mParsingStop>>

(* The packet ends, one byte or more behind where the parser stopped early.  *)
FeedEnd(rest) ==
  LET toks == PacketTokens(at) IN
  /\ pc = "parse"
  /\ rest > 0 => p.err # "HPE_OK" \/ p.ret
  /\ ~SplitUrl => p.state \notin UrlStates \/ p.err # "HPE_OK"
  /\ toks = << >> /\ (pos = 0 \/ stream[pos].end) => Status(f) = "FS_NONE"
  /\ MakeCallbacks(PacketEnd(p, at))
  /\ pos' = pos + Len(toks) /\ pc' = "loop"
  /\ at' = at + rest
  /\ mParsingStop' = (p.err # "HPE_OK" \/ rest > 0)
  /\ UNCHANGED <<reqs, stream, nctrl, mReqCtrl, got, done, asserted, sent, f0, given>>

FeedPacketEnd == FeedEnd(0) \/ (at < Len(wire) /\ FeedEnd(1))

(* Once parsing has stopped packets are not parsed any more.                 *)
RecvUnparsed ==
  /\ pc = "idle" /\ mParsingStop /\ at < Len(wire)
  /\ at' = Len(wire)
  /\ UNCHANGED vars
  /\ UNCHANGED <<sent, p, f0, draft, hdr, heads, given, mParsingStop>>

(* The loop of procRead().                                                   *)
HandHeader ==
  /\ LoopHdr
  /\ given' = Append(given, heads[FetchMsg(f).msg.id])
  /\ UNCHANGED <<sent, at, p, f0, draft, hdr, heads, mParsingStop>>

HandData == (LoopData \/ LoopNone) /\ UNCHANGED bvars

BNext == FeedByte \/ FeedPacketEnd \/ RecvUnparsed \/ HandHeader \/ HandData

BFairness == /\ WF_<<vars, bvars>>(FeedByte)
             /\ WF_<<vars, bvars>>(FeedEnd(0))
             /\ WF_<<vars, bvars>>(HandHeader \/ HandData)

BSpec == BInit /\ [][BNext]_<<vars, bvars>> /\ BFairness

-----------------------------------------------------------------------------
(* Every controller is given the method or status, the URL and the headers   *)
(* of its own message, in the order sent, wherever the packets end; nothing  *)
(* that follows the last message or is refused by the parser reaches one.    *)
HeadsAsSent ==
  \A c \in DOMAIN given : c <= NReq /\ given[c] = sent.msgs[c].expect

(* The bytes a controller is given are those of its own body, in order, none *)
(* of the framing among them, and all of them once the message is complete.  *)
BodiesAsSent ==
  \A c \in Reqs : IF c \in done THEN got[c] = BodyAt(c)
                  ELSE Len(got[c]) <= Len(BodyAt(c)) /\ got[c] = SubSeq(BodyAt(c), 1, Len(got[c]))

(* Parsing stops for good behind the last message and nowhere else: neither  *)
(* a message that keeps the connection nor a packet's end is taken for one.  *)
StopsOnlyBehind == mParsingStop => \A i \in DOMAIN stream : stream[i].id \in Reqs => i <= pos

(* The reader of bytes behaves as ServRead says: packets of tokens.          *)
Owner(u) == CHOOSE c \in Reqs : sent.starts[c] < u /\ u <= sent.starts[c + 1]
Owners(s) == [i \in DOMAIN s |-> Owner(s[i])]
AsTokens(g) == [g EXCEPT !.body = Owners(@),
                         !.list = [i \in DOMAIN @ |-> [@[i] EXCEPT !.data = Owners(@)]]]
T == INSTANCE ServRead WITH f <- AsTokens(IF pc = "parse" THEN f0 ELSE f),
                            got <- [c \in Reqs |-> Owners(got[c])],
                            pc <- IF pc = "parse" THEN "idle" ELSE pc
TokenLevel == T!Init /\ [][T!Next]_T!vars

(* Every message sent is read to its end and completed.                      *)
EveryMessageRead == <>(done = Reqs)
=============================================================================
