---------------------------- MODULE CaHttpFrame ----------------------------
(* The frame assembler (src/cahttp/CaHttpFrame.cpp) as operators on a        *)
(* record: what the callbacks of the HTTP parser do to it, and what status(),*)
(* fetchMsg() and fetchData() hand out.  Server connections (ServRead) and   *)
(* client connections read every message through it.                         *)
(*                                                                           *)
(* A message is its number and the length its header announces; a body is a  *)
(* sequence of units, each labelled with the message it belongs to.          *)
EXTENDS Integers, SequencesExt

ChunkedBody == -1      \* mContentLen of a chunked message
NoMsg == [id |-> 0, clen |-> 0]    \* a CaHttpMsg of class 0: empty, or moved away

NewFrame == [ps   |-> "INIT",      \* mPs
             msg  |-> NoMsg,       \* mMsg
             body |-> << >>,       \* mBodyData
             clen |-> 0,           \* mContentLen
             rlen |-> 0,           \* mReadLen
             stat |-> {},          \* mReadStatus: "hdr" is 0x01, "data" is 0x02
             list |-> << >>]       \* mMsgList: messages completed before they were fetched

-----------------------------------------------------------------------------
(* Parser callbacks.                                                         *)

MsgBeginKeepsBody(f) ==                \* mutant: mBodyData is copied to the list, not moved
  LET frame == [msg |-> f.msg, data |-> f.body,
                stat |-> {"hdr"} \cup (IF f.body # << >> THEN {"data"} ELSE {})]
      fresh == [f EXCEPT !.ps = "FIRST_LINE", !.rlen = 0, !.clen = 0, !.stat = {}]
  IN IF f.msg = NoMsg THEN fresh ELSE [fresh EXCEPT !.list = Append(@, frame), !.msg = NoMsg]

MsgBeginKeepsCount(f) ==               \* mutant: mReadLen is not reset
  LET frame == [msg |-> f.msg, data |-> f.body,
                stat |-> {"hdr"} \cup (IF f.body # << >> THEN {"data"} ELSE {})]
      fresh == [f EXCEPT !.ps = "FIRST_LINE", !.clen = 0, !.stat = {}]
  IN IF f.msg = NoMsg THEN fresh
     ELSE [fresh EXCEPT !.list = Append(@, frame), !.msg = NoMsg, !.body = << >>]

(* dgMsgBeginCb(): a message begins.  One whose header was not fetched goes  *)
(* to the list with the body so far; the current one starts afresh, except   *)
(* that mBodyData is kept when nothing was listed.                           *)
MsgBegin(f) ==
  LET frame == [msg |-> f.msg, data |-> f.body,
                stat |-> {"hdr"} \cup (IF f.body # << >> THEN {"data"} ELSE {})]
      fresh == [f EXCEPT !.ps = "FIRST_LINE", !.rlen = 0, !.clen = 0, !.stat = {}]
  IN IF f.msg = NoMsg THEN fresh
     ELSE [fresh EXCEPT !.list = Append(@, frame), !.msg = NoMsg, !.body = << >>]

(* dgHeaderNameCb() .. dgHeaderComp(): the header is complete.               *)
HeaderComp(f, id, clen) ==
  [f EXCEPT !.ps = "HEADER", !.msg = [id |-> id, clen |-> clen], !.clen = clen,
            !.stat = {"hdr"} \cup (IF clen # 0 THEN {"data"} ELSE {})]

(* dgbodyDataCb()                                                            *)
BodyData(f, unit) ==
  [f EXCEPT !.ps = IF @ = "HEADER" THEN "BODY" ELSE @, !.body = Append(@, unit)]

MsgEndIgnored(f) == f                  \* mutant: the end of a message is not noted

(* dgMsgEndCb()                                                              *)
MsgEnd(f) == [f EXCEPT !.ps = "END"]

-----------------------------------------------------------------------------
(* status(): a header, else data, else nothing is to be fetched; messages in *)
(* the list come first.                                                      *)
Status(f) ==
  LET rs == IF f.list = << >> THEN f.stat ELSE Head(f.list).stat
  IN IF "hdr" \in rs THEN "FS_HDR" ELSE IF "data" \in rs THEN "FS_DATA" ELSE "FS_NONE"

(* fetchMsg(), the status being FS_HDR: the message, whether a body follows, *)
(* the frame afterwards, and the assert()s that fail.                        *)
FetchMsg(f) ==
  IF f.list = << >>
  THEN [msg |-> f.msg, res |-> IF f.clen = 0 THEN "MSG_ONLY" ELSE "MSG_WITHDATA",
        f |-> [f EXCEPT !.msg = NoMsg, !.stat = @ \ {"hdr"}], failed |-> {}]
  ELSE LET m == Head(f.list).msg IN
       IF m.clen = 0
       THEN [msg |-> m, res |-> "MSG_ONLY", f |-> [f EXCEPT !.list = Tail(@)], failed |-> {}]
       ELSE [msg |-> m, res |-> "MSG_WITHDATA",
             f |-> [f EXCEPT !.list[1].msg = NoMsg, !.list[1].stat = @ \ {"hdr"}],
             failed |-> IF m.clen = ChunkedBody THEN {"getContentLenInt() != -1"} ELSE {}]

FetchDataOffByOne(f) ==                \* mutant: mReadLen > mContentLen ends the body
  LET got == f.rlen + Len(f.body) IN
  IF f.list # << >>
  THEN [data |-> Head(f.list).data, res |-> "MSG_DATA_END", f |-> [f EXCEPT !.list = Tail(@)],
        failed |-> {}]
  ELSE IF f.body = << >>
  THEN [data |-> << >>, f |-> f, failed |-> {},
        res |-> IF f.clen = ChunkedBody /\ f.ps = "END" THEN "MSG_DATA_END" ELSE "MSG_DATA_EMPTY"]
  ELSE [data |-> f.body, res |-> IF f.clen > 0 /\ got > f.clen THEN "MSG_DATA_END" ELSE "MSG_DATA",
        f |-> [f EXCEPT !.rlen = got, !.body = << >>], failed |-> {}]

(* fetchData(), the status being FS_DATA.                                    *)
FetchData(f) ==
  LET got == f.rlen + Len(f.body)
      nolen == IF f.clen = 0 THEN {"mContentLen != 0"} ELSE {}
  IN
  IF f.list # << >>
  THEN [data |-> Head(f.list).data, res |-> "MSG_DATA_END", f |-> [f EXCEPT !.list = Tail(@)],
        failed |-> {}]
  ELSE IF f.body = << >>
  THEN [data |-> << >>, f |-> f, failed |-> nolen,
        res |-> IF f.clen = ChunkedBody /\ f.ps = "END" THEN "MSG_DATA_END" ELSE "MSG_DATA_EMPTY"]
  ELSE IF f.clen > 0 /\ got >= f.clen
  THEN [data |-> f.body, res |-> "MSG_DATA_END",
        f |-> [f EXCEPT !.rlen = got, !.body = << >>, !.stat = @ \ {"data"}],
        failed |-> IF got # f.clen THEN {"mReadLen == mContentLen"} ELSE {}]
  ELSE [data |-> f.body, res |-> "MSG_DATA", f |-> [f EXCEPT !.rlen = got, !.body = << >>],
        failed |-> nolen]

-----------------------------------------------------------------------------
(* The other side of the connection and the HTTP parser.  A message on the   *)
(* connection is the tokens "begin" (first bytes), "header" (the rest of its *)
(* header), "body" per unit and, for a chunked one, "last"; end marks the    *)
(* token that completes it.                                                  *)
MsgTokens(id, clen, units) ==
  LET chunked == clen = ChunkedBody
      tok(t, end) == [t |-> t, id |-> id, clen |-> clen, end |-> end]
  IN <<tok("begin", FALSE), tok("header", clen = 0)>>
       \o [i \in 1 .. units |-> tok("body", ~chunked /\ i = units)]
       \o (IF chunked THEN <<tok("last", TRUE)>> ELSE << >>)

(* The callbacks the parser makes for one token.                             *)
Parse(f, e) ==
  LET x == CASE e.t = "begin"  -> MsgBegin(f)
             [] e.t = "header" -> HeaderComp(f, e.id, e.clen)
             [] e.t = "body"   -> BodyData(f, e.id)
             [] OTHER          -> f
  IN IF e.end THEN MsgEnd(x) ELSE x

FeedPacket(f, toks) ==
  LET after[i \in 0 .. Len(toks)] == IF i = 0 THEN f ELSE Parse(after[i - 1], toks[i])
  IN after[Len(toks)]

(* Packets the assembler cannot take apart: one ends a body whose header was *)
(* fetched from an earlier packet and begins another message, ...            *)
EndsAndBegins(toks) ==
  toks # << >> /\ toks[1].t \in {"body", "last"} /\ \E i \in DOMAIN toks : toks[i].t = "begin"

(* ... one holds the header of a chunked message and begins another.         *)
QueuesChunked(toks) ==
  \E i, j \in DOMAIN toks :
    i < j /\ toks[i].t = "header" /\ toks[i].clen = ChunkedBody /\ toks[j].t = "begin"
=============================================================================
