------------------------------ MODULE CaHttpMsg ------------------------------
(* A message's head (src/cahttp/CaHttpMsg.cpp): a record with the class, the *)
(* method or status, the URL, the protocol and the headers, which are pairs  *)
(* of a name and the values set for it.                                      *)
EXTENDS Integers, Sequences, SequencesExt, TLC

NewMsg == [mMsgClass |-> 0, mMsgStatus |-> 0, mMethodStr |-> "", mUrl |-> "", mProtocolVer |-> "", mHdrList |-> << >>]

(* setHdr(): another value of a header that is there, or a new one.          *)
AddHdr(hdrs, name, val) ==
  LET same == {i \in DOMAIN hdrs : hdrs[i][1] = name} IN
  IF same = {} THEN Append(hdrs, <<name, <<val>>>>)
  ELSE [hdrs EXCEPT ![CHOOSE i \in same : TRUE][2] = Append(@, val)]

SetHdr(m, name, val) == [m EXCEPT !.mHdrList = AddHdr(@, name, val)]

(* clear(): the rest stays.                                                  *)
Clear(m) == [m EXCEPT !.mMsgClass = 0, !.mMsgStatus = 0, !.mHdrList = << >>]

SetMethod(m, method) == [m EXCEPT !.mMsgClass = 1, !.mMethodStr = method]
SetStatus(m, st) == [m EXCEPT !.mMsgClass = 2, !.mMsgStatus = st]

(* serialize(): desc is what get_status_desc() says of a status.             *)
Protocol(m) == IF m.mProtocolVer = "" THEN "HTTP/1.1" ELSE m.mProtocolVer

HdrLineFirstValue(h) == h[1] \o ": " \o h[2][1] \o "\r\n"   \* mutant: the other values are lost

HdrLine(h) == h[1] \o ": " \o FoldLeft(LAMBDA a, v : a \o ", " \o v, Head(h[2]), Tail(h[2])) \o "\r\n"

Serialize(m, desc) ==
  IF m.mMsgClass = 0 THEN ""
  ELSE (IF m.mMsgClass = 1 THEN m.mMethodStr \o " " \o m.mUrl \o " " \o Protocol(m)
        ELSE Protocol(m) \o " " \o ToString(m.mMsgStatus) \o " " \o desc)
       \o "\r\n" \o FoldLeft(LAMBDA a, h : a \o HdrLine(h), "", m.mHdrList) \o "\r\n"
=============================================================================
