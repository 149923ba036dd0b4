--------------------------- MODULE FrameCallbacks ---------------------------
(* What the callbacks of the HTTP parser (HttpParser) do to the frame        *)
(* assembler (src/cahttp/CaHttpFrame.cpp), on a record of its parts: the     *)
(* frame f of CaHttpFrame, the message and the header that are incomplete,   *)
(* and the messages whose header was completed.  wire is the text behind the *)
(* positions that callbacks carry.                                           *)
EXTENDS CaHttpFrame, HttpParser, CaHttpMsg

NoHead == [url |-> "", hdrs |-> << >>]
NewAssembler == [f |-> NewFrame, draft |-> NoHead, hdr |-> [name |-> "", val |-> ""], heads |-> << >>]

(* procHeader(): the header goes to mMsg, whatever stage that is at.         *)
ProcHeader(a) ==
  LET put(hs) == AddHdr(hs, a.hdr.name, a.hdr.val)
      b == [a EXCEPT !.hdr = [name |-> "", val |-> ""]]
  IN IF a.hdr.val = "" THEN a
     ELSE IF a.f.msg = NoMsg THEN [b EXCEPT !.draft.hdrs = put(@)]
     ELSE [b EXCEPT !.heads[a.f.msg.id].hdrs = put(@)]

HeaderNameKeepsVal(a, text) ==         \* mutant: the header before is not put away
  [a EXCEPT !.hdr.name = @ \o text]

HeaderName(a, text) == [ProcHeader(a) EXCEPT !.hdr.name = @ \o text]

(* dgHeaderComp(): the header is complete; mContentLen and what fetchMsg()   *)
(* will move out.                                                            *)
CompleteHeader(a, q) ==
  LET b == ProcHeader(a)
      clen == IF "F_CHUNKED" \in q.flags THEN ChunkedBody ELSE IF q.clen = ULLONG_MAX THEN 0 ELSE q.clen
      head == [start |-> IF q.type = "HTTP_REQUEST" THEN q.method ELSE ToString(q.status),
               rtsp |-> q.proto = "R", url |-> b.draft.url, hdrs |-> b.draft.hdrs]
  IN [b EXCEPT !.f = HeaderComp(b.f, Len(b.heads) + 1, clen), !.heads = Append(@, head),
               !.draft = NoHead]

Callback(a, c, q, wire) ==
  LET text == SubSeq(wire, c.from, c.to) IN
  CASE c.cb = "message_begin"    -> [a EXCEPT !.f = MsgBegin(@)]
    [] c.cb = "url"              -> [a EXCEPT !.draft.url = text]
    [] c.cb = "header_field"     -> HeaderName(a, text)
    [] c.cb = "header_value"     -> [a EXCEPT !.hdr.val = @ \o text]
    [] c.cb = "headers_complete" -> CompleteHeader(a, q)
    [] c.cb = "body" -> [a EXCEPT !.f = FoldLeft(BodyData, @, [i \in 1 .. c.to - c.from + 1 |-> c.from + i - 1])]
    [] c.cb = "message_complete" -> [a EXCEPT !.f = MsgEnd(@)]
    [] OTHER -> a                \* status, chunk_header and chunk_complete only log
=============================================================================
