------------------------------ MODULE HttpHeads ------------------------------
(* The heads of requests and responses, from the calls that ask for them to  *)
(* the reader: CaHttpReq and CaHttpUrlCtrl of src/cahttp fill a message,     *)
(* CaHttpMsg turns it into text, and the text goes through the HTTP parser   *)
(* into the other side's frame assembler.  A date is always the same text.   *)
EXTENDS FrameCallbacks

CONSTANTS
  Hdrs,             \* headers an application may set: <<name, value>>
  MaxHdrs,          \* how many it sets
  Lens,             \* lengths of a body it announces
  Urls,             \* URLs: [text, host], host being the Host they call for
  Verbs, Statuses,
  MaxRequests,      \* requests made with one CaHttpReq
  RequestUncleared  \* request() again without clearRequest()

U == INSTANCE CaHttpUrlParser

VARIABLES
  side,    \* whose head: "client" or "server"
  msg,     \* mReqMsg or mRespMsg
  body,    \* mReqContentLen or mRespContentLen, and whether it goes in chunks
  hostIp,  \* mHostIp is set
  told,    \* the calls since the object was made or cleared
  made,    \* requests made
  wire, at, p, a  \* the text, the bytes of it read, and the reader

hvars == <<side, msg, body, hostIp, told, made, wire, at, p, a>>

NoBody == [len |-> 0, tec |-> FALSE]
Untold == [hdrs |-> << >>, ctype |-> FALSE, addr |-> FALSE, start |-> "", url |-> "", host |-> ""]
NewReader == NewParser(IF side = "client" THEN "HTTP_REQUEST" ELSE "HTTP_RESPONSE")

HInit ==
  /\ side \in {"client", "server"}
  /\ msg = NewMsg /\ body = NoBody /\ hostIp = FALSE /\ told = Untold /\ made = 0
  /\ wire = "" /\ at = 0 /\ p = NewReader /\ a = NewAssembler

(* get_status_desc(): an unknown status has no description.                  *)
StatusDesc(st) == CASE st = 200 -> "OK" [] st = 404 -> "Not Found" [] OTHER -> ""

-----------------------------------------------------------------------------
(* The calls before a head is sent.                                          *)
Preparing == wire = ""
Over == side = "client" /\ wire # "" /\ at = Len(wire)

(* setReqHdr(), addRespHdr()                                                 *)
SetReqHdr(h) ==
  /\ Preparing /\ Len(told.hdrs) < MaxHdrs
  /\ msg' = SetHdr(msg, h[1], h[2])
  /\ told' = [told EXCEPT !.hdrs = Append(@, h)]
  /\ UNCHANGED <<side, body, hostIp, made, wire, at, p, a>>

(* setReqContent(); setRespContent(), whose tec asks for chunks.             *)
SetContent(len, tec) ==
  /\ Preparing /\ ~told.ctype
  /\ tec => side = "server"
  /\ msg' = SetHdr(msg, "Content-Type", "t/p")
  /\ body' = IF tec THEN [len |-> ChunkedBody, tec |-> TRUE] ELSE [body EXCEPT !.len = len]
  /\ told' = [told EXCEPT !.ctype = TRUE, !.hdrs = Append(@, <<"Content-Type", "t/p">>)]
  /\ UNCHANGED <<side, hostIp, made, wire, at, p, a>>

(* enableTransferChunked()                                                   *)
EnableTransferChunked ==
  /\ Preparing /\ side = "client" /\ ~body.tec
  /\ body' = [body EXCEPT !.tec = TRUE]
  /\ UNCHANGED <<side, msg, hostIp, told, made, wire, at, p, a>>

(* setRemoteHostAddr()                                                       *)
SetRemoteHostAddr ==
  /\ Preparing /\ side = "client" /\ ~hostIp
  /\ hostIp' = TRUE /\ told' = [told EXCEPT !.addr = TRUE]
  /\ UNCHANGED <<side, msg, body, made, wire, at, p, a>>

-----------------------------------------------------------------------------
(* The Host that request() takes from a URL.                                 *)
DefaultPort(scheme) == CASE scheme = "http" -> "80" [] scheme = "https" -> "443" [] OTHER -> ""
HostOf(u) ==
  LET port == IF u.port # "" THEN u.port ELSE DefaultPort(u.scheme) IN
  IF u.scheme \in {"http", "https"} /\ port # DefaultPort(u.scheme) THEN u.hostName \o ":" \o u.port ELSE u.hostName

LengthHdr(len, tec) ==
  IF tec THEN <<"Transfer-Encoding", "chunked">> ELSE <<"Content-Length", ToString(len)>>
AllSet(m, hdrs) == FoldLeft(LAMBDA x, h : SetHdr(x, h[1], h[2]), m, hdrs)

(* request(): a host name is looked up and named unless an address was set.  *)
Request(method, url) ==
  LET host == IF hostIp THEN "" ELSE HostOf(U!UrlParse(U!NoUrl, url.text))
      named == IF host = "" THEN << >> ELSE <<<<"Host", host>>>>
      m == AllSet(SetMethod([msg EXCEPT !.mUrl = url.text], method),
                  named \o <<<<"User-Agent", "cahttp">>, <<"Date", "now">>, LengthHdr(body.len, body.tec)>>)
  IN /\ Preparing \/ (RequestUncleared /\ Over)
     /\ side = "client" /\ made < MaxRequests
     /\ msg' = m /\ wire' = Serialize(m, "")
     /\ body' = IF body.tec THEN [body EXCEPT !.len = ChunkedBody] ELSE body
     /\ hostIp' = TRUE /\ made' = made + 1 /\ at' = 0 /\ p' = NewReader /\ a' = NewAssembler
     /\ told' = [told EXCEPT !.start = method, !.url = url.text, !.host = IF told.addr THEN "" ELSE url.host]
     /\ UNCHANGED side

(* response()                                                                *)
Response(status) ==
  LET m == AllSet(SetStatus(AllSet(msg, <<LengthHdr(body.len, body.len = ChunkedBody)>>), status), <<<<"Date", "now">>>>)
  IN /\ Preparing /\ side = "server"
     /\ msg' = m /\ wire' = Serialize(m, StatusDesc(status))
     /\ told' = [told EXCEPT !.start = ToString(status)]
     /\ UNCHANGED <<side, body, hostIp, made, at, p, a>>

(* clearRequest(), the request being over; its message keeps method and URL. *)
ClearRequest ==
  /\ Over /\ made < MaxRequests
  /\ msg' = Clear(msg) /\ body' = NoBody /\ hostIp' = FALSE /\ told' = Untold
  /\ wire' = "" /\ at' = 0 /\ p' = NewReader /\ a' = NewAssembler
  /\ UNCHANGED <<side, made>>

(* The other side reads a byte; the text arrives in one packet.              *)
ReadByte ==
  LET q == Byte(p, SubSeq(wire, at + 1, at + 1), at + 1) IN
  /\ at < Len(wire) /\ p.err = "HPE_OK"
  /\ a' = FoldLeft(LAMBDA x, c : Callback(x, c, q, wire), a, q.cbs)
  /\ p' = [q EXCEPT !.cbs = << >>]
  /\ at' = at + 1
  /\ UNCHANGED <<side, msg, body, hostIp, told, made, wire>>

HNext ==
  \/ \E h \in Hdrs : SetReqHdr(h)
  \/ \E len \in Lens, tec \in BOOLEAN : SetContent(len, tec)
  \/ EnableTransferChunked \/ SetRemoteHostAddr
  \/ \E method \in Verbs, url \in Urls : Request(method, url)
  \/ \E status \in Statuses : Response(status)
  \/ ClearRequest \/ ReadByte

HSpec == HInit /\ [][HNext]_hvars

-----------------------------------------------------------------------------
(* What a reader should find: every header that was asked for, once, at the  *)
(* place it was first asked for, with all of its values, and what the        *)
(* library adds.                                                             *)
Implied ==
  IF side = "server" THEN <<LengthHdr(body.len, body.tec), <<"Date", "now">>>>
  ELSE (IF told.host = "" THEN << >> ELSE <<<<"Host", told.host>>>>)
         \o <<<<"User-Agent", "cahttp">>, <<"Date", "now">>, LengthHdr(body.len, body.tec)>>

Grouped(hdrs) ==
  LET first == {i \in DOMAIN hdrs : \A j \in 1 .. i - 1 : hdrs[j][1] # hdrs[i][1]}
      values(name) == LET s == SelectSeq(hdrs, LAMBDA h : h[1] = name) IN
                      FoldLeft(LAMBDA t, h : t \o ", " \o h[2], s[1][2], Tail(s))
      nth(k) == CHOOSE i \in first : Cardinality({j \in first : j <= i}) = k
  IN [k \in 1 .. Cardinality(first) |-> <<hdrs[nth(k)][1], <<values(hdrs[nth(k)][1])>>>>]

(* A head that was sent is one message for its reader, with the method or    *)
(* status, the URL and the headers that were asked for since the object was  *)
(* made or cleared and no others, and the length of the body it announces.   *)
HeadAsAsked ==
  wire # "" /\ at = Len(wire) =>
    /\ p.err = "HPE_OK" /\ Len(a.heads) = 1
    /\ a.heads[1] = [start |-> told.start, rtsp |-> FALSE, url |-> told.url, hdrs |-> Grouped(told.hdrs \o Implied)]
    /\ a.f.clen = body.len
=============================================================================
