----------------------------- MODULE MCByteRead -----------------------------
(* Conversations of two messages for ByteRead.                               *)
EXTENDS ByteRead

Message(blank, head, clen, pieces, start, rtsp, url, hdrs) ==
  [blank |-> blank, head |-> head, clen |-> clen, pieces |-> pieces,
   expect |-> [start |-> start, rtsp |-> rtsp, url |-> url, hdrs |-> hdrs]]

Plain(method, url) ==
  Message(0, method \o " " \o url \o " HTTP/1.1\r\n\r\n", 0, << >>, method, FALSE, url, << >>)

Talk(type, a, b) == [msgs |-> <<a, b>>, type |-> type, tail |-> "", begins |-> FALSE]
Followed(type, a, b, tail, begins) == [Talk(type, a, b) EXCEPT !.tail = tail, !.begins = begins]

-----------------------------------------------------------------------------
(* Requests.                                                                 *)
Get == Message(0, "GET /a?k=v&w#f HTTP/1.1\r\nHost: h:80\r\nCookie: a\r\nCOOKIE2: c\r\nCookie: b\r\n\r\n", 0,
               << >>, "GET", FALSE, "/a?k=v&w#f",
               <<<<"Host", <<"h:80">>>>, <<"Cookie", <<"a", "b">>>>, <<"COOKIE2", <<"c">>>>>>)

Posted == Message(0, "POST http://u@h/b HTTP/1.1\r\ncontent-LENGTH: 12 \r\nContent-Type: t/p; x=1\r\n\r\n", 12,
                  <<"", "GET / HTTP\r\n">>, "POST", FALSE, "http://u@h/b",
                  <<<<"content-LENGTH", <<"12 ">>>>, <<"Content-Type", <<"t/p; x=1">>>>>>)

Chunked == Message(0, "PUT * HTTP/1.1\r\nTransfer-Encoding: chunked\r\n\r\n", ChunkedBody,
                   <<"0a;x=\"1\"\r\n", "0\r\n\r\nabcde", "\r\n1\r\n", "f", "\r\n0 \r\n\r\n">>,
                   "PUT", FALSE, "*", <<<<"Transfer-Encoding", <<"chunked">>>>>>)

OldKept == Message(2, "\r\nHEAD / HTTP/1.0\r\nConnection: keep-alive, x\r\nProxy-Connection: Upgrade\r\nX:  v\r\n w\r\n\r\n", 0,
                   << >>, "HEAD", FALSE, "/",
                   <<<<"Connection", <<"keep-alive, x">>>>, <<"Proxy-Connection", <<"Upgrade">>>>,
                     <<"X", <<"v w">>>>>>)

Newlines == Message(1, "\nPATCH /\" HTTP/1.1\nContent-Length: 1\nTrailer: closed\nConn: e\nConnection: x,\tclose\n\n", 1, <<"", "z">>,
                    "PATCH", FALSE, "/\"",
                    <<<<"Content-Length", <<"1">>>>, <<"Trailer", <<"closed">>>>, <<"Conn", <<"e">>>>,
                      <<"Connection", <<"x,\tclose">>>>>>)

Rtsp(method) == Message(0, method \o " rtsp://h:554/s?q RTSP/1.0\r\nCSeq: 1\r\nUp: 0\r\n\r\n", 0, << >>, method,
                        TRUE, "rtsp://h:554/s?q", <<<<"CSeq", <<"1">>>>, <<"Up", <<"0">>>>>>)

Closing == Message(0, "GET /c HTTP/1.1\r\nTransfer-Encodings: chunked\r\nConnection: closed,close\r\n\r\n", 0, << >>,
                   "GET", FALSE, "/c",
                   <<<<"Transfer-Encodings", <<"chunked">>>>, <<"Connection", <<"closed,close">>>>>>)

Tunnel == Message(0, "CONNECT h:80 HTTP/1.1\r\n\r\n", 0, << >>, "CONNECT", FALSE, "h:80", << >>)

Methods == <<"DELETE", "GET", "HEAD", "POST", "PUT", "OPTIONS", "TRACE", "COPY", "LOCK", "MKCOL", "MOVE",
             "PROPFIND", "PROPPATCH", "SEARCH", "UNLOCK", "REPORT", "MKACTIVITY", "CHECKOUT", "MERGE",
             "M-SEARCH", "NOTIFY", "SUBSCRIBE", "UNSUBSCRIBE", "PATCH", "PURGE", "MKCALENDAR">>

RtspMethods == <<"DESCRIBE", "ANNOUNCE", "GET_PARAMETER", "PAUSE", "PLAY", "RECORD", "REDIRECT", "SETUP",
                 "SET_PARAMETER", "TEARDOWN">>

-----------------------------------------------------------------------------
(* Responses.                                                                *)
Ok == Message(0, "HTTP/1.1 200 OK\r\nContent-Length: 2\r\nServer:\tx\r\n\r\n", 2, <<"", "\r\n">>, "200", FALSE, "",
              <<<<"Content-Length", <<"2">>>>, <<"Server", <<"x">>>>>>)
NoContent == Message(0, "HTTP/1.1 204\r\nA: b\r\n\r\n", 0, << >>, "204", FALSE, "", <<<<"A", <<"b">>>>>>)
NotModified == Message(0, "HTTP/1.1 304 Not Modified\n\n", 0, << >>, "304", FALSE, "", << >>)
Found == Message(0, "HTTP/1.1  302 \r\nTransfer-Encoding: chunked\r\n\r\n", ChunkedBody,
                 <<"1\r\n", "1", "\r\n0\r\n\r\n">>, "302", FALSE, "",
                 <<<<"Transfer-Encoding", <<"chunked">>>>>>)
RtspOk == Message(0, "RTSP/1.0 200 OK\r\nContent-Length: 0\r\n\r\n", 0, << >>, "200", TRUE, "",
                  <<<<"Content-Length", <<"0">>>>>>)

-----------------------------------------------------------------------------
Requesting ==
  {Talk("HTTP_REQUEST", a, b) : a \in {Get, Posted, Chunked, OldKept, Newlines, Rtsp("OPTIONS")},
                                b \in {Posted, Chunked, OldKept, Newlines}}
  \cup {Talk("HTTP_REQUEST", Plain(Methods[2 * i - 1], "/"), Plain(Methods[2 * i], "/x")) : i \in 1 .. 13}
  \cup {Talk("HTTP_REQUEST", Rtsp(RtspMethods[2 * i - 1]), Rtsp(RtspMethods[2 * i])) : i \in 1 .. 5}
  \cup {Talk("HTTP_REQUEST", Rtsp("FLUSH"), Posted)}

Responding == {Talk("HTTP_RESPONSE", a, b) : a \in {Ok, NoContent, NotModified, Found},
                                             b \in {Ok, Found, RtspOk}}

(* A tail that is refused at once, in a header, in a length; nothing but     *)
(* blanks; what is no HTTP any more.                                         *)
Ending ==
  {Followed("HTTP_REQUEST", Posted, Closing, "GET / HTTP/1.1\r\n\r\n", FALSE),
   Followed("HTTP_REQUEST", Get, Closing, "\r\n", FALSE),
   Followed("HTTP_REQUEST", Get, Tunnel, "zz", FALSE),
   Followed("HTTP_REQUEST", Get, Posted, "\r\n}", FALSE),
   Followed("HTTP_REQUEST", Get, Posted, "GET  HTTP://;/\r\n", TRUE),
   Followed("HTTP_REQUEST", Get, Posted, "POST / HTTP/1.1\r\nContent-Length: 100\r\n\r\nx", TRUE),
   Followed("HTTP_REQUEST", Get, Posted, "POST / HTTP/1.1\r\nHost : h\r\n\r\n", TRUE),
   Followed("HTTP_RESPONSE", Ok, NoContent, "HTTP/1.1 20x\r\n", TRUE)}

SomeLens == {0, 1, 2, 12, ChunkedBody}
AllConversations == Requesting \cup Responding \cup Ending
=============================================================================
