----------------------------- MODULE HttpParser -----------------------------
(* The HTTP parser (src/cahttp/http_parser.cpp) as an operator on its record:*)
(* Byte(p, ch, at) is the body of http_parser_execute()'s loop for the byte  *)
(* ch at position at, the states it runs through with REEXECUTE() included.  *)
(* PacketBegin and PacketEnd are what precedes and follows the loop.         *)
(*                                                                           *)
(* Pointers are positions on the connection: a callback carries the run      *)
(* from .. to of its "at, length".  The callbacks of the frame assembler all *)
(* return 0 and never pause.  The parser is compiled with its default        *)
(* HTTP_PARSER_STRICT = 1 and is told its type.  Header sections are shorter *)
(* than half of HTTP_MAX_HEADER_SIZE: nread is left out.                     *)
EXTENDS Integers, Sequences, FiniteSets

CONSTANT ULLONG_MAX          \* the greatest content_length, which means "none given"

ASSUME ULLONG_MAX_Assumption == ULLONG_MAX \in Nat /\ ULLONG_MAX > 26

CharAt(s, i) == SubSeq(s, i, i)
Chars(s) == {CharAt(s, i) : i \in 1 .. Len(s)}

Lowers == "abcdefghijklmnopqrstuvwxyz"
Uppers == "ABCDEFGHIJKLMNOPQRSTUVWXYZ"
Alphas == Chars(Lowers) \cup Chars(Uppers)
HexDigits == "0123456789abcdef"
Nums == Chars("0123456789")
CRLF == {"\r", "\n"}

(* The value of a digit: unhex[], and ch - '0' where IS_NUM(ch).             *)
Unhex == [c \in Chars("0123456789abcdefABCDEF") |->
            (CHOOSE i \in 1 .. 16 : CharAt(HexDigits, i) = c
                                    \/ CharAt("0123456789ABCDEF", i) = c) - 1]

(* LOWER(), c | 0x20: what it makes of a letter, and of the other characters *)
(* it changes; of "_" it makes the control character 127.                    *)
LowerFrom == Uppers \o "[\\]^\t\n\f\r@'"
LowerTo == Lowers \o "{|}~)*,-`'"
LowerOf == [c \in Chars(LowerFrom) |->
              CharAt(LowerTo, CHOOSE i \in 1 .. Len(LowerFrom) : CharAt(LowerFrom, i) = c)]
Lower(c) == IF c \in DOMAIN LowerOf THEN LowerOf[c] ELSE IF c = "_" THEN "DEL" ELSE c

(* tokens[]: what a header name is made of.                                  *)
Tokens == Alphas \cup Nums \cup Chars("`!#$%&'*+-.^_|~")

(* normal_url_char[] and IS_USERINFO_CHAR().                                 *)
UrlChars == (Tokens \ {"#"}) \cup Chars("\"(),/:;<=>@[\\]{}")
UserinfoChars == Alphas \cup Nums \cup Chars("-_.!~*'()%;:&=+$,")

-----------------------------------------------------------------------------
(* Callbacks, marks and errors.                                              *)

Err(p, e) == [p EXCEPT !.err = e]
Goto(p, s) == [p EXCEPT !.state = s]

(* CALLBACK_NOTIFY_(): the callback is made in the state already reached.    *)
Notify(p, for) == [p EXCEPT !.cbs = Append(@, [cb |-> for, from |-> 0, to |-> 0])]

(* CALLBACK_DATA_(): the run from the mark of FOR up to position to.         *)
Data(p, for, to) ==
  IF p.mark # for THEN p
  ELSE [p EXCEPT !.cbs = Append(@, [cb |-> for, from |-> p.from, to |-> to]), !.mark = "none", !.from = 0]

(* MARK().  One mark is set at a time, as the assert() at the end of         *)
(* http_parser_execute() says.                                               *)
Mark(p, for, at) == IF p.mark = for THEN p ELSE [p EXCEPT !.mark = for, !.from = at]

-----------------------------------------------------------------------------
(* parse_url_char(): the state after ch, s_dead where it does not fit.       *)
ParseUrlChar(s, ch) ==
  CASE ch \in {" ", "\t", "\f"} \cup CRLF -> "s_dead"
    [] s = "s_req_spaces_before_url" ->
         IF ch \in {"/", "*"} THEN "s_req_path" ELSE IF ch \in Alphas THEN "s_req_schema" ELSE "s_dead"
    [] s = "s_req_schema" ->
         IF ch \in Alphas THEN s ELSE IF ch = ":" THEN "s_req_schema_slash" ELSE "s_dead"
    [] s = "s_req_schema_slash" -> IF ch = "/" THEN "s_req_schema_slash_slash" ELSE "s_dead"
    [] s = "s_req_schema_slash_slash" -> IF ch = "/" THEN "s_req_server_start" ELSE "s_dead"
    [] s \in {"s_req_server_with_at", "s_req_server_start", "s_req_server"} ->
         IF ch = "/" THEN "s_req_path"
         ELSE IF ch = "?" THEN "s_req_query_string_start"
         ELSE IF ch = "@" /\ s # "s_req_server_with_at" THEN "s_req_server_with_at"
         ELSE IF ch \in UserinfoChars \cup {"[", "]"} THEN "s_req_server" ELSE "s_dead"
    [] s = "s_req_path" ->
         IF ch \in UrlChars THEN s ELSE IF ch = "?" THEN "s_req_query_string_start"
         ELSE IF ch = "#" THEN "s_req_fragment_start" ELSE "s_dead"
    [] s \in {"s_req_query_string_start", "s_req_query_string"} ->
         IF ch \in UrlChars \cup {"?"} THEN "s_req_query_string"
         ELSE IF ch = "#" THEN "s_req_fragment_start" ELSE "s_dead"
    [] s \in {"s_req_fragment_start", "s_req_fragment"} ->
         IF ch \in UrlChars \cup {"?"} THEN "s_req_fragment" ELSE IF ch = "#" THEN s ELSE "s_dead"

UrlStates == {"s_req_schema", "s_req_schema_slash", "s_req_schema_slash_slash", "s_req_server_start",
              "s_req_server", "s_req_server_with_at", "s_req_path", "s_req_query_string_start",
              "s_req_query_string", "s_req_fragment_start", "s_req_fragment"}

-----------------------------------------------------------------------------
(* The request line.                                                         *)

FirstGuess == [A |-> "ANNOUNCE", C |-> "CONNECT", D |-> "DELETE", F |-> "FLUSH", G |-> "GET",
               H |-> "HEAD", L |-> "LOCK", M |-> "MKCOL", N |-> "NOTIFY", O |-> "OPTIONS",
               P |-> "POST", R |-> "REPORT", S |-> "SUBSCRIBE", T |-> "TRACE", U |-> "UNLOCK"]

(* Where a letter turns the method guessed so far into another one.          *)
Switches == {<<"CONNECT", 1, "H", "CHECKOUT">>, <<"CONNECT", 2, "P", "COPY">>,
             <<"DELETE", 2, "S", "DESCRIBE">>, <<"GET", 3, "_", "GET_PARAMETER">>,
             <<"MKCOL", 1, "O", "MOVE">>, <<"MKCOL", 1, "E", "MERGE">>, <<"MKCOL", 1, "-", "M-SEARCH">>,
             <<"MKCOL", 2, "A", "MKACTIVITY">>, <<"MKCOL", 3, "A", "MKCALENDAR">>,
             <<"SUBSCRIBE", 1, "E", "SEARCH">>, <<"TRACE", 1, "E", "TEARDOWN">>,
             <<"POST", 1, "R", "PROPFIND">>, <<"POST", 1, "U", "PUT">>, <<"POST", 1, "A", "PATCH">>,
             <<"POST", 1, "L", "PLAY">>, <<"PUT", 2, "R", "PURGE">>, <<"PATCH", 2, "U", "PAUSE">>,
             <<"REPORT", 2, "D", "REDIRECT">>, <<"REPORT", 2, "C", "RECORD">>,
             <<"SEARCH", 2, "T", "SETUP">>, <<"UNLOCK", 2, "S", "UNSUBSCRIBE">>,
             <<"SETUP", 3, "_", "SET_PARAMETER">>, <<"PROPFIND", 4, "P", "PROPPATCH">>}

StartReq(p, ch) ==
  LET fresh == [p EXCEPT !.flags = {}, !.clen = ULLONG_MAX] IN
  IF ch \in CRLF THEN p
  ELSE IF ch \notin DOMAIN FirstGuess THEN Err(fresh, "HPE_INVALID_METHOD")
  ELSE Notify([fresh EXCEPT !.method = FirstGuess[ch], !.index = 1, !.state = "s_req_method"],
              "message_begin")

(* s_req_method.  The third letter of SEARCH is not looked at unless it is   *)
(* the T of SETUP: no branch of the code refuses it.                         *)
ReqMethod(p, ch) ==
  LET sw == {w \in Switches : w[1] = p.method /\ w[2] = p.index /\ w[3] = ch}
      next == [p EXCEPT !.index = @ + 1]
  IN IF p.index = Len(p.method) /\ ch = " " THEN Goto(next, "s_req_spaces_before_url")
     ELSE IF p.index < Len(p.method) /\ ch = CharAt(p.method, p.index + 1) THEN next
     ELSE IF sw # {} THEN [next EXCEPT !.method = (CHOOSE w \in sw : TRUE)[4]]
     ELSE IF p.method = "SEARCH" /\ p.index = 2 THEN next
     ELSE Err(p, "HPE_INVALID_METHOD")

(* The URL: each byte goes through parse_url_char(); a space ends it, and so *)
(* does the end of the line (HTTP/0.9) unless the host has yet to come.      *)
ReqUrl(p, ch, at) ==
  LET step(q) == LET s == ParseUrlChar(q.state, ch) IN
                 IF s = "s_dead" THEN Err(Goto(q, s), "HPE_INVALID_URL") ELSE Goto(q, s)
  IN
  IF p.state = "s_req_spaces_before_url"
  THEN IF ch = " " THEN p
       ELSE LET q == Mark(p, "url", at) IN
            step(IF p.method = "CONNECT" THEN Goto(q, "s_req_server_start") ELSE q)
  ELSE IF ch \in {" "} \cup CRLF
  THEN IF p.state \in {"s_req_schema", "s_req_schema_slash", "s_req_schema_slash_slash",
                       "s_req_server_start"}
       THEN Err(p, "HPE_INVALID_URL")
       ELSE IF ch = " " THEN Data(Goto(p, "s_req_http_start"), "url", at - 1)
       ELSE Data([p EXCEPT !.major = 0, !.minor = 9,
                           !.state = IF ch = "\r" THEN "s_req_line_almost_done"
                                     ELSE "s_header_field_start"], "url", at - 1)
  ELSE step(p)

(* A version number: more digits, at most 999.                               *)
MoreDigits(p, field, ch, e) ==
  IF ch \notin Nums THEN Err(p, e)
  ELSE LET q == [p EXCEPT ![field] = @ * 10 + Unhex[ch]] IN
       IF q[field] > 999 THEN Err(q, e) ELSE q

(* The protocol after the URL.  Of "HTTP" and "RTSP" the first letter alone  *)
(* is looked at, and the slash not at all.                                   *)
ReqVersion(p, ch) ==
  CASE p.state = "s_req_http_start" ->
         IF ch \in {"R", "H"} THEN [p EXCEPT !.proto = ch, !.state = "s_req_http_H"]
         ELSE IF ch = " " THEN p ELSE Err(p, "HPE_INVALID_CONSTANT")
    [] p.state = "s_req_http_H"    -> Goto(p, "s_req_http_HT")
    [] p.state = "s_req_http_HT"   -> Goto(p, "s_req_http_HTT")
    [] p.state = "s_req_http_HTT"  -> Goto(p, "s_req_http_HTTP")
    [] p.state = "s_req_http_HTTP" -> Goto(p, "s_req_first_http_major")
    [] p.state = "s_req_first_http_major" ->
         IF ch \in Nums \ {"0"} THEN [p EXCEPT !.major = Unhex[ch], !.state = "s_req_http_major"]
         ELSE Err(p, "HPE_INVALID_VERSION")
    [] p.state = "s_req_http_major" ->
         IF ch = "." THEN Goto(p, "s_req_first_http_minor")
         ELSE MoreDigits(p, "major", ch, "HPE_INVALID_VERSION")
    [] p.state = "s_req_first_http_minor" ->
         IF ch \in Nums THEN [p EXCEPT !.minor = Unhex[ch], !.state = "s_req_http_minor"]
         ELSE Err(p, "HPE_INVALID_VERSION")
    [] p.state = "s_req_http_minor" ->
         IF ch = "\r" THEN Goto(p, "s_req_line_almost_done")
         ELSE IF ch = "\n" THEN Goto(p, "s_header_field_start")
         ELSE MoreDigits(p, "minor", ch, "HPE_INVALID_VERSION")
    [] p.state = "s_req_line_almost_done" ->
         IF ch = "\n" THEN Goto(p, "s_header_field_start") ELSE Err(p, "HPE_LF_EXPECTED")

(* The status line.  Of "HTTP" and "RTSP" the first letter is looked at and  *)
(* the slash; an H leaves protocol_type as it was.  message_begin is called  *)
(* for the blank bytes before a response too.                                *)
StatusStart(p, ch) ==
  LET fresh == [p EXCEPT !.flags = {}, !.clen = ULLONG_MAX] IN
  CASE ch \in {"R", "H"} ->
         Notify([fresh EXCEPT !.proto = IF ch = "R" THEN ch ELSE @, !.state = "s_res_H"], "message_begin")
    [] ch \in CRLF -> Notify(fresh, "message_begin")
    [] OTHER -> Err(fresh, "HPE_INVALID_CONSTANT")

StatusVersion(p, ch) ==
  CASE p.state = "s_res_H"   -> Goto(p, "s_res_HT")
    [] p.state = "s_res_HT"  -> Goto(p, "s_res_HTT")
    [] p.state = "s_res_HTT" -> Goto(p, "s_res_HTTP")
    [] p.state = "s_res_HTTP" ->
         IF ch = "/" THEN Goto(p, "s_res_first_http_major") ELSE Err(p, "HPE_STRICT")
    [] p.state = "s_res_first_http_major" ->
         IF ch \in Nums THEN [p EXCEPT !.major = Unhex[ch], !.state = "s_res_http_major"]
         ELSE Err(p, "HPE_INVALID_VERSION")
    [] p.state = "s_res_http_major" ->
         IF ch = "." THEN Goto(p, "s_res_first_http_minor")
         ELSE MoreDigits(p, "major", ch, "HPE_INVALID_VERSION")
    [] p.state = "s_res_first_http_minor" ->
         IF ch \in Nums THEN [p EXCEPT !.minor = Unhex[ch], !.state = "s_res_http_minor"]
         ELSE Err(p, "HPE_INVALID_VERSION")
    [] p.state = "s_res_http_minor" ->
         IF ch = " " THEN Goto(p, "s_res_first_status_code")
         ELSE MoreDigits(p, "minor", ch, "HPE_INVALID_VERSION")

StatusCode(p, ch, at) ==
  LET endOfLine(q) == Goto(q, IF ch = "\r" THEN "s_res_line_almost_done" ELSE "s_header_field_start") IN
  CASE p.state = "s_res_first_status_code" ->
         IF ch \in Nums THEN [p EXCEPT !.status = Unhex[ch], !.state = "s_res_status_code"]
         ELSE IF ch = " " THEN p ELSE Err(p, "HPE_INVALID_STATUS")
    [] p.state = "s_res_status_code" ->
         IF ch = " " THEN Goto(p, "s_res_status_start")
         ELSE IF ch \in CRLF THEN endOfLine(p) ELSE MoreDigits(p, "status", ch, "HPE_INVALID_STATUS")
    [] p.state = "s_res_status_start" ->
         IF ch \in CRLF THEN endOfLine(p)
         ELSE [Mark(p, "status", at) EXCEPT !.state = "s_res_status", !.index = 0]
    [] p.state = "s_res_status" -> IF ch \in CRLF THEN Data(endOfLine(p), "status", at - 1) ELSE p
    [] p.state = "s_res_line_almost_done" ->
         IF ch = "\n" THEN Goto(p, "s_header_field_start") ELSE Err(p, "HPE_STRICT")

-----------------------------------------------------------------------------
(* Header names and values the parser acts upon.  A word being matched has   *)
(* its state, the state once it is complete and the state when it fails.     *)

FieldWords ==
  [h_matching_connection        |-> <<"connection", "h_connection">>,
   h_matching_proxy_connection  |-> <<"proxy-connection", "h_connection">>,
   h_matching_content_length    |-> <<"content-length", "h_content_length">>,
   h_matching_transfer_encoding |-> <<"transfer-encoding", "h_transfer_encoding">>,
   h_matching_upgrade           |-> <<"upgrade", "h_upgrade">>]

ValueWords ==
  [h_matching_transfer_encoding_chunked |-> <<"chunked", "h_transfer_encoding_chunked">>,
   h_matching_connection_keep_alive     |-> <<"keep-alive", "h_connection_keep_alive">>,
   h_matching_connection_close          |-> <<"close", "h_connection_close">>,
   h_matching_connection_upgrade        |-> <<"upgrade", "h_connection_upgrade">>]

MatchRestarted(p, c, words, fail) ==   \* mutant: the index is lost, each letter matches the first
  LET w == words[p.hs]
  IN [p EXCEPT !.hs = IF c # CharAt(w[1], 1) THEN fail ELSE @]

(* One more letter of the word: its 0-based index is the incremented index.  *)
Match(p, c, words, fail) ==
  LET w == words[p.hs]
      i == p.index + 1
  IN [p EXCEPT !.index = i,
               !.hs = IF i >= Len(w[1]) \/ c # CharAt(w[1], i + 1) THEN fail
                      ELSE IF i = Len(w[1]) - 1 THEN w[2] ELSE @]

(* What the connection options and the encoding set once they are complete.  *)
OptionFlag == [h_connection_keep_alive     |-> "F_CONNECTION_KEEP_ALIVE",
               h_connection_close          |-> "F_CONNECTION_CLOSE",
               h_connection_upgrade        |-> "F_CONNECTION_UPGRADE",
               h_transfer_encoding_chunked |-> "F_CHUNKED"]

SetFlag(p) == IF p.hs \in DOMAIN OptionFlag THEN [p EXCEPT !.flags = @ \cup {OptionFlag[p.hs]}] ELSE p

(* s_header_field: the name up to its colon.                                 *)
HeaderField(p, ch, at) ==
  LET c == Lower(ch) IN
  IF ch \notin Tokens
  THEN IF ch = ":" THEN Data(Goto(p, "s_header_value_discard_ws"), "header_field", at - 1)
       ELSE Err(p, "HPE_INVALID_HEADER_TOKEN")
  ELSE CASE p.hs = "h_general" -> p
         [] p.hs \in {"h_C", "h_CO", "h_CON"} ->
              [p EXCEPT !.index = @ + 1,
                        !.hs = CASE p.hs = "h_C" /\ c = "o"  -> "h_CO"
                                 [] p.hs = "h_CO" /\ c = "n" -> "h_CON"
                                 [] p.hs = "h_CON" /\ c = "n" -> "h_matching_connection"
                                 [] p.hs = "h_CON" /\ c = "t" -> "h_matching_content_length"
                                 [] OTHER -> "h_general"]
         [] p.hs \in DOMAIN FieldWords -> Match(p, c, FieldWords, "h_general")
         [] OTHER -> [p EXCEPT !.hs = "h_general"]

(* s_header_value_start: the first byte of a value, or of a folded line.     *)
HeaderValueStart(p, ch, at) ==
  LET c == Lower(ch)
      q == [Mark(p, "header_value", at) EXCEPT !.state = "s_header_value", !.index = 0]
  IN
  CASE p.hs = "h_upgrade" -> [q EXCEPT !.flags = @ \cup {"F_UPGRADE"}, !.hs = "h_general"]
    [] p.hs = "h_transfer_encoding" ->
         [q EXCEPT !.hs = IF c = "c" THEN "h_matching_transfer_encoding_chunked" ELSE "h_general"]
    [] p.hs = "h_content_length" ->
         IF ch \in Nums THEN [q EXCEPT !.clen = Unhex[ch]] ELSE Err(q, "HPE_INVALID_CONTENT_LENGTH")
    [] p.hs = "h_connection" ->
         [q EXCEPT !.hs = CASE c = "k" -> "h_matching_connection_keep_alive"
                            [] c = "c" -> "h_matching_connection_close"
                            [] c = "u" -> "h_matching_connection_upgrade"
                            [] OTHER   -> "h_matching_connection_token"]
    [] p.hs = "h_matching_connection_token_start" -> q
    [] OTHER -> [q EXCEPT !.hs = "h_general"]

HeaderValueDiscardWs(p, ch, at) ==
  CASE ch \in {" ", "\t"} -> p
    [] ch = "\r" -> Goto(p, "s_header_value_discard_ws_almost_done")
    [] ch = "\n" -> Goto(p, "s_header_value_discard_lws")
    [] OTHER -> HeaderValueStart(p, ch, at)

(* content_length * base + digit, tested against a conservative limit.       *)
AddDigit(p, base, ch) ==
  IF (ULLONG_MAX - base) \div base < p.clen THEN Err(p, "HPE_INVALID_CONTENT_LENGTH")
  ELSE [p EXCEPT !.clen = @ * base + Unhex[ch]]

(* What a byte of the value does to header_state, flags and content_length.  *)
HeaderValueByte(p, ch) ==
  LET c == Lower(ch) IN
  CASE p.hs = "h_content_length" ->
         IF ch = " " THEN p ELSE IF ch \notin Nums THEN Err(p, "HPE_INVALID_CONTENT_LENGTH")
         ELSE AddDigit(p, 10, ch)
    [] p.hs = "h_matching_transfer_encoding_chunked" -> Match(p, c, ValueWords, "h_general")
    [] p.hs = "h_matching_connection_token_start" ->
         [p EXCEPT !.hs = CASE c = "k" -> "h_matching_connection_keep_alive"
                            [] c = "c" -> "h_matching_connection_close"
                            [] c = "u" -> "h_matching_connection_upgrade"
                            [] c \in Tokens \ {"k", "c", "u"} -> "h_matching_connection_token"
                            [] c \in {" ", "\t"} -> @          \* no LOWER() is "\t"
                            [] OTHER -> "h_general"]
    [] p.hs \in {"h_matching_connection_keep_alive", "h_matching_connection_close",
                 "h_matching_connection_upgrade"} ->
         Match(p, c, ValueWords, "h_matching_connection_token")
    [] p.hs = "h_matching_connection_token" ->
         IF ch = "," THEN [p EXCEPT !.hs = "h_matching_connection_token_start", !.index = 0] ELSE p
    [] p.hs = "h_transfer_encoding_chunked" -> IF ch = " " THEN p ELSE [p EXCEPT !.hs = "h_general"]
    [] p.hs \in {"h_connection_keep_alive", "h_connection_close", "h_connection_upgrade"} ->
         IF ch = "," THEN [SetFlag(p) EXCEPT !.hs = "h_matching_connection_token_start", !.index = 0]
         ELSE IF ch = " " THEN p ELSE [p EXCEPT !.hs = "h_matching_connection_token"]
    [] OTHER -> [p EXCEPT !.hs = "h_general"]

(* s_header_value: a value ends at CR, or at LF, which s_header_almost_done  *)
(* then takes for the one it expects.                                        *)
HeaderValue(p, ch, at) ==
  CASE ch = "\r" -> Data(Goto(p, "s_header_almost_done"), "header_value", at - 1)
    [] ch = "\n" -> Goto(Data(p, "header_value", at - 1), "s_header_value_lws")
    [] OTHER -> HeaderValueByte(p, ch)

-----------------------------------------------------------------------------
(* The end of the headers and the body.                                      *)

(* http_message_needs_eof() and http_should_keep_alive().                    *)
NeedsEof(p) ==
  /\ p.type = "HTTP_RESPONSE"
  /\ p.status \div 100 # 1 /\ p.status \notin {204, 304}
  /\ p.flags \cap {"F_SKIPBODY", "F_CHUNKED"} = {} /\ p.clen = ULLONG_MAX

ShouldKeepAliveAsked(p) ==             \* mutant: HTTP/1.1 has to ask for it, like HTTP/1.0
  p.proto = "R" \/ ("F_CONNECTION_KEEP_ALIVE" \in p.flags /\ ~NeedsEof(p))

ShouldKeepAlive(p) ==
  \/ p.proto = "R"
  \/ /\ IF p.major > 0 /\ p.minor > 0 THEN "F_CONNECTION_CLOSE" \notin p.flags
        ELSE "F_CONNECTION_KEEP_ALIVE" \in p.flags
     /\ ~NeedsEof(p)

(* NEW_MESSAGE() and the message_complete callback.                          *)
MessageComplete(p) ==
  Notify(Goto(p, IF ~ShouldKeepAlive(p) THEN "s_dead"
                 ELSE IF p.type = "HTTP_REQUEST" THEN "s_start_req" ELSE "s_start_res"),
         "message_complete")

(* s_message_done; after an upgrade the rest of the packet is not HTTP.      *)
MessageDone(p) == [MessageComplete(p) EXCEPT !.ret = p.upgrade]

HeadersDoneEof(p) ==                   \* mutant: a request without a length reads until the end
  CASE "F_CHUNKED" \in p.flags -> Goto(p, "s_chunk_size_start")
    [] p.clen = 0 -> MessageComplete(p)
    [] p.clen # ULLONG_MAX -> Goto(p, "s_body_identity")
    [] OTHER -> Goto(p, "s_body_identity_eof")

(* s_headers_done, F_SKIPBODY never being set by the assembler's callbacks.  *)
HeadersDone(p) ==
  LET hasBody == "F_CHUNKED" \in p.flags \/ (p.clen > 0 /\ p.clen # ULLONG_MAX) IN
  CASE p.upgrade /\ (p.method = "CONNECT" \/ ~hasBody) -> [MessageComplete(p) EXCEPT !.ret = TRUE]
    [] OTHER ->
       CASE "F_CHUNKED" \in p.flags -> Goto(p, "s_chunk_size_start")
         [] "F_CHUNKED" \notin p.flags /\ p.clen = 0 -> MessageComplete(p)
         [] "F_CHUNKED" \notin p.flags /\ p.clen \notin {0, ULLONG_MAX} -> Goto(p, "s_body_identity")
         [] OTHER -> IF NeedsEof(p) THEN Goto(p, "s_body_identity_eof") ELSE MessageComplete(p)

(* s_headers_almost_done: the end of the trailer of a chunked message, or of *)
(* the headers.                                                              *)
HeadersAlmostDone(p, ch) ==
  IF ch # "\n" THEN Err(p, "HPE_STRICT")
  ELSE IF "F_TRAILING" \in p.flags THEN MessageDone(Notify(Goto(p, "s_message_done"), "chunk_complete"))
  ELSE HeadersDone(Notify([p EXCEPT !.state = "s_headers_done",
                                    !.upgrade = \/ {"F_UPGRADE", "F_CONNECTION_UPGRADE"} \subseteq p.flags
                                                \/ p.method = "CONNECT"], "headers_complete"))

(* s_header_field_start: the end of the headers, or another name.            *)
HeaderFieldStart(p, ch, at) ==
  LET c == Lower(ch) IN
  CASE ch = "\r" -> Goto(p, "s_headers_almost_done")
    [] ch = "\n" -> HeadersAlmostDone(p, ch)
    [] ch \in Tokens ->
         [Mark(p, "header_field", at) EXCEPT
            !.index = 0, !.state = "s_header_field",
            !.hs = CASE c = "c" -> "h_C"
                     [] c = "p" -> "h_matching_proxy_connection"
                     [] c = "t" -> "h_matching_transfer_encoding"
                     [] c = "u" -> "h_matching_upgrade"
                     [] OTHER   -> "h_general"]
    [] OTHER -> Err(p, "HPE_INVALID_HEADER_TOKEN")

(* After the line end of a value: a folded line, or the header is finished.  *)
HeaderValueLws(p, ch, at) ==
  IF ch \in {" ", "\t"} THEN HeaderValueStart(p, ch, at)
  ELSE HeaderFieldStart(SetFlag(p), ch, at)

(* The same after a value that is blank so far.                              *)
HeaderValueDiscardLws(p, ch, at) ==
  IF ch \in {" ", "\t"} THEN Goto(p, "s_header_value_discard_ws")
  ELSE HeaderFieldStart(Data(Mark(Goto(SetFlag(p), "s_header_field_start"), "header_value", at),
                             "header_value", at - 1), ch, at)

(* s_body_identity and s_chunk_data, which read all there is of the packet   *)
(* at once: one byte of it.                                                  *)
BodyByte(p, at) ==
  LET q == [Mark(p, "body", at) EXCEPT !.clen = @ - 1] IN
  CASE q.clen > 0 -> q
    [] q.clen = 0 /\ p.state = "s_body_identity" ->
         MessageDone(Data(Goto(q, "s_message_done"), "body", at))
    [] OTHER -> Goto(q, "s_chunk_data_almost_done")

ChunkEnd(p) == Notify(Goto(p, "s_chunk_size_start"), "chunk_complete")

ChunkByte(p, ch, at) ==
  CASE p.state = "s_chunk_size_start" ->
         IF ch \notin DOMAIN Unhex THEN Err(p, "HPE_INVALID_CHUNK_SIZE")
         ELSE [p EXCEPT !.clen = Unhex[ch], !.state = "s_chunk_size"]
    [] p.state = "s_chunk_size" ->
         IF ch = "\r" THEN Goto(p, "s_chunk_size_almost_done")
         ELSE IF ch \in {";", " "} THEN Goto(p, "s_chunk_parameters")
         ELSE IF ch \notin DOMAIN Unhex THEN Err(p, "HPE_INVALID_CHUNK_SIZE")
         ELSE AddDigit(p, 16, ch)
    [] p.state = "s_chunk_parameters" -> IF ch = "\r" THEN Goto(p, "s_chunk_size_almost_done") ELSE p
    [] p.state = "s_chunk_size_almost_done" ->
         IF ch # "\n" THEN Err(p, "HPE_STRICT")
         ELSE Notify(IF p.clen = 0
                     THEN [p EXCEPT !.flags = @ \cup {"F_TRAILING"}, !.state = "s_header_field_start"]
                     ELSE Goto(p, "s_chunk_data"), "chunk_header")
    [] p.state = "s_chunk_data_almost_done" ->
         IF ch # "\r" THEN Err(p, "HPE_STRICT") ELSE Data(Goto(p, "s_chunk_data_done"), "body", at - 1)
    [] p.state = "s_chunk_data_done" -> IF ch # "\n" THEN Err(p, "HPE_STRICT") ELSE ChunkEnd(p)

-----------------------------------------------------------------------------
(* http_parser_execute().                                                    *)

NewParser(type) ==                     \* http_parser_init()
  [type |-> type, state |-> IF type = "HTTP_REQUEST" THEN "s_start_req" ELSE "s_start_res",
   hs |-> "h_general", index |-> 0, flags |-> {}, clen |-> 0, major |-> 0, minor |-> 0, status |-> 0,
   method |-> "DELETE", err |-> "HPE_OK", upgrade |-> FALSE, proto |-> "none",
   mark |-> "none", from |-> 0, cbs |-> << >>, ret |-> FALSE]

(* What precedes the loop: a packet that begins within a name, a value, a    *)
(* URL or a reason phrase sets its mark again.                               *)
PacketBegin(p, at) ==
  LET q == [p EXCEPT !.ret = FALSE] IN
  CASE p.state = "s_header_field" -> Mark(q, "header_field", at)
    [] p.state = "s_header_value" -> Mark(q, "header_value", at)
    [] p.state \in UrlStates      -> Mark(q, "url", at)
    [] p.state = "s_res_status"   -> Mark(q, "status", at)
    [] OTHER -> q

PacketEndForgets(p, at) ==             \* mutant: what was marked is not handed over
  [p EXCEPT !.mark = "none", !.from = 0]

(* What follows it: callbacks for the mark left over.                        *)
PacketEnd(p, at) ==
  IF p.err # "HPE_OK" \/ p.ret THEN [p EXCEPT !.mark = "none", !.from = 0] ELSE Data(p, p.mark, at)

(* The loop: the state is kept in the parser's record.                       *)
Byte(p, ch, at) ==
  LET s == p.state IN
  CASE s = "s_dead" -> IF ch \in CRLF THEN p ELSE Err(p, "HPE_CLOSED_CONNECTION")
    [] s = "s_start_req"  -> StartReq(p, ch)
    [] s = "s_req_method" -> ReqMethod(p, ch)
    [] s \in UrlStates \cup {"s_req_spaces_before_url"} -> ReqUrl(p, ch, at)
    [] s \in {"s_req_http_start", "s_req_http_H", "s_req_http_HT", "s_req_http_HTT", "s_req_http_HTTP",
              "s_req_first_http_major", "s_req_http_major", "s_req_first_http_minor",
              "s_req_http_minor", "s_req_line_almost_done"} -> ReqVersion(p, ch)
    [] s = "s_start_res" -> StatusStart(p, ch)
    [] s \in {"s_res_H", "s_res_HT", "s_res_HTT", "s_res_HTTP", "s_res_first_http_major",
              "s_res_http_major", "s_res_first_http_minor", "s_res_http_minor"} -> StatusVersion(p, ch)
    [] s \in {"s_res_first_status_code", "s_res_status_code", "s_res_status_start", "s_res_status",
              "s_res_line_almost_done"} -> StatusCode(p, ch, at)
    [] s = "s_header_field_start" -> HeaderFieldStart(p, ch, at)
    [] s = "s_header_field" -> HeaderField(p, ch, at)
    [] s = "s_header_value_discard_ws" -> HeaderValueDiscardWs(p, ch, at)
    [] s = "s_header_value" -> HeaderValue(p, ch, at)
    [] s = "s_header_almost_done" ->
         IF ch = "\n" THEN Goto(p, "s_header_value_lws") ELSE Err(p, "HPE_STRICT")
    [] s = "s_header_value_lws" -> HeaderValueLws(p, ch, at)
    [] s = "s_header_value_discard_ws_almost_done" ->
         IF ch = "\n" THEN Goto(p, "s_header_value_discard_lws") ELSE Err(p, "HPE_STRICT")
    [] s = "s_header_value_discard_lws" -> HeaderValueDiscardLws(p, ch, at)
    [] s = "s_headers_almost_done" -> HeadersAlmostDone(p, ch)
    [] s \in {"s_body_identity", "s_chunk_data"} -> BodyByte(p, at)
    [] s = "s_body_identity_eof" -> Mark(p, "body", at)
    [] OTHER -> ChunkByte(p, ch, at)
=============================================================================
