------------------------------ MODULE SDPParser ------------------------------
(* Session descriptions (src/cahttp/SDPParser.cpp).  Every line has a parser *)
(* of its own, a loop over characters with a state; most of their states     *)
(* read one field up to a delimiter, and are entries of a table.             *)
(* A media line gives its port: what port is without one was never set.      *)
EXTENDS CaHttpUrlParser

NoOrigin == [userName |-> "", sessId |-> "", sessVer |-> 0, nettype |-> "", addrtype |-> "", addr |-> ""]
NewMedia == [media |-> "", port |-> 0, port_num |-> 0, proto |-> "", formats |-> << >>, attrs |-> << >>]

(* SDPParser: what it has read, and where parse() is: the letter of the      *)
(* line, the line's stt and next_stt, its format, and whether pmedia is set. *)
NewSdp ==
  [mVer |-> 0, sessionName |-> "", mSessInfo |-> "", origin |-> NoOrigin,
   nettype |-> "", addrtype |-> "", ipstr |-> "", bufs |-> "", startTime |-> 0, endTime |-> 0,
   mMedias |-> << >>, mAttrs |-> << >>, mError |-> "NONE", dummy |-> "",
   line |-> "", stt |-> "s_endline", next_stt |-> "s_consume", format |-> 0, pmedia |-> FALSE, failed |-> FALSE]

-----------------------------------------------------------------------------
(* A state reads field f: text, or a number, in which other characters are   *)
(* passed over ("num") or an error; stop ends it and to is next, behind any  *)
(* number of spaces if skip; slash is the state a '/' leads to.              *)
Field(f, kind, stop, to, skip) == [f |-> f, kind |-> kind, stop |-> stop, to |-> to, skip |-> skip, slash |-> ""]
Word(f, to) == Field(f, "text", " ", to, TRUE)

OriginFields ==
  [s_user_name |-> Word("userName", "s_sess_id"), s_sess_id |-> Word("sessId", "s_sess_ver"),
   s_sess_ver |-> Field("sessVer", "O_ERROR", " ", "s_nettype", TRUE), s_nettype |-> Word("nettype", "s_addrtype"),
   s_addrtype |-> Word("addrtype", "s_addr"), s_addr |-> Word("addr", "s_consume")]

MediaFields ==
  [s_media |-> Word("media", "s_port"),
   s_port |-> [Field("port", "num", " ", "s_proto", TRUE) EXCEPT !.slash = "s_port_num"],
   s_port_num |-> Field("port_num", "num", " ", "s_proto", TRUE), s_proto |-> Word("proto", "s_format")]

AddressFields ==
  [s_nettype |-> Field("nettype", "text", " ", "s_addrtype", FALSE),
   s_addrtype |-> Field("addrtype", "text", " ", "s_addr", FALSE),
   s_addr |-> [Field("ipstr", "text", " ", "s_addr_end_sp", FALSE) EXCEPT !.slash = "s_slash"],
   s_slash |-> Field("bufs", "digits", "", "", FALSE)]

TimeFields ==
  [s_start_time |-> Field("startTime", "T_ERROR", " ", "s_end_time", FALSE),
   s_end_time |-> Field("endTime", "num", " ", "s_consume", TRUE)]

AttrFields == [s_attr_name |-> Field("first", "text", ":", "s_attr_val", FALSE),
               s_attr_val |-> Field("second", "text", "", "", FALSE)]

Lines == [v |-> [first |-> "s_ver", fields |-> [s_ver |-> Field("mVer", "num", "", "", FALSE)]],
          o |-> [first |-> "s_user_name", fields |-> OriginFields],
          m |-> [first |-> "s_media", fields |-> MediaFields],
          a |-> [first |-> "s_attr_name", fields |-> AttrFields],
          c |-> [first |-> "s_nettype", fields |-> AddressFields],
          t |-> [first |-> "s_start_time", fields |-> TimeFields]]

(* parse_simple_line()                                                       *)
SimpleLine(ch) ==
  [first |-> "s_linestart",
   fields |-> [s_linestart |-> Field(CASE ch = "s" -> "sessionName" [] ch = "i" -> "mSessInfo" [] OTHER -> "dummy",
                                     "text", "", "", FALSE)]]
LineOf(ch) == IF ch \in DOMAIN Lines THEN Lines[ch] ELSE SimpleLine(ch)

-----------------------------------------------------------------------------
(* The object a line is read into, and it with field f set to v.             *)
Cur(r) ==
  CASE r.line = "o" -> r.origin
    [] r.line = "m" -> Last(r.mMedias)
    [] r.line = "a" -> Last(IF r.pmedia THEN Last(r.mMedias).attrs ELSE r.mAttrs)
    [] OTHER -> r

Put(r, f, v) ==
  CASE r.line = "o" -> [r EXCEPT !.origin[f] = v]
    [] r.line = "m" -> [r EXCEPT !.mMedias[Len(r.mMedias)][f] = v]
    [] r.line = "a" /\ r.pmedia ->
         LET n == Len(r.mMedias) IN [r EXCEPT !.mMedias[n].attrs[Len(r.mMedias[n].attrs)][f] = v]
    [] r.line = "a" -> [r EXCEPT !.mAttrs[Len(r.mAttrs)][f] = v]
    [] OTHER -> [r EXCEPT ![f] = v]

(* What a line does before its first character.                              *)
NoAttr == [first |-> "", second |-> ""]
Entered(r, ch) ==
  LET e == [r EXCEPT !.line = ch] IN
  CASE ch = "v" -> [e EXCEPT !.mVer = 0]
    [] ch = "o" -> [e EXCEPT !.origin.sessVer = 0]
    [] ch = "m" -> [e EXCEPT !.mMedias = Append(@, NewMedia), !.pmedia = TRUE]
    [] ch = "a" /\ r.pmedia -> [e EXCEPT !.mMedias[Len(r.mMedias)].attrs = Append(@, NoAttr)]
    [] ch = "a" -> [e EXCEPT !.mAttrs = Append(@, NoAttr)]
    [] ch = "t" -> [e EXCEPT !.startTime = 0, !.endTime = 0]
    [] ch = "c" -> e
    [] OTHER -> Put(e, LineOf(ch).fields.s_linestart.f, "")

(* The end of a line, at each of its characters: "\r\n" ends it twice.       *)
EndOfLineTwice(r) ==                   \* mutant: the state is left as it is by '\r'
  IF r.line = "m" /\ r.stt = "s_format"
  THEN [Put(r, "formats", Append(Cur(r).formats, r.format)) EXCEPT !.format = 0]
  ELSE [r EXCEPT !.stt = "s_endline"]

EndOfLine(r) ==
  LET e == [r EXCEPT !.stt = "s_endline"] IN
  CASE r.line = "m" /\ r.stt = "s_format" -> [Put(e, "formats", Append(Cur(r).formats, r.format)) EXCEPT !.format = 0]
    [] r.line = "t" /\ r.stt # "s_end_time" -> [e EXCEPT !.mError = "T_ERROR"]
    [] OTHER -> e

(* A line begins at ch.                                                      *)
BeginLine(r, ch) ==
  LET e == Entered(r, ch) IN IF ch \in {"\r", "\n"} THEN EndOfLine(e) ELSE [e EXCEPT !.stt = "s_eq"]

(* Between letter and fields.                                                *)
Equals(r, ch) ==
  IF ch = "=" THEN [r EXCEPT !.stt = LineOf(r.line).first]
  ELSE IF r.line \in {"v", "c"} THEN [r EXCEPT !.failed = TRUE]
  ELSE [r EXCEPT !.stt = "s_consume"]

-----------------------------------------------------------------------------
(* A character in a state of the table.                                      *)
LeaveField(r, e) ==
  LET s == [r EXCEPT !.stt = IF e.skip THEN "s_sp" ELSE e.to, !.next_stt = IF e.skip THEN e.to ELSE @] IN
  CASE e.to = "s_format" -> [s EXCEPT !.format = 0]
    [] e.to = "s_port"   -> Put(Put(s, "port", 0), "port_num", 0)
    [] OTHER -> s

Digit(n, ch) == n * 10 + Code(ch) - Code("0")

InField(r, e, ch) ==
  CASE ch = e.stop -> LeaveField(r, e)
    [] ch = "/" /\ e.slash # "" -> [r EXCEPT !.stt = e.slash]
    [] e.kind = "text" -> Put(r, e.f, Cur(r)[e.f] \o ch)
    [] e.kind = "digits" -> IF ch \in Digits THEN Put(r, e.f, Cur(r)[e.f] \o ch) ELSE r
    [] ch \in Digits -> Put(r, e.f, Digit(Cur(r)[e.f], ch))
    [] e.kind = "num" -> r
    [] OTHER -> [r EXCEPT !.mError = e.kind, !.stt = "s_consume"]

(* parse_m()'s formats.                                                      *)
InFormat(r, ch) ==
  IF ch # " " THEN [r EXCEPT !.format = Digit(@, ch)]
  ELSE [Put(r, "formats", Append(Cur(r).formats, r.format)) EXCEPT
          !.format = 0, !.stt = "s_sp", !.next_stt = "s_format"]

InLine(r, ch) ==
  CASE r.stt = "s_eq" -> Equals(r, ch)
    [] r.stt = "s_consume" -> r
    [] r.stt = "s_format" -> InFormat(r, ch)
    [] r.stt = "s_addr_end_sp" -> [r EXCEPT !.failed = ch # " "]
    [] OTHER -> InField(r, LineOf(r.line).fields[r.stt], ch)

CharNext(r, ch) ==
  CASE r.failed -> r
    [] ch \in {"\r", "\n"} /\ r.line # "" -> EndOfLine(r)
    [] r.stt = "s_endline" -> BeginLine(r, ch)
    [] r.stt = "s_sp" /\ ch = " " -> r
    [] r.stt = "s_sp" -> InLine([r EXCEPT !.stt = r.next_stt], ch)
    [] OTHER -> InLine(r, ch)

(* parse() sets out, and reads on through a text.                            *)
BeginParse(r) == [r EXCEPT !.line = "", !.stt = "s_endline", !.pmedia = FALSE]
ReadOn(r, s) == FoldLeft(CharNext, r, [i \in 1 .. Len(s) |-> At(s, i)])

-----------------------------------------------------------------------------
(* getMedia(): the first of that name.  getMediaAttr(): of the last.         *)
MediaNamed(r, media) == {i \in DOMAIN r.mMedias : r.mMedias[i].media = media}
GetMedia(r, media) == r.mMedias[Min(MediaNamed(r, media))]

AttrOf(attrs, name, def) ==
  LET named == {i \in DOMAIN attrs : attrs[i].first = name} IN
  IF named = {} THEN def ELSE attrs[Min(named)].second

GetMediaAttr(r, media, name, def) ==
  IF MediaNamed(r, media) = {} THEN def ELSE AttrOf(r.mMedias[Max(MediaNamed(r, media))].attrs, name, def)
=============================================================================
