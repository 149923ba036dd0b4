---------------------------- MODULE FrameLemmas ----------------------------
(* What the frame assembler holds of a stream of messages, whatever packets  *)
(* cut it: the invariant of the record that the parser's callbacks and       *)
(* fetchMsg() and fetchData() keep.  Both kinds of connection read through   *)
(* it.                                                                       *)
EXTENDS CaHttpFrame, FoldLemmas

Msgs == {x \in [clen : Int, units : Nat] : x.clen = ChunkedBody \/ x.clen = x.units}

(* Tokens of a message, and units among its first k tokens.                  *)
Length(x) == 2 + x.units + IF x.clen = ChunkedBody THEN 1 ELSE 0
UnitsIn(x, k) == IF k <= 2 THEN 0 ELSE IF k - 2 <= x.units THEN k - 2 ELSE x.units

Statuses == SUBSET {"hdr", "data"}
MsgVals  == [id : Nat, clen : Int]
Entries  == [msg : MsgVals, data : Seq(Nat), stat : Statuses]
Frames   == [ps : {"INIT", "FIRST_LINE", "HEADER", "BODY", "END"}, msg : MsgVals,
             body : Seq(Nat), clen : Int, rlen : Nat, stat : Statuses, list : Seq(Entries)]

Hdr(x) == {"hdr"} \cup (IF x.clen # 0 THEN {"data"} ELSE {})

(* Every unit of s is one of message c.                                      *)
AllOf(s, c) == \A i \in 1 .. Len(s) : s[i] = c

(* Message c of m in the list, before and after its header was fetched.      *)
Whole(e, m, c) == m[c].clen # ChunkedBody /\ Len(e.data) = m[c].units /\ AllOf(e.data, c)
Waits(e, m, c) == e.msg = [id |-> c, clen |-> m[c].clen] /\ e.stat = Hdr(m[c])
Begun(e, m, c) == m[c].clen # 0 /\ e.stat = {"data"}

(* The message that is being received, k tokens of it: none yet, or one      *)
(* whose header was fetched or not.                                          *)
Blank(f) == f.msg = NoMsg /\ f.body = << >> /\ f.clen = 0 /\ f.rlen = 0 /\ f.stat = {}
Holds(f, m, c, k) ==
  /\ f.clen = m[c].clen /\ AllOf(f.body, c)
  /\ f.rlen + Len(f.body) = UnitsIn(m[c], k)
  /\ f.ps = "END" <=> k = Length(m[c])
Unread(f, m, c) == f.msg = [id |-> c, clen |-> m[c].clen] /\ f.rlen = 0 /\ f.stat = Hdr(m[c])
Reading(f, m, c) ==
  /\ f.msg = NoMsg
  /\ f.stat = IF m[c].clen = ChunkedBody \/ f.rlen < m[c].clen THEN {"data"} ELSE {}

(* The header of the first message that is held was fetched: h of c are.     *)
Taken(f, c, h) == h = c - Len(f.list)

Sized(f, c, k, h) ==
  /\ f \in Frames /\ c \in Nat \ {0} /\ k \in Nat /\ h \in Nat
  /\ Len(f.list) <= c - 1
  /\ h = c - 1 - Len(f.list) \/ Taken(f, c, h)
  /\ f.list = << >> /\ Taken(f, c, h) => k >= 2
Listed(f, m, c, h) ==
  \A i \in 1 .. Len(f.list) :
    LET d == c - 1 - Len(f.list) + i IN
    /\ Whole(f.list[i], m, d)
    /\ IF i = 1 /\ Taken(f, c, h) THEN Begun(f.list[i], m, d) ELSE Waits(f.list[i], m, d)
Current(f, m, c, k, h) ==
  /\ k <= 1 => Blank(f)
  /\ k >= 2 => /\ Holds(f, m, c, k)
               /\ IF f.list = << >> /\ Taken(f, c, h) THEN Reading(f, m, c) ELSE Unread(f, m, c)

FrameAt(f, m, c, k, h) == Sized(f, c, k, h) /\ Listed(f, m, c, h) /\ Current(f, m, c, k, h)

-----------------------------------------------------------------------------
(* The tokens of a message.                                                  *)
Token(t, c, x, end) == [t |-> t, id |-> c, clen |-> x.clen, end |-> end]
TokAt(c, x, k) ==
  CASE k = 1 -> Token("begin", c, x, FALSE)
    [] k = 2 -> Token("header", c, x, x.clen = 0)
    [] k > 2 /\ k <= 2 + x.units -> Token("body", c, x, x.clen # ChunkedBody /\ k - 2 = x.units)
    [] OTHER -> Token("last", c, x, TRUE)

TokenVals == [t : {"begin", "header", "body", "last"}, id : Nat, clen : Int, end : BOOLEAN]

LEMMA TokensAre ==
  ASSUME NEW c \in Nat, NEW x \in Msgs
  PROVE  LET s == MsgTokens(c, x.clen, x.units) IN
         /\ s \in Seq(TokenVals) /\ Len(s) = Length(x)
         /\ \A k \in 1 .. Length(x) : s[k] = TokAt(c, x, k)
<1> DEFINE chunked == x.clen = ChunkedBody
           head == <<Token("begin", c, x, FALSE), Token("header", c, x, x.clen = 0)>>
           units == [i \in 1 .. x.units |-> Token("body", c, x, ~chunked /\ i = x.units)]
           tail == IF chunked THEN <<Token("last", c, x, TRUE)>> ELSE << >>
<1>1. MsgTokens(c, x.clen, x.units) = (head \o units) \o tail
  BY DEF MsgTokens, Token
<1>2. x.units \in Nat /\ x.clen \in Int
  BY DEF Msgs
<1> DEFINE tb == Token("begin", c, x, FALSE)
           th == Token("header", c, x, x.clen = 0)
           tu(i) == Token("body", c, x, ~chunked /\ i = x.units)
           tl == Token("last", c, x, TRUE)
<1>10. tb \in TokenVals /\ th \in TokenVals /\ tl \in TokenVals /\ \A i \in Nat : tu(i) \in TokenVals
  BY <1>2 DEF TokenVals, Token
<1>11. head = <<tb, th>> /\ units = [i \in 1 .. x.units |-> tu(i)] /\ tail = IF chunked THEN <<tl>> ELSE << >>
  OBVIOUS
<1> HIDE DEF tb, th, tu, tl
<1>3. head \in Seq(TokenVals) /\ Len(head) = 2
      /\ head[1] = tb /\ head[2] = th
  <2> HIDE DEF head
  <2> QED BY <1>10, <1>11
<1>4. units \in Seq(TokenVals) /\ Len(units) = x.units /\ \A i \in 1 .. x.units : units[i] = tu(i)
  <2> DEFINE n == x.units
  <2>1. n \in Nat /\ units = [i \in 1 .. n |-> tu(i)] /\ \A i \in 1 .. n : tu(i) \in TokenVals
    BY <1>2, <1>10, <1>11
  <2> HIDE DEF units, n
  <2>2. units \in [1 .. n -> TokenVals] /\ DOMAIN units = 1 .. n /\ \A i \in 1 .. n : units[i] = tu(i)
    BY <2>1
  <2>3. units \in Seq(TokenVals) /\ Len(units) = n
    BY <2>1, <2>2
  <2> QED BY <2>2, <2>3 DEF n
<1>5. /\ tail \in Seq(TokenVals)
      /\ Len(tail) = IF chunked THEN 1 ELSE 0
      /\ chunked => tail[1] = tl
  <2> HIDE DEF tail
  <2>1. CASE chunked
    BY <1>10, <1>11, <2>1
  <2>2. CASE ~chunked
    BY <1>11, <2>2, EmptySeq
  <2> QED BY <2>1, <2>2
<1>9. chunked = (x.clen = ChunkedBody) /\ Length(x) = 2 + x.units + IF chunked THEN 1 ELSE 0
  BY DEF Length
<1> HIDE DEF chunked
<1> HIDE DEF head, units, tail
<1>6. /\ head \o units \in Seq(TokenVals)
      /\ Len(head \o units) = 2 + x.units
      /\ \A i \in 1 .. 2 + x.units : (head \o units)[i] = IF i <= 2 THEN head[i] ELSE units[i - 2]
  <2>1. /\ head \o units \in Seq(TokenVals)
        /\ Len(head \o units) = Len(head) + Len(units)
        /\ \A i \in 1 .. Len(head) + Len(units) :
             (head \o units)[i] = IF i <= Len(head) THEN head[i] ELSE units[i - Len(head)]
    BY <1>3, <1>4, ConcatProperties
  <2> QED BY <1>2, <1>3, <1>4, <2>1
<1> DEFINE hu == head \o units
<1> HIDE DEF hu
<1>7. /\ hu \o tail \in Seq(TokenVals)
      /\ Len(hu \o tail) = Length(x)
      /\ \A i \in 1 .. Length(x) : (hu \o tail)[i] = IF i <= 2 + x.units THEN hu[i] ELSE tail[i - (2 + x.units)]
  <2>1. /\ hu \o tail \in Seq(TokenVals)
        /\ Len(hu \o tail) = Len(hu) + Len(tail)
        /\ \A i \in 1 .. Len(hu) + Len(tail) :
             (hu \o tail)[i] = IF i <= Len(hu) THEN hu[i] ELSE tail[i - Len(hu)]
    <3>1. hu \in Seq(TokenVals) /\ tail \in Seq(TokenVals)
      BY <1>5, <1>6 DEF hu
    <3> QED BY <3>1, ConcatProperties
  <2> QED BY <1>2, <1>5, <1>6, <1>9, <2>1 DEF hu
<1>8. ASSUME NEW k \in 1 .. Length(x) PROVE (hu \o tail)[k] = TokAt(c, x, k)
  <2>1. CASE k = 1
    <3>1. (hu \o tail)[1] = head[1]
      BY <2>1, <1>2, <1>6, <1>7 DEF hu
    <3> QED BY <2>1, <3>1, <1>3 DEF TokAt, tb
  <2>2. CASE k = 2
    <3>1. (hu \o tail)[2] = head[2]
      BY <2>2, <1>2, <1>6, <1>7 DEF hu
    <3> QED BY <2>2, <3>1, <1>3 DEF TokAt, th
  <2>3. CASE k > 2 /\ k <= 2 + x.units
    <3>1. k - 2 \in 1 .. x.units /\ k \in 1 .. 2 + x.units /\ ~(k <= 2)
      BY <2>3, <1>2
    <3>2. (hu \o tail)[k] = units[k - 2]
      BY <2>3, <3>1, <1>6, <1>7 DEF hu
    <3>3. units[k - 2] = Token("body", c, x, ~chunked /\ k - 2 = x.units)
      BY <3>1, <1>4 DEF tu
    <3>4. k # 1 /\ k # 2
      BY <3>1
    <3> QED BY <2>3, <3>2, <3>3, <3>4 DEF TokAt, chunked
  <2>4. CASE k > 2 + x.units
    <3>1. chunked /\ k = 2 + x.units + 1
      BY <2>4, <1>2, <1>9
    <3>2. (hu \o tail)[k] = tail[1]
      <4>1. k - (2 + x.units) = 1 /\ ~(k <= 2 + x.units)
        BY <3>1, <1>2
      <4> QED BY <4>1, <1>7
    <3>3. k # 1 /\ k # 2 /\ ~(k <= 2 + x.units)
      BY <3>1, <1>2
    <3> QED BY <3>1, <3>2, <3>3, <1>5 DEF TokAt, tl
  <2>5. k \in Nat \ {0} /\ ((k > 2 /\ k <= 2 + x.units) \/ k > 2 + x.units \/ k = 1 \/ k = 2)
    BY <1>2
  <2> QED BY <2>1, <2>2, <2>3, <2>4, <2>5
<1> QED BY <1>1, <1>7, <1>8 DEF hu

-----------------------------------------------------------------------------
(* feedPacket() goes through a chain of frames.                              *)
FeedTrail(f, toks, v) == v[0] = f /\ \A i \in 1 .. Len(toks) : v[i] = Parse(v[i - 1], toks[i])

LEMMA FeedIsTrail ==
  ASSUME NEW f, NEW toks, Len(toks) \in Nat
  PROVE  \E v : FeedTrail(f, toks, v) /\ FeedPacket(f, toks) = v[Len(toks)]
<1> DEFINE n == Len(toks)
           P(h) == h = [i \in 0 .. n |-> IF i = 0 THEN f ELSE Parse(h[i - 1], toks[i])]
           after == CHOOSE h : P(h)
           Upto(k, h) == h[0] = f /\ \A i \in 1 .. k : h[i] = Parse(h[i - 1], toks[i])
           T == {k \in Nat : k <= n => \E h : Upto(k, h)}
<1>1. T = Nat
  <2>1. 0 \in T
    <3>1. Upto(0, [i \in 0 .. 0 |-> f])
      OBVIOUS
    <3> QED BY <3>1
  <2>2. ASSUME NEW k \in T PROVE k + 1 \in T
    <3> SUFFICES ASSUME k + 1 <= n PROVE \E h : Upto(k + 1, h)
      OBVIOUS
    <3>1. PICK h : Upto(k, h)
      OBVIOUS
    <3> DEFINE x == [i \in 0 .. k + 1 |-> IF i = k + 1 THEN Parse(h[k], toks[k + 1]) ELSE h[i]]
    <3>2. k \in Nat /\ x[0] = f /\ x[k] = h[k] /\ x[k + 1] = Parse(h[k], toks[k + 1])
      BY <3>1
    <3>3. ASSUME NEW i \in 1 .. k PROVE x[i] = Parse(x[i - 1], toks[i])
      <4>1. x[i] = h[i] /\ x[i - 1] = h[i - 1]
        BY <3>2
      <4> QED BY <3>1, <4>1
    <3>4. \A i \in 1 .. k + 1 : i = k + 1 \/ i \in 1 .. k
      BY <3>2
    <3>5. k + 1 - 1 = k
      BY <3>2
    <3>6. Upto(k + 1, x)
      <4> HIDE DEF x
      <4> QED BY <3>2, <3>3, <3>4, <3>5
    <3> QED BY <3>6
  <2> HIDE DEF T
  <2>3. T \in SUBSET Nat
    BY DEF T
  <2> QED BY <2>1, <2>2, <2>3, NatSetInduction
<1>2. PICK h : Upto(n, h)
  <2>1. n \in Nat /\ n <= n
    OBVIOUS
  <2> HIDE DEF Upto, n
  <2>2. n \in T
    BY <1>1, <2>1
  <2> QED BY <2>1, <2>2
<1> DEFINE g == [i \in 0 .. n |-> h[i]]
<1>3. P(g)
  <2>1. ASSUME NEW i \in 0 .. n PROVE g[i] = IF i = 0 THEN f ELSE Parse(g[i - 1], toks[i])
    <3>1. CASE i = 0
      BY <1>2, <3>1
    <3>2. CASE i # 0
      <4>1. i \in 1 .. n /\ i - 1 \in 0 .. n
        BY <3>2
      <4>2. g[i] = h[i] /\ g[i - 1] = h[i - 1]
        BY <4>1
      <4>3. h[i] = Parse(h[i - 1], toks[i])
        BY <1>2, <4>1
      <4> HIDE DEF g
      <4> QED BY <3>2, <4>2, <4>3
    <3> QED BY <3>1, <3>2
  <2> QED BY <2>1
<1>4. P(after)
  <2> HIDE DEF P, g
  <2> QED BY <1>3
<1>5. FeedPacket(f, toks) = after[n]
  BY Zenon DEF FeedPacket
<1> HIDE DEF after
<1>6. FeedTrail(f, toks, after)
  <2>1. after[0] = f
    BY <1>4
  <2>2. ASSUME NEW i \in 1 .. n PROVE after[i] = Parse(after[i - 1], toks[i])
    <3>1. i \in 0 .. n /\ i # 0
      OBVIOUS
    <3> QED BY <1>4, <3>1
  <2> QED BY <2>1, <2>2 DEF FeedTrail
<1> QED BY <1>5, <1>6

-----------------------------------------------------------------------------
(* The callbacks on a frame, written out.                                    *)
Frame(ps, msg, body, clen, rlen, stat, list) ==
  [ps |-> ps, msg |-> msg, body |-> body, clen |-> clen, rlen |-> rlen, stat |-> stat, list |-> list]

LEMMA FramesAre ==
  ASSUME NEW f
  PROVE  f \in Frames <=>
           /\ f = Frame(f.ps, f.msg, f.body, f.clen, f.rlen, f.stat, f.list)
           /\ f.ps \in {"INIT", "FIRST_LINE", "HEADER", "BODY", "END"} /\ f.msg \in MsgVals
           /\ f.body \in Seq(Nat) /\ f.clen \in Int /\ f.rlen \in Nat /\ f.stat \in Statuses
           /\ f.list \in Seq(Entries)
BY DEF Frames, Frame

FrameIs(f, ps, msg, body, clen, rlen, stat, list) ==
  /\ f \in Frames
  /\ f.ps = ps /\ f.msg = msg /\ f.body = body /\ f.clen = clen /\ f.rlen = rlen
  /\ f.stat = stat /\ f.list = list

LEMMA FrameIn ==
  ASSUME NEW f, NEW ps, NEW msg, NEW body, NEW clen, NEW rlen, NEW stat, NEW list,
         f = Frame(ps, msg, body, clen, rlen, stat, list),
         ps \in {"INIT", "FIRST_LINE", "HEADER", "BODY", "END"}, msg \in MsgVals,
         body \in Seq(Nat), clen \in Int, rlen \in Nat, stat \in Statuses, list \in Seq(Entries)
  PROVE  FrameIs(f, ps, msg, body, clen, rlen, stat, list)
BY DEF FrameIs, Frames, Frame

Listing(f) == [msg |-> f.msg, data |-> f.body,
               stat |-> {"hdr"} \cup (IF f.body # << >> THEN {"data"} ELSE {})]

LEMMA BeginIs ==
  ASSUME NEW f \in Frames, NEW e, e.t = "begin", e.end = FALSE
  PROVE  Parse(f, e) = IF f.msg = NoMsg
                       THEN Frame("FIRST_LINE", f.msg, f.body, 0, 0, {}, f.list)
                       ELSE Frame("FIRST_LINE", NoMsg, << >>, 0, 0, {}, Append(f.list, Listing(f)))
<1>1. Parse(f, e) = MsgBegin(f)
  BY DEF Parse
<1>2. CASE f.msg = NoMsg
  BY <1>1, <1>2 DEF MsgBegin, Frames, Frame
<1>3. CASE f.msg # NoMsg
  BY <1>1, <1>3 DEF MsgBegin, Frames, Frame, Listing
<1> QED BY <1>2, <1>3

LEMMA HeaderIs ==
  ASSUME NEW f \in Frames, NEW e, e.t = "header", e.end \in BOOLEAN
  PROVE  Parse(f, e) = Frame(IF e.end THEN "END" ELSE "HEADER", [id |-> e.id, clen |-> e.clen], f.body,
                             e.clen, f.rlen, {"hdr"} \cup (IF e.clen # 0 THEN {"data"} ELSE {}), f.list)
<1>1. Parse(f, e) = IF e.end THEN MsgEnd(HeaderComp(f, e.id, e.clen)) ELSE HeaderComp(f, e.id, e.clen)
  BY DEF Parse
<1>2. CASE e.end
  BY <1>1, <1>2 DEF HeaderComp, MsgEnd, Frames, Frame
<1>3. CASE ~e.end
  BY <1>1, <1>3 DEF HeaderComp, Frames, Frame
<1> QED BY <1>2, <1>3

LEMMA BodyIs ==
  ASSUME NEW f \in Frames, NEW e, e.t = "body", e.end \in BOOLEAN
  PROVE  Parse(f, e) = Frame(IF e.end THEN "END" ELSE IF f.ps = "HEADER" THEN "BODY" ELSE f.ps,
                             f.msg, Append(f.body, e.id), f.clen, f.rlen, f.stat, f.list)
<1>1. Parse(f, e) = IF e.end THEN MsgEnd(BodyData(f, e.id)) ELSE BodyData(f, e.id)
  BY DEF Parse
<1>2. CASE e.end
  BY <1>1, <1>2 DEF BodyData, MsgEnd, Frames, Frame
<1>3. CASE ~e.end
  BY <1>1, <1>3 DEF BodyData, Frames, Frame
<1> QED BY <1>2, <1>3

LEMMA LastIs ==
  ASSUME NEW f \in Frames, NEW e, e.t = "last", e.end = TRUE
  PROVE  Parse(f, e) = Frame("END", f.msg, f.body, f.clen, f.rlen, f.stat, f.list)
BY DEF Parse, MsgEnd, Frames, Frame

-----------------------------------------------------------------------------
(* Each token keeps FrameAt.                                                 *)
LEMMA LengthIs ==
  ASSUME NEW x \in Msgs
  PROVE  /\ x.units \in Nat /\ x.clen \in Int /\ Length(x) \in Nat /\ Length(x) >= 2
         /\ x.clen = ChunkedBody => Length(x) = 3 + x.units /\ x.clen = -1
         /\ x.clen # ChunkedBody => Length(x) = 2 + x.units /\ x.clen = x.units
         /\ UnitsIn(x, Length(x)) = x.units
BY DEF Msgs, Length, UnitsIn, ChunkedBody

(* A frame that the next message may begin on: the body of one whose header  *)
(* was fetched has been fetched, one that goes to the list has a length.     *)
MayBegin(f, m, c, k, h) ==
  /\ k = 0 => c = 1
  /\ k # 0 => /\ m[c] \in Msgs /\ k = Length(m[c])
              /\ Taken(f, c, h) /\ f.list = << >> => f.body = << >>
              /\ ~(Taken(f, c, h) /\ f.list = << >>) => m[c].clen # ChunkedBody

Begins(e) == e.t = "begin" /\ e.end = FALSE

LEMMA NewMessage ==
  ASSUME NEW f, NEW m, NEW c, NEW k, NEW h, FrameAt(f, m, c, k, h), MayBegin(f, m, c, k, h),
         NEW e, Begins(e)
  PROVE  /\ FrameAt(Parse(f, e), m, IF k = 0 THEN c ELSE c + 1, 1, h)
         /\ Taken(Parse(f, e), IF k = 0 THEN c ELSE c + 1, h) => Taken(f, c, h) /\ f.list # << >>
<1> DEFINE d == IF k = 0 THEN c ELSE c + 1
           g == Parse(f, e)
<1>1. /\ f \in Frames /\ c \in Nat \ {0} /\ k \in Nat /\ h \in Nat
      /\ f.msg \in MsgVals /\ f.body \in Seq(Nat) /\ f.list \in Seq(Entries) /\ Len(f.list) \in Nat
  BY DEF FrameAt, Sized, Frames
<1>2. NoMsg \in MsgVals /\ << >> \in Seq(Nat) /\ {} \in Statuses /\ 0 \in Nat
  BY DEF NoMsg, MsgVals, Statuses
<1>3. CASE f.msg = NoMsg
  <2>1. g = Frame("FIRST_LINE", f.msg, f.body, 0, 0, {}, f.list)
    BY <1>1, <1>3, BeginIs DEF Begins
  <2>2. /\ g \in Frames /\ g.msg = NoMsg /\ g.body = f.body /\ g.clen = 0 /\ g.rlen = 0
        /\ g.stat = {} /\ g.list = f.list
    <3>1. FrameIs(g, "FIRST_LINE", f.msg, f.body, 0, 0, {}, f.list)
      BY <1>1, <1>2, <1>3, <2>1, FrameIn
    <3> QED BY <1>3, <3>1 DEF FrameIs
  <2>3. k = 0 \/ (Taken(f, c, h) /\ f.list = << >>)
    <3>1. k >= 2 /\ ~(Taken(f, c, h) /\ f.list = << >>) => f.msg # NoMsg
      BY <1>1 DEF FrameAt, Current, Unread, NoMsg
    <3>2. k # 0 => k >= 2
      BY LengthIs DEF MayBegin
    <3> QED BY <1>3, <3>1, <3>2
  <2>4. f.list = << >> /\ Len(f.list) = 0 /\ g.body = << >>
    <3>1. k = 0 => f.list = << >> /\ f.body = << >>
      <4>1. k = 0 => Len(f.list) = 0
        BY <1>1 DEF FrameAt, Sized, MayBegin
      <4>2. k = 0 => f.body = << >>
        BY <1>1 DEF FrameAt, Current, Blank
      <4> QED BY <1>1, <4>1, <4>2, EmptySeq
    <3>2. Len(<< >>) = 0
      BY EmptySeq
    <3>3. k # 0 => f.list = << >> /\ f.body = << >>
      BY <2>3 DEF MayBegin
    <3> QED BY <2>2, <3>1, <3>2, <3>3
  <2>5. h = d - 1
    <3>1. k = 0 => h = c - 1
      BY <1>1, <2>4 DEF FrameAt, Sized, Taken, MayBegin
    <3>2. k # 0 => h = c
      BY <1>1, <2>3, <2>4 DEF Taken
    <3> QED BY <1>1, <3>1, <3>2
  <2>6. d \in Nat \ {0} /\ d - 1 >= 0
    BY <1>1
  <2> HIDE DEF g, d
  <2>7. FrameAt(g, m, d, 1, h)
    BY <1>1, <2>2, <2>4, <2>5, <2>6 DEF FrameAt, Sized, Listed, Current, Blank, Taken
  <2>8. ~Taken(g, d, h)
    BY <2>2, <2>4, <2>5, <2>6 DEF Taken
  <2> QED BY <2>7, <2>8 DEF g, d
<1>4. CASE f.msg # NoMsg
  <2>1. k >= 2 /\ k # 0 /\ m[c] \in Msgs /\ k = Length(m[c])
    <3>1. k <= 1 => f.msg = NoMsg
      BY DEF FrameAt, Current, Blank
    <3>2. k >= 2 /\ k # 0
      BY <1>1, <1>4, <3>1
    <3> QED BY <3>2 DEF MayBegin
  <2>2. ~(f.list = << >> /\ Taken(f, c, h))
    BY <1>4, <2>1 DEF FrameAt, Current, Reading
  <2>3. /\ m[c].clen # ChunkedBody /\ Unread(f, m, c) /\ Holds(f, m, c, k)
        /\ m[c].clen = m[c].units /\ m[c].units \in Nat /\ UnitsIn(m[c], k) = m[c].units
    BY <2>1, <2>2, LengthIs DEF FrameAt, Current, MayBegin
  <2> DEFINE none == << >>
             new == Listing(f)
             l == Append(f.list, new)
  <2>4. /\ Len(f.body) = m[c].units /\ AllOf(f.body, c) /\ f.msg = [id |-> c, clen |-> m[c].clen]
        /\ Len(f.body) \in Nat
    BY <1>1, <2>3, LenProperties DEF Unread, Holds
  <2>5. f.body # << >> <=> m[c].clen # 0
    BY <1>1, <2>3, <2>4, EmptySeq
  <2>6. new \in Entries /\ Whole(new, m, c) /\ Waits(new, m, c)
    BY <1>1, <2>3, <2>4, <2>5 DEF Listing, Entries, Statuses, Whole, Waits, Hdr
  <2> HIDE DEF new
  <2>7. /\ l \in Seq(Entries) /\ Len(l) = Len(f.list) + 1 /\ l[Len(f.list) + 1] = new /\ l # << >>
        /\ \A i \in 1 .. Len(f.list) : l[i] = f.list[i]
    BY <1>1, <2>6, AppendProperties
  <2>15. Len(l) = Len(f.list) + 1 /\ Len(f.list) \in Nat /\ c \in Nat \ {0} /\ h \in Nat
    BY <1>1, <2>7
  <2>8. g = Frame("FIRST_LINE", NoMsg, none, 0, 0, {}, l)
    BY <1>1, <1>4, BeginIs DEF new, Begins
  <2>16. none \in Seq(Nat) /\ l \in Seq(Entries) /\ {} \in Statuses /\ NoMsg \in MsgVals
    BY <1>2, <2>7
  <2>17. none = << >> /\ NoMsg = NoMsg
    OBVIOUS
  <2>10. d = c + 1 /\ d \in Nat \ {0}
    BY <1>1, <2>1
  <2> HIDE DEF l, g, d, none
  <2>9. /\ g \in Frames /\ g.msg = NoMsg /\ g.body = << >> /\ g.clen = 0 /\ g.rlen = 0
        /\ g.stat = {} /\ g.list = l
    <3>1. /\ g \in Frames /\ g.msg = NoMsg /\ g.body = none /\ g.clen = 0 /\ g.rlen = 0
          /\ g.stat = {} /\ g.list = l
      <4>1. FrameIs(g, "FIRST_LINE", NoMsg, none, 0, 0, {}, l)
        BY <2>8, <2>16, FrameIn
      <4> QED BY <4>1 DEF FrameIs
    <3> QED BY <2>17, <3>1
  <2>11. Taken(g, d, h) <=> Taken(f, c, h)
    <3>1. d - Len(l) = c - Len(f.list)
      BY <1>1, <2>10, <2>15
    <3> QED BY <2>9, <3>1 DEF Taken
  <2>12. ASSUME NEW i \in 1 .. Len(l)
         PROVE  /\ Whole(l[i], m, d - 1 - Len(l) + i)
                /\ IF i = 1 /\ Taken(g, d, h) THEN Begun(l[i], m, d - 1 - Len(l) + i)
                   ELSE Waits(l[i], m, d - 1 - Len(l) + i)
    <3>1. d - 1 - Len(l) + i = c - 1 - Len(f.list) + i
      BY <1>1, <2>7, <2>10
    <3>2. CASE i \in 1 .. Len(f.list)
      BY <2>7, <2>11, <3>1, <3>2 DEF FrameAt, Listed
    <3>3. CASE i \notin 1 .. Len(f.list)
      <4>1. i = Len(f.list) + 1 /\ c - 1 - Len(f.list) + i = c
        BY <2>15, <3>3
      <4>2. i = 1 => f.list = << >>
        BY <1>1, <4>1, EmptySeq
      <4>3. ~(i = 1 /\ Taken(g, d, h))
        BY <2>2, <2>11, <4>2
      <4> QED BY <2>6, <2>7, <3>1, <4>1, <4>3
    <3> QED BY <3>2, <3>3
  <2>13. /\ Len(g.list) <= d - 1
         /\ h = d - 1 - Len(g.list) \/ Taken(g, d, h)
    <3>1. Len(f.list) <= c - 1 /\ (h = c - 1 - Len(f.list) \/ Taken(f, c, h))
      BY DEF FrameAt, Sized
    <3> QED BY <2>9, <2>10, <2>11, <2>15, <3>1
  <2>14. FrameAt(g, m, d, 1, h)
    <3>1. f.list # << >> \/ ~Taken(f, c, h)
      BY <2>2
    <3>2. Blank(g) /\ l # << >> /\ g.list = l /\ g \in Frames
      BY <2>7, <2>9 DEF Blank
    <3>3. Listed(g, m, d, h)
      BY <2>12, <3>2 DEF Listed
    <3>4. Sized(g, d, 1, h)
      BY <2>10, <2>13, <2>15, <3>2 DEF Sized
    <3>5. Current(g, m, d, 1, h)
      BY <3>2 DEF Current
    <3> QED BY <3>3, <3>4, <3>5 DEF FrameAt
  <2> QED BY <2>2, <2>11, <2>14 DEF g, d
<1> QED BY <1>3, <1>4

(* e is the k-th token of message c, which is x.                             *)
IsTok(e, c, x, k) ==
  /\ e.id = c /\ e.clen = x.clen /\ e.end \in BOOLEAN
  /\ e.end <=> k = Length(x)
  /\ k = 1 => e.t = "begin" /\ e.end = FALSE
  /\ k = 2 => e.t = "header"
  /\ k > 2 /\ k <= 2 + x.units => e.t = "body"
  /\ k = 3 + x.units => e.t = "last" /\ x.clen = ChunkedBody

LEMMA TokAtIs ==
  ASSUME NEW c, NEW x \in Msgs, NEW k \in 1 .. Length(x)
  PROVE  IsTok(TokAt(c, x, k), c, x, k)
<1> DEFINE e == TokAt(c, x, k)
<1>1. /\ x.units \in Nat /\ x.clen \in Int /\ Length(x) \in Nat /\ Length(x) >= 2 /\ k \in Nat
      /\ x.clen = ChunkedBody => Length(x) = 3 + x.units /\ x.clen = -1
      /\ x.clen # ChunkedBody => Length(x) = 2 + x.units /\ x.clen = x.units
  BY LengthIs
<1>2. CASE k = 1
  <2>1. e = Token("begin", c, x, FALSE)
    BY <1>2 DEF TokAt
  <2>2. e.id = c /\ e.clen = x.clen /\ e.t = "begin" /\ e.end = FALSE
    BY <2>1 DEF Token
  <2> HIDE DEF e
  <2>3. k # Length(x) /\ k # 3 + x.units /\ k # 2 /\ ~(k > 2)
    BY <1>1, <1>2
  <2>4. IsTok(e, c, x, k)
    BY <2>2, <2>3 DEF IsTok
  <2> QED BY <2>4 DEF e
<1>3. CASE k = 2
  <2> DEFINE b == x.clen = 0
  <2>1. e = Token("header", c, x, b)
    BY <1>3 DEF TokAt
  <2>2. b \in BOOLEAN /\ (b <=> k = Length(x))
    BY <1>1, <1>3
  <2> HIDE DEF b
  <2>3. e.id = c /\ e.clen = x.clen /\ e.t = "header" /\ e.end = b
    BY <2>1 DEF Token
  <2> HIDE DEF e
  <2>4. k # 1 /\ ~(k > 2) /\ k # 3 + x.units
    BY <1>1, <1>3
  <2> QED BY <1>3, <2>2, <2>3, <2>4 DEF e, IsTok
<1>4. CASE k > 2 /\ k <= 2 + x.units
  <2> DEFINE b == x.clen # ChunkedBody /\ k - 2 = x.units
  <2>1. e = Token("body", c, x, b)
    <3>1. k # 1 /\ k # 2
      BY <1>4
    <3> QED BY <1>4, <3>1 DEF TokAt
  <2>2. b \in BOOLEAN /\ (b <=> k = Length(x))
    BY <1>1, <1>4
  <2> HIDE DEF b
  <2>3. e.id = c /\ e.clen = x.clen /\ e.t = "body" /\ e.end = b
    BY <2>1 DEF Token
  <2> HIDE DEF e
  <2>4. k # 1 /\ k # 2 /\ k # 3 + x.units
    BY <1>1, <1>4
  <2> QED BY <1>4, <2>2, <2>3, <2>4 DEF e, IsTok
<1>5. CASE k > 2 + x.units
  <2>1. x.clen = ChunkedBody /\ k = 3 + x.units /\ k = Length(x) /\ k # 1 /\ k # 2 /\ ~(k <= 2 + x.units)
    BY <1>1, <1>5
  <2>2. e = Token("last", c, x, TRUE)
    BY <2>1 DEF TokAt
  <2>3. e.id = c /\ e.clen = x.clen /\ e.t = "last" /\ e.end = TRUE
    BY <2>2 DEF Token
  <2> HIDE DEF e
  <2> QED BY <2>1, <2>3 DEF e, IsTok
<1>6. k = 1 \/ k = 2 \/ (k > 2 /\ k <= 2 + x.units) \/ k > 2 + x.units
  BY <1>1
<1> HIDE DEF e
<1> QED BY <1>2, <1>3, <1>4, <1>5, <1>6 DEF e

LEMMA HeaderRead ==
  ASSUME NEW f, NEW m, NEW c, NEW h, FrameAt(f, m, c, 1, h), m[c] \in Msgs,
         NEW e, IsTok(e, c, m[c], 2)
  PROVE  FrameAt(Parse(f, e), m, c, 2, h) /\ Parse(f, e).list = f.list
<1> DEFINE x == m[c]
           val == [id |-> c, clen |-> x.clen]
           ps == IF x.clen = 0 THEN "END" ELSE "HEADER"
           g == Parse(f, e)
<1>1. /\ f \in Frames /\ c \in Nat \ {0} /\ h \in Nat /\ Blank(f)
      /\ f.body \in Seq(Nat) /\ f.list \in Seq(Entries) /\ f.rlen = 0 /\ f.body = << >>
      /\ ~(f.list = << >> /\ Taken(f, c, h))
  BY DEF FrameAt, Sized, Current, Blank, Frames
<1>2. x \in Msgs /\ x.units \in Nat /\ x.clen \in Int
  BY LengthIs
<1>3. /\ e.t = "header" /\ (e.end <=> x.clen = 0) /\ e.end \in BOOLEAN /\ e.id = c /\ e.clen = x.clen
  BY LengthIs DEF IsTok, ChunkedBody
<1>4. val \in MsgVals /\ Hdr(x) \in Statuses /\ ps \in {"INIT", "FIRST_LINE", "HEADER", "BODY", "END"}
  BY <1>1, <1>2 DEF MsgVals, Hdr, Statuses
<1>5. g = Frame(ps, val, f.body, x.clen, f.rlen, Hdr(x), f.list)
  BY <1>1, <1>3, HeaderIs DEF Hdr
<1>14. f.body \in Seq(Nat) /\ f.rlen \in Nat /\ f.list \in Seq(Entries)
  BY <1>1
<1> HIDE DEF g, val, ps, x
<1>6. /\ g \in Frames /\ g.msg = val /\ g.body = f.body /\ g.clen = x.clen /\ g.rlen = f.rlen
      /\ g.stat = Hdr(x) /\ g.list = f.list /\ g.ps = ps
  <2>1. FrameIs(g, ps, val, f.body, x.clen, f.rlen, Hdr(x), f.list)
    BY <1>2, <1>4, <1>5, <1>14, FrameIn
  <2> QED BY <2>1 DEF FrameIs
<1>7. Sized(g, c, 2, h)
  <2>1. Taken(g, c, h) <=> Taken(f, c, h)
    BY <1>6 DEF Taken
  <2>2. Sized(f, c, 1, h) /\ 2 \in Nat /\ 2 >= 2
    BY DEF FrameAt
  <2> QED BY <1>6, <2>1, <2>2 DEF Sized
<1>8. Listed(g, m, c, h)
  BY <1>6 DEF FrameAt, Listed, Taken
<1>9. Unread(g, m, c) /\ ~(g.list = << >> /\ Taken(g, c, h))
  BY <1>1, <1>6 DEF Unread, Taken, val, x
<1>10. g.ps = "END" <=> 2 = Length(x)
  BY <1>2, <1>6, LengthIs DEF ps, ChunkedBody
<1>11. g.body = << >> /\ Len(<< >>) = 0 /\ Len(g.body) = 0 /\ UnitsIn(x, 2) = 0
  BY <1>1, <1>6, EmptySeq DEF UnitsIn
<1>12. Holds(g, m, c, 2)
  BY <1>1, <1>6, <1>10, <1>11 DEF Holds, AllOf, x
<1>13. Current(g, m, c, 2, h)
  BY <1>9, <1>12 DEF Current
<1> QED BY <1>6, <1>7, <1>8, <1>13 DEF FrameAt, g, x

(* A token after the header leaves everything but the body alone.            *)
SameBut(f, g, ps, body) ==
  /\ g \in Frames /\ g.msg = f.msg /\ g.clen = f.clen /\ g.rlen = f.rlen /\ g.stat = f.stat
  /\ g.list = f.list /\ g.ps = ps /\ g.body = body

LEMMA SameButIs ==
  ASSUME NEW f \in Frames, NEW ps \in {"INIT", "FIRST_LINE", "HEADER", "BODY", "END"},
         NEW body \in Seq(Nat), NEW g, g = Frame(ps, f.msg, body, f.clen, f.rlen, f.stat, f.list)
  PROVE  SameBut(f, g, ps, body)
BY DEF SameBut, Frames, Frame

LEMMA Grows ==
  ASSUME NEW f, NEW m, NEW c, NEW k, NEW h, NEW g, NEW ps, NEW body, FrameAt(f, m, c, k, h), k >= 2,
         SameBut(f, g, ps, body), AllOf(body, c),
         Len(body) - Len(f.body) = UnitsIn(m[c], k + 1) - UnitsIn(m[c], k),
         Len(body) \in Nat, UnitsIn(m[c], k) \in Nat, UnitsIn(m[c], k + 1) \in Nat,
         ps = "END" <=> k + 1 = Length(m[c])
  PROVE  FrameAt(g, m, c, k + 1, h)
<1>1. /\ f \in Frames /\ c \in Nat \ {0} /\ k \in Nat /\ h \in Nat /\ f.rlen \in Nat /\ Len(f.body) \in Nat
      /\ Holds(f, m, c, k)
  BY LenProperties DEF FrameAt, Sized, Current, Frames
<1>2. Sized(g, c, k + 1, h)
  <2>1. Sized(f, c, k, h) /\ g \in Frames /\ g.list = f.list
    BY DEF FrameAt, SameBut
  <2>2. k + 1 \in Nat /\ k + 1 >= 2
    BY <1>1
  <2> QED BY <2>1, <2>2 DEF Sized, Taken
<1>3. Listed(g, m, c, h)
  BY DEF FrameAt, Listed, Taken, SameBut
<1>4. Holds(g, m, c, k + 1)
  <2>1. g.rlen + Len(g.body) = UnitsIn(m[c], k + 1)
    <3>1. g.rlen = f.rlen /\ g.body = body
      BY DEF SameBut
    <3>2. f.rlen + Len(f.body) = UnitsIn(m[c], k)
      BY <1>1 DEF Holds
    <3>3. f.rlen \in Nat /\ Len(f.body) \in Nat
      BY <1>1
    <3> DEFINE old == UnitsIn(m[c], k)
               new == UnitsIn(m[c], k + 1)
               b == Len(f.body)
               b1 == Len(body)
    <3>4. f.rlen + b = old /\ b1 - b = new - old /\ b \in Nat /\ b1 \in Nat /\ old \in Nat /\ new \in Nat
      BY <3>2, <3>3
    <3> HIDE DEF old, new, b, b1
    <3>5. f.rlen + b1 = new
      BY SMTT(30), <3>3, <3>4
    <3> QED BY <3>1, <3>5 DEF new, b1
  <2> QED BY <1>1, <2>1 DEF Holds, SameBut
<1>5. IF g.list = << >> /\ Taken(g, c, h) THEN Reading(g, m, c) ELSE Unread(g, m, c)
  BY DEF FrameAt, Current, Reading, Unread, Taken, SameBut
<1>6. Current(g, m, c, k + 1, h)
  BY <1>1, <1>4, <1>5 DEF Current
<1> QED BY <1>2, <1>3, <1>6 DEF FrameAt

LEMMA UnitRead ==
  ASSUME NEW f, NEW m, NEW c, NEW k, NEW h, FrameAt(f, m, c, k, h), m[c] \in Msgs,
         k >= 2, k < 2 + m[c].units, NEW e, IsTok(e, c, m[c], k + 1)
  PROVE  /\ FrameAt(Parse(f, e), m, c, k + 1, h)
         /\ LET g == Parse(f, e) IN g.rlen = f.rlen /\ g.stat = f.stat /\ g.list = f.list
<1> DEFINE x == m[c]
           ps == IF e.end THEN "END" ELSE IF f.ps = "HEADER" THEN "BODY" ELSE f.ps
           body == Append(f.body, c)
           g == Parse(f, e)
<1>1. /\ f \in Frames /\ c \in Nat \ {0} /\ k \in Nat /\ h \in Nat /\ Holds(f, m, c, k)
      /\ f.body \in Seq(Nat) /\ Len(f.body) \in Nat /\ f.list \in Seq(Entries) /\ f.msg \in MsgVals
      /\ f.clen \in Int /\ f.rlen \in Nat /\ f.stat \in Statuses
      /\ f.ps \in {"INIT", "FIRST_LINE", "HEADER", "BODY", "END"}
  BY LenProperties DEF FrameAt, Sized, Current, Frames
<1>2. x \in Msgs /\ x.units \in Nat /\ x.clen \in Int
  BY LengthIs
<1>3. k + 1 > 2 /\ k + 1 <= 2 + x.units /\ k + 1 # 1 /\ k + 1 # 2 /\ k < 2 + x.units
  BY <1>1, <1>2
<1>5. e.t = "body" /\ e.end \in BOOLEAN /\ e.id = c /\ (e.end <=> k + 1 = Length(x))
  BY <1>3 DEF IsTok
<1>6. g = Frame(ps, f.msg, body, f.clen, f.rlen, f.stat, f.list)
  BY <1>1, <1>5, BodyIs
<1>7. ps \in {"INIT", "FIRST_LINE", "HEADER", "BODY", "END"}
  BY <1>1
<1>8. /\ body \in Seq(Nat) /\ Len(body) = Len(f.body) + 1 /\ body[Len(f.body) + 1] = c
      /\ \A i \in 1 .. Len(f.body) : body[i] = f.body[i]
  BY <1>1, AppendProperties
<1>9. ps = "END" <=> k + 1 = Length(x)
  <2>1. k # Length(x)
    <3> HIDE DEF x, g, ps, body
    <3>1. Length(x) \in Nat /\ Length(x) >= 2 + x.units
      BY <1>2, LengthIs
    <3> QED BY <1>1, <1>2, <1>3, <3>1
  <2>2. f.ps # "END"
    BY <1>1, <2>1 DEF Holds
  <2> QED BY <1>5, <2>2
<1> HIDE DEF g, ps, body
<1>10. SameBut(f, g, ps, body)
  BY <1>1, <1>6, <1>7, <1>8, SameButIs
<1>11. AllOf(body, c)
  <2>1. AllOf(f.body, c)
    BY <1>1 DEF Holds
  <2>2. Len(f.body) \in Nat
    BY <1>1
  <2>3. \A i \in 1 .. Len(f.body) + 1 : i \in 1 .. Len(f.body) \/ i = Len(f.body) + 1
    BY <2>2
  <2> SUFFICES ASSUME NEW i \in 1 .. Len(body) PROVE body[i] = c
    BY DEF AllOf
  <2>4. CASE i \in 1 .. Len(f.body)
    <3>1. body[i] = f.body[i] /\ f.body[i] = c
      BY <1>8, <2>1, <2>4 DEF AllOf
    <3> QED BY <3>1
  <2>5. CASE i = Len(f.body) + 1
    BY <1>8, <2>5
  <2> QED BY <1>8, <2>3, <2>4, <2>5
<1>12. /\ UnitsIn(x, k) \in Nat /\ UnitsIn(x, k + 1) \in Nat
       /\ UnitsIn(x, k + 1) = UnitsIn(x, k) + 1
  <2>1. x.units \in Nat /\ k \in Nat /\ k <= 2 + x.units /\ k + 1 <= 2 + x.units /\ k >= 2
    BY <1>1, <1>2, <1>3
  <2> HIDE DEF x
  <2>2. UnitsIn(x, k + 1) = k - 1
    BY <2>1 DEF UnitsIn
  <2>3. UnitsIn(x, k) = k - 2
    BY <2>1 DEF UnitsIn
  <2> QED BY <2>1, <2>2, <2>3
<1>13. Len(body) - Len(f.body) = UnitsIn(x, k + 1) - UnitsIn(x, k) /\ Len(body) \in Nat
  BY <1>1, <1>8, <1>12
<1>14. FrameAt(g, m, c, k + 1, h)
  BY <1>9, <1>10, <1>11, <1>12, <1>13, Grows
<1> QED BY <1>10, <1>14 DEF SameBut, g

LEMMA LastRead ==
  ASSUME NEW f, NEW m, NEW c, NEW k, NEW h, FrameAt(f, m, c, k, h), m[c] \in Msgs,
         m[c].clen = ChunkedBody, k = 2 + m[c].units, NEW e, IsTok(e, c, m[c], k + 1)
  PROVE  /\ FrameAt(Parse(f, e), m, c, k + 1, h)
         /\ LET g == Parse(f, e) IN g.rlen = f.rlen /\ g.stat = f.stat /\ g.list = f.list
<1> DEFINE x == m[c]
           g == Parse(f, e)
<1>1. x \in Msgs /\ x.units \in Nat /\ k \in Nat /\ k >= 2 /\ k + 1 = Length(x)
  BY LengthIs
<1>2. /\ f \in Frames /\ c \in Nat \ {0} /\ h \in Nat /\ Holds(f, m, c, k)
      /\ f.body \in Seq(Nat) /\ Len(f.body) \in Nat /\ f.list \in Seq(Entries) /\ f.msg \in MsgVals
      /\ f.clen \in Int /\ f.rlen \in Nat /\ f.stat \in Statuses
  BY <1>1, LenProperties DEF FrameAt, Sized, Current, Frames
<1>3. k + 1 = 3 + x.units /\ k + 1 \in 1 .. Length(x)
  BY <1>1
<1>5. e.t = "last" /\ e.end = TRUE
  BY <1>1, <1>3 DEF IsTok
<1>6. g = Frame("END", f.msg, f.body, f.clen, f.rlen, f.stat, f.list)
  BY <1>2, <1>5, LastIs
<1> HIDE DEF g
<1>7. SameBut(f, g, "END", f.body)
  BY <1>2, <1>6, SameButIs
<1>8. /\ UnitsIn(x, k) \in Nat /\ UnitsIn(x, k + 1) \in Nat
      /\ UnitsIn(x, k + 1) = UnitsIn(x, k)
  BY <1>1 DEF UnitsIn
<1>9. Len(f.body) - Len(f.body) = UnitsIn(x, k + 1) - UnitsIn(x, k) /\ AllOf(f.body, c)
  BY <1>2, <1>8 DEF Holds
<1>10. FrameAt(g, m, c, k + 1, h)
  BY <1>1, <1>2, <1>7, <1>8, <1>9, Grows
<1> QED BY <1>7, <1>10 DEF SameBut, g

-----------------------------------------------------------------------------
(* n messages laid end to end: off[c] tokens go before message c.  The       *)
(* first token of one more may follow.                                       *)
Laid(s, m, n, off) ==
  /\ n \in Nat /\ off \in [1 .. n + 1 -> Nat] /\ off[1] = 0
  /\ \A c \in 1 .. n : /\ m[c] \in Msgs /\ off[c + 1] = off[c] + Length(m[c])
                       /\ \A k \in 1 .. Length(m[c]) : IsTok(s[off[c] + k], c, m[c], k)
  /\ \/ Len(s) = off[n + 1]
     \/ Len(s) = off[n + 1] + 1 /\ Begins(s[off[n + 1] + 1])

(* pos tokens of it end with the k-th of message c.                          *)
At(m, n, off, pos, c, k) ==
  /\ c \in 1 .. n + 1 /\ k \in Nat /\ pos = off[c] + k
  /\ k = 0 => c = 1
  /\ c <= n => k <= Length(m[c])
  /\ c = n + 1 => k <= 1

LEMMA NextToken ==
  ASSUME NEW s, NEW m, NEW n, NEW off, Laid(s, m, n, off), NEW pos, NEW c, NEW k,
         At(m, n, off, pos, c, k), pos + 1 <= Len(s)
  PROVE  \/ /\ Begins(s[pos + 1]) /\ (k = 0 \/ (c <= n /\ k = Length(m[c])))
            /\ At(m, n, off, pos + 1, IF k = 0 THEN c ELSE c + 1, 1)
         \/ /\ c <= n /\ k >= 1 /\ k < Length(m[c]) /\ IsTok(s[pos + 1], c, m[c], k + 1)
            /\ At(m, n, off, pos + 1, c, k + 1)
<1> DEFINE len(d) == Length(m[d])
<1>1. /\ n \in Nat /\ c \in 1 .. n + 1 /\ k \in Nat /\ off[c] \in Nat /\ pos = off[c] + k
      /\ off[n + 1] \in Nat /\ off[1] = 0 /\ Len(s) <= off[n + 1] + 1
  <2>1. n \in Nat /\ c \in 1 .. n + 1 /\ k \in Nat /\ pos = off[c] + k /\ off[1] = 0
        /\ off \in [1 .. n + 1 -> Nat] /\ (Len(s) = off[n + 1] \/ Len(s) = off[n + 1] + 1)
    BY DEF Laid, At
  <2>2. n + 1 \in 1 .. n + 1
    BY <2>1
  <2>3. off[c] \in Nat /\ off[n + 1] \in Nat
    BY <2>1, <2>2
  <2> QED BY <2>1, <2>3
<1>2. ASSUME NEW d \in 1 .. n
      PROVE  /\ m[d] \in Msgs /\ off[d + 1] = off[d] + len(d) /\ len(d) \in Nat /\ len(d) >= 2
             /\ \A i \in 1 .. len(d) : IsTok(s[off[d] + i], d, m[d], i)
  BY LengthIs DEF Laid
<1>6. (k = 0 => c = 1) /\ (c <= n => k <= len(c)) /\ (c = n + 1 => k <= 1)
  BY DEF At
<1> HIDE DEF len
<1>3. CASE c \in 1 .. n /\ k >= 1 /\ k < len(c)
  <2>5. len(c) \in Nat
    BY <1>2, <1>3
  <2>1. k + 1 \in 1 .. len(c) /\ pos + 1 = off[c] + (k + 1) /\ k + 1 \in Nat /\ k + 1 # 0 /\ k + 1 <= len(c)
        /\ c # n + 1
    <3>1. pos + 1 = off[c] + (k + 1)
      BY SMTT(30), <1>1
    <3>2. k + 1 \in 1 .. len(c) /\ k + 1 \in Nat /\ k + 1 # 0 /\ k + 1 <= len(c)
      <4>1. k \in Nat /\ k < len(c)
        BY <1>1, <1>3
      <4> QED BY <2>5, <4>1
    <3>3. c # n + 1
      BY <1>1, <1>3
    <3> QED BY <3>1, <3>2, <3>3
  <2>2. IsTok(s[pos + 1], c, m[c], k + 1)
    BY <1>2, <1>3, <2>1
  <2>3. At(m, n, off, pos + 1, c, k + 1)
    BY <1>1, <2>1 DEF At, len
  <2> QED BY <1>1, <1>3, <2>2, <2>3 DEF len
<1>4. CASE c \in 1 .. n /\ (k = 0 \/ k = len(c))
  <2> DEFINE d == IF k = 0 THEN c ELSE c + 1
  <2>5. off[c + 1] = off[c] + len(c) /\ len(c) \in Nat /\ len(c) >= 2 /\ c \in 1 .. n
    BY <1>2, <1>4
  <2>1. pos = off[d] /\ d \in 1 .. n + 1
    <3>1. CASE k = 0
      BY <1>1, <1>4, <3>1
    <3>2. CASE k # 0
      <4>1. d = c + 1 /\ k = len(c) /\ c + 1 \in 1 .. n + 1
        BY <1>1, <1>4, <3>2
      <4> QED BY <1>1, <2>5, <4>1
    <3> QED BY <3>1, <3>2
  <2>6. (k = 0 => d = c) /\ (k # 0 => d = c + 1)
    OBVIOUS
  <2> HIDE DEF d
  <2>2. Begins(s[pos + 1])
    <3>1. CASE d \in 1 .. n
      <4>1. 1 \in 1 .. len(d)
        <5>1. len(d) \in Nat /\ len(d) >= 2
          BY <1>2, <3>1
        <5> QED BY <5>1
      <4>2. IsTok(s[off[d] + 1], d, m[d], 1)
        BY <1>2, <3>1, <4>1
      <4> QED BY <2>1, <4>2 DEF IsTok, Begins
    <3>2. CASE d = n + 1
      <4>1. Len(s) # off[n + 1]
        BY <1>1, <2>1, <3>2
      <4> QED BY <2>1, <3>2, <4>1 DEF Laid
    <3>3. d \in 1 .. n \/ d = n + 1
      BY <1>1, <2>1
    <3> QED BY <3>1, <3>2, <3>3
  <2>3. At(m, n, off, pos + 1, d, 1)
    <3>1. d <= n => 1 <= len(d)
      <4> SUFFICES ASSUME d <= n PROVE 1 <= len(d)
        OBVIOUS
      <4>1. d \in 1 .. n
        BY <1>1, <2>1
      <4>2. len(d) \in Nat /\ len(d) >= 2
        BY <1>2, <4>1
      <4> QED BY <4>2
    <3> QED BY <2>1, <3>1 DEF At, len
  <2> QED BY <1>1, <1>4, <2>2, <2>3 DEF d, len
<1>5. CASE c = n + 1
  <2>1. k = 0
    BY <1>1, <1>5
  <2>2. c = 1 /\ n = 0 /\ pos = off[n + 1] /\ Len(s) # off[n + 1]
    BY <1>1, <1>5, <1>6, <2>1
  <2>3. Begins(s[pos + 1])
    BY <2>2 DEF Laid
  <2>4. At(m, n, off, pos + 1, c, 1)
    BY <1>1, <1>5, <2>1, <2>2 DEF At
  <2> QED BY <2>1, <2>3, <2>4
<1>7. c = n + 1 \/ (c \in 1 .. n /\ (k = 0 \/ k = len(c) \/ (k >= 1 /\ k < len(c))))
  <2>1. c = n + 1 \/ c \in 1 .. n
    BY <1>1
  <2>2. ASSUME c \in 1 .. n PROVE k = 0 \/ k = len(c) \/ (k >= 1 /\ k < len(c))
    <3>1. len(c) \in Nat /\ c <= n
      BY <1>1, <1>2, <2>2
    <3> QED BY <1>1, <1>6, <3>1
  <2> QED BY <2>1, <2>2
<1> QED BY <1>3, <1>4, <1>5, <1>7

LEMMA TokenRead ==
  ASSUME NEW f, NEW m, NEW c, NEW k, NEW h, FrameAt(f, m, c, k, h), m[c] \in Msgs,
         k >= 1, k < Length(m[c]), NEW e, IsTok(e, c, m[c], k + 1)
  PROVE  /\ FrameAt(Parse(f, e), m, c, k + 1, h) /\ Parse(f, e).list = f.list
         /\ k >= 2 => /\ Parse(f, e).rlen = f.rlen /\ Parse(f, e).stat = f.stat
                      /\ e.t \in {"body", "last"}
         /\ k = 1 => e.t = "header" /\ e.clen = m[c].clen
<1>1. k \in Nat /\ m[c].units \in Nat
  BY LengthIs DEF FrameAt, Sized
<1>2. CASE k = 1
  <2>1. 1 + 1 = 2
    OBVIOUS
  <2>2. IsTok(e, c, m[c], 2) /\ FrameAt(f, m, c, 1, h)
    BY <1>2, <2>1
  <2> QED BY <1>2, <2>1, <2>2, HeaderRead DEF IsTok
<1>3. CASE k >= 2 /\ k < 2 + m[c].units
  <2>1. e.t = "body"
    BY <1>1, <1>3 DEF IsTok
  <2>2. k # 1
    BY <1>3
  <2> QED BY <1>3, <2>1, <2>2, UnitRead
<1>4. CASE k >= 2 + m[c].units
  <2>1. m[c].clen = ChunkedBody /\ k = 2 + m[c].units /\ k >= 2 /\ k # 1 /\ k + 1 = 3 + m[c].units
    BY <1>1, <1>4, LengthIs
  <2>2. e.t = "last"
    BY <2>1 DEF IsTok
  <2> QED BY <2>1, <2>2, LastRead
<1> QED BY <1>1, <1>2, <1>3, <1>4

-----------------------------------------------------------------------------
(* A packet, from a frame that is at rest: nothing waits to be fetched.      *)
AtRest(f, c, k, h) == f.list = << >> /\ (k >= 2 => h = c /\ f.body = << >>)

(* A message whose header was fetched is not complete.                       *)
Unended(f, m, c, k, h) == Taken(f, c, h) /\ k < Length(m[c])

SeenChunked(toks, j) == \E i \in 1 .. j : toks[i].t = "header" /\ toks[i].clen = ChunkedBody

(* The frame g, j tokens into the packet that began with frame f: the        *)
(* message begun before is still received, or none is whose header was       *)
(* fetched.                                                                  *)
FedTo(f, m, c, k, h, toks, j, g, d, i) ==
  \/ j = 0 /\ g = f /\ d = c /\ i = k
  \/ /\ j > 0 /\ Unended(f, m, c, k, h) /\ d = c /\ i >= k
     /\ g.list = << >> /\ g.rlen = f.rlen /\ g.stat = f.stat
     /\ toks[1].t \in {"body", "last"}
  \/ /\ j > 0 /\ ~Unended(f, m, c, k, h) /\ ~Taken(g, d, h)
     /\ i >= 2 /\ m[d].clen = ChunkedBody => SeenChunked(toks, j)

LEMMA FeedStep ==
  ASSUME NEW s, NEW m, NEW n, NEW off, Laid(s, m, n, off), NEW pos \in Nat,
         NEW f, NEW c, NEW k, NEW h, FrameAt(f, m, c, k, h), AtRest(f, c, k, h),
         NEW toks, DOMAIN toks = 1 .. Len(toks), Len(toks) \in Nat,
         pos + Len(toks) <= Len(s), \A i \in 1 .. Len(toks) : toks[i] = s[pos + i],
         ~EndsAndBegins(toks), ~QueuesChunked(toks),
         NEW j \in Nat, j + 1 <= Len(toks), NEW g, NEW d, NEW i,
         At(m, n, off, pos + j, d, i), FrameAt(g, m, d, i, h), FedTo(f, m, c, k, h, toks, j, g, d, i)
  PROVE  \E dd, ii : /\ At(m, n, off, pos + (j + 1), dd, ii)
                     /\ FrameAt(Parse(g, toks[j + 1]), m, dd, ii, h)
                     /\ FedTo(f, m, c, k, h, toks, j + 1, Parse(g, toks[j + 1]), dd, ii)
<1> DEFINE e == toks[j + 1]
           gg == Parse(g, e)
<1>1. /\ j + 1 \in 1 .. Len(toks) /\ e = s[pos + j + 1] /\ pos + j + 1 <= Len(s) /\ toks # << >>
      /\ pos + j + 1 = pos + (j + 1) /\ j + 1 > 0 /\ j + 1 # 0 /\ 1 \in 1 .. Len(toks)
  <2>1. j + 1 \in 1 .. Len(toks) /\ pos + j + 1 = pos + (j + 1) /\ Len(toks) # 0 /\ 1 \in 1 .. Len(toks)
        /\ pos + j + 1 <= Len(s) /\ j + 1 > 0 /\ j + 1 # 0
    <3>1. Len(s) \in Nat
      <4>1. n + 1 \in 1 .. n + 1
        BY DEF Laid
      <4>2. off[n + 1] \in Nat
        BY <4>1 DEF Laid
      <4> QED BY <4>2 DEF Laid
    <3> QED BY <3>1
  <2>2. Len(<< >>) = 0
    BY EmptySeq
  <2> QED BY <2>1, <2>2
<1> HIDE DEF e
<1>2. /\ d \in Nat \ {0} /\ i \in Nat /\ h \in Nat /\ k \in Nat /\ c \in Nat \ {0} /\ n \in Nat
      /\ g.list = << >> /\ Taken(g, d, h) => i >= 2
      /\ d <= n => m[d] \in Msgs /\ Length(m[d]) >= 2 /\ Length(m[d]) \in Nat
  <2>1. n \in Nat /\ d \in Nat \ {0} /\ \A x \in 1 .. n : m[x] \in Msgs
    BY DEF FrameAt, Sized, Laid
  <2>2. d <= n => m[d] \in Msgs
    BY <2>1
  <2> QED BY <2>1, <2>2, LengthIs DEF FrameAt, Sized
<1>3. CASE /\ Begins(e) /\ (i = 0 \/ (d <= n /\ i = Length(m[d])))
           /\ At(m, n, off, pos + j + 1, IF i = 0 THEN d ELSE d + 1, 1)
  <2> DEFINE dd == IF i = 0 THEN d ELSE d + 1
  <2>1. ASSUME Taken(g, d, h) PROVE j = 0 /\ g = f /\ d = c /\ i = k /\ ~Unended(f, m, c, k, h)
    <3>1. j = 0 \/ toks[1].t \notin {"body", "last"}
      <4> SUFFICES ASSUME j # 0, toks[1].t \in {"body", "last"} PROVE FALSE
        OBVIOUS
      <4> QED BY <1>1, <1>3 DEF EndsAndBegins, Begins, e
    <3>2. j = 0 /\ g = f /\ d = c /\ i = k
      BY <2>1, <3>1 DEF FedTo
    <3>3. i >= 2
      BY <1>2, <2>1, <3>2 DEF AtRest
    <3> QED BY <1>2, <1>3, <3>2, <3>3 DEF Unended
  <2>2. MayBegin(g, m, d, i, h)
    <3>1. i = 0 => d = 1
      BY DEF At
    <3>2. ASSUME i # 0, Taken(g, d, h) PROVE g.list = << >> /\ g.body = << >>
      <4>1. g = f /\ d = c /\ i = k /\ i >= 2
        BY <1>2, <1>3, <2>1, <3>2
      <4> QED BY <4>1 DEF AtRest
    <3>3. ASSUME i # 0, ~Taken(g, d, h) PROVE m[d].clen # ChunkedBody
      <4>1. j # 0
        <5> SUFFICES ASSUME j = 0 PROVE FALSE
          OBVIOUS
        <5>1. g = f /\ d = c /\ i = k /\ i >= 2 /\ Len(f.list) = 0
          BY <1>2, <1>3, <3>3, EmptySeq DEF FedTo, AtRest
        <5>2. Taken(f, c, h)
          BY <1>2, <5>1 DEF AtRest, Taken
        <5> QED BY <3>3, <5>1, <5>2
      <4>2. g.list = << >> /\ d = c => ~Unended(f, m, c, k, h)
        <5> SUFFICES ASSUME g.list = << >>, d = c, Taken(f, c, h) PROVE FALSE
          BY DEF Unended
        <5>1. f.list = << >>
          BY DEF AtRest
        <5> QED BY <3>3, <5>1 DEF Taken
      <4> SUFFICES ASSUME m[d].clen = ChunkedBody PROVE FALSE
        OBVIOUS
      <4>3. i >= 2
        BY <1>2, <1>3, <3>3
      <4>4. SeenChunked(toks, j)
        BY <4>1, <4>2, <4>3 DEF FedTo
      <4>5. PICK a \in 1 .. j : toks[a].t = "header" /\ toks[a].clen = ChunkedBody
        BY <4>4 DEF SeenChunked
      <4>6. a \in DOMAIN toks /\ a < j + 1 /\ j + 1 \in DOMAIN toks
        BY <1>1
      <4> QED BY <1>3, <4>5, <4>6 DEF QueuesChunked, Begins, e
    <3> QED BY <1>2, <1>3, <3>1, <3>2, <3>3 DEF MayBegin
  <2>3. FrameAt(gg, m, dd, 1, h) /\ (Taken(gg, dd, h) => Taken(g, d, h) /\ g.list # << >>)
    BY <1>3, <2>2, NewMessage
  <2> HIDE DEF gg, dd
  <2>4. ~Taken(gg, dd, h)
    BY <2>1, <2>3 DEF AtRest
  <2>5. ~Unended(f, m, c, k, h)
    <3>1. ~Taken(g, d, h) /\ j = 0 => ~Unended(f, m, c, k, h)
      BY DEF FedTo, Unended
    <3>2. ASSUME ~Taken(g, d, h), j # 0, Unended(f, m, c, k, h) PROVE FALSE
      <4>1. g.list = << >> /\ d = c
        BY <3>2 DEF FedTo
      <4> QED BY <3>2, <4>1 DEF Unended, AtRest, Taken
    <3> QED BY <2>1, <3>1, <3>2
  <2>6. FedTo(f, m, c, k, h, toks, j + 1, gg, dd, 1)
    BY <1>1, <2>4, <2>5 DEF FedTo
  <2> QED BY <1>1, <1>3, <2>3, <2>6 DEF gg, dd
<1>4. CASE /\ d <= n /\ i >= 1 /\ i < Length(m[d]) /\ IsTok(e, d, m[d], i + 1)
           /\ At(m, n, off, pos + j + 1, d, i + 1)
  <2>1. /\ FrameAt(gg, m, d, i + 1, h) /\ gg.list = g.list
        /\ i >= 2 => gg.rlen = g.rlen /\ gg.stat = g.stat /\ e.t \in {"body", "last"}
        /\ i = 1 => e.t = "header" /\ e.clen = m[d].clen
    <3>1. m[d] \in Msgs /\ i >= 1 /\ i < Length(m[d]) /\ IsTok(e, d, m[d], i + 1)
      BY <1>2, <1>4
    <3> QED BY <3>1, TokenRead
  <2> HIDE DEF gg
  <2>2. Taken(gg, d, h) <=> Taken(g, d, h)
    BY <2>1 DEF Taken
  <2>3. CASE Taken(g, d, h) /\ g.list = << >>
    <3>1. i >= 2
      BY <1>2, <2>3
    <3>2. CASE j = 0
      <4>1. e = toks[1] /\ g = f /\ d = c /\ i = k
        BY <3>2 DEF e, FedTo
      <4>2. Unended(f, m, c, k, h)
        BY <1>4, <2>3, <4>1 DEF Unended
      <4>3. FedTo(f, m, c, k, h, toks, j + 1, gg, d, i + 1)
        BY <1>1, <1>2, <2>1, <2>3, <3>1, <4>1, <4>2 DEF FedTo
      <4> QED BY <1>1, <1>4, <2>1, <4>3 DEF gg, e
    <3>3. CASE j # 0
      <4>1. Unended(f, m, c, k, h) /\ d = c /\ i >= k /\ g.rlen = f.rlen /\ g.stat = f.stat
            /\ toks[1].t \in {"body", "last"}
        BY <2>3, <3>3 DEF FedTo
      <4>2. i + 1 >= k
        BY <1>2, <4>1
      <4>3. FedTo(f, m, c, k, h, toks, j + 1, gg, d, i + 1)
        BY <1>1, <2>1, <2>3, <3>1, <4>1, <4>2 DEF FedTo
      <4> QED BY <1>1, <1>4, <2>1, <4>3 DEF gg, e
    <3> QED BY <3>2, <3>3
  <2>4. CASE ~(Taken(g, d, h) /\ g.list = << >>)
    <3>1. ~Taken(g, d, h) /\ ~Unended(f, m, c, k, h)
      <4>1. CASE j = 0
        <5>1. g = f /\ d = c /\ i = k /\ f.list = << >>
          BY <4>1 DEF FedTo, AtRest
        <5> QED BY <2>4, <5>1 DEF Unended
      <4>2. CASE j # 0
        <5>1. ~Unended(f, m, c, k, h)
          <6> SUFFICES ASSUME Unended(f, m, c, k, h) PROVE FALSE
            OBVIOUS
          <6>1. g.list = << >> /\ d = c
            BY <4>2 DEF FedTo
          <6> QED BY <2>4, <6>1 DEF Unended, AtRest, Taken
        <5> QED BY <4>2, <5>1 DEF FedTo
      <4> QED BY <4>1, <4>2
    <3>2. ASSUME m[d].clen = ChunkedBody PROVE SeenChunked(toks, j + 1)
      <4>1. CASE i = 1
        <5>1. toks[j + 1].t = "header" /\ toks[j + 1].clen = ChunkedBody /\ j + 1 \in 1 .. j + 1
          BY <2>1, <3>2, <4>1 DEF e
        <5> QED BY <5>1 DEF SeenChunked
      <4>2. CASE i # 1
        <5>1. i >= 2
          BY <1>2, <1>4, <4>2
        <5>2. j # 0
          <6> SUFFICES ASSUME j = 0 PROVE FALSE
            OBVIOUS
          <6>1. g = f /\ d = c /\ i = k /\ Len(f.list) = 0 /\ h = c
            BY <5>1, EmptySeq DEF FedTo, AtRest
          <6> QED BY <1>2, <3>1, <6>1 DEF Taken
        <5>3. SeenChunked(toks, j)
          BY <3>1, <3>2, <5>1, <5>2 DEF FedTo
        <5>4. \A a \in 1 .. j : a \in 1 .. j + 1
          OBVIOUS
        <5> QED BY <5>3, <5>4 DEF SeenChunked
      <4> QED BY <4>1, <4>2
    <3>3. FedTo(f, m, c, k, h, toks, j + 1, gg, d, i + 1)
      BY <1>1, <2>2, <3>1, <3>2 DEF FedTo
    <3> QED BY <1>1, <1>4, <2>1, <3>3 DEF gg, e
  <2> QED BY <2>3, <2>4
<1> QED BY <1>1, <1>3, <1>4, NextToken

(* What feedPacket() makes of a packet.                                      *)
LEMMA PacketFed ==
  ASSUME NEW s, NEW m, NEW n, NEW off, Laid(s, m, n, off), NEW pos \in Nat,
         NEW f, NEW c, NEW k, NEW h, FrameAt(f, m, c, k, h), AtRest(f, c, k, h),
         At(m, n, off, pos, c, k),
         NEW toks, DOMAIN toks = 1 .. Len(toks), Len(toks) \in Nat,
         pos + Len(toks) <= Len(s), \A i \in 1 .. Len(toks) : toks[i] = s[pos + i],
         ~EndsAndBegins(toks), ~QueuesChunked(toks)
  PROVE  LET g == FeedPacket(f, toks) IN
         \E d, i : /\ At(m, n, off, pos + Len(toks), d, i) /\ FrameAt(g, m, d, i, h)
                   /\ FedTo(f, m, c, k, h, toks, Len(toks), g, d, i)
<1>1. PICK v : FeedTrail(f, toks, v) /\ FeedPacket(f, toks) = v[Len(toks)]
  BY FeedIsTrail
<1> DEFINE P(j) == \E d, i : /\ At(m, n, off, pos + j, d, i) /\ FrameAt(v[j], m, d, i, h)
                             /\ FedTo(f, m, c, k, h, toks, j, v[j], d, i)
           T == {j \in Nat : j <= Len(toks) => P(j)}
<1>2. 0 \in T
  <2>1. v[0] = f /\ pos + 0 = pos
    BY <1>1 DEF FeedTrail
  <2>2. FedTo(f, m, c, k, h, toks, 0, v[0], c, k)
    BY <2>1 DEF FedTo
  <2>3. P(0)
    BY <2>1, <2>2
  <2> QED BY <2>3
<1>3. ASSUME NEW j \in T PROVE j + 1 \in T
  <2> SUFFICES ASSUME j + 1 <= Len(toks) PROVE P(j + 1)
    OBVIOUS
  <2>1. j \in Nat /\ P(j) /\ j + 1 \in 1 .. Len(toks) /\ j + 1 - 1 = j
    OBVIOUS
  <2>2. v[j + 1] = Parse(v[j], toks[j + 1])
    BY <1>1, <2>1 DEF FeedTrail
  <2>3. PICK d, i : /\ At(m, n, off, pos + j, d, i) /\ FrameAt(v[j], m, d, i, h)
                    /\ FedTo(f, m, c, k, h, toks, j, v[j], d, i)
    BY <2>1
  <2> HIDE DEF P
  <2>4. \E dd, ii : /\ At(m, n, off, pos + (j + 1), dd, ii)
                    /\ FrameAt(Parse(v[j], toks[j + 1]), m, dd, ii, h)
                    /\ FedTo(f, m, c, k, h, toks, j + 1, Parse(v[j], toks[j + 1]), dd, ii)
    <3>1. j \in Nat /\ j + 1 <= Len(toks)
      BY <2>1
    <3> QED BY ZenonT(60), <2>3, <3>1, FeedStep
  <2> QED BY <2>2, <2>4 DEF P
<1>4. T = Nat
  <2> HIDE DEF T
  <2>1. T \in SUBSET Nat
    BY DEF T
  <2> QED BY <1>2, <1>3, <2>1, NatSetInduction
<1>5. P(Len(toks))
  BY <1>4
<1> QED BY <1>1, <1>5

-----------------------------------------------------------------------------
(* fetchMsg() and fetchData().                                               *)

(* The messages received to some extent are messages.                        *)
Sane(m, c, k) ==
  /\ \A d \in 1 .. c : d < c \/ k >= 2 => m[d] \in Msgs
  /\ k >= 2 => k <= Length(m[c])

(* Units of the message whose header was fetched last that were handed out,  *)
(* when more of it is to come; and when nothing is.                          *)
Given(f) == IF f.list = << >> THEN f.rlen ELSE 0
Finished(f, m, c, k) ==
  f.list = << >> /\ f.body = << >> /\ f.rlen = m[c].units /\ k = Length(m[c])

HeaderFetched(f, m, c, k, h, x) ==
  /\ ~Taken(f, c, h) /\ h + 1 <= c /\ (h + 1 = c => k >= 2)
  /\ x.msg = [id |-> h + 1, clen |-> m[h + 1].clen] /\ x.failed = {}
  /\ x.res = IF m[h + 1].clen = 0 THEN "MSG_ONLY" ELSE "MSG_WITHDATA"
  /\ FrameAt(x.f, m, c, k, h + 1)
  /\ m[h + 1].clen = 0 => ~Taken(x.f, c, h + 1) \/ (Finished(x.f, m, c, k) /\ x.f.stat = {})
  /\ m[h + 1].clen # 0 => /\ Taken(x.f, c, h + 1) /\ Given(x.f) = 0
                          /\ x.f.list = << >> => "data" \in x.f.stat

LEMMA TailIs ==
  ASSUME NEW S, NEW q \in Seq(S), q # << >>
  PROVE  /\ Len(q) \in Nat \ {0} /\ Head(q) = q[1] /\ q[1] \in S /\ Tail(q) \in Seq(S)
         /\ Len(Tail(q)) = Len(q) - 1
         /\ \A i \in 1 .. Len(q) - 1 : Tail(q)[i] = q[i + 1]
<1>1. Len(q) \in Nat \ {0}
  BY EmptySeq
<1>2. 1 \in 1 .. Len(q) /\ q[1] \in S
  BY <1>1, ElementOfSeq
<1>3. Head(q) = q[1] /\ Tail(q) \in Seq(S) /\ Len(Tail(q)) = Len(q) - 1
      /\ \A i \in 1 .. Len(Tail(q)) : Tail(q)[i] = q[i + 1]
  BY HeadTailProperties
<1> QED BY <1>1, <1>2, <1>3

(* The first message of the list goes.                                       *)
LEMMA ListPopped ==
  ASSUME NEW f, NEW m, NEW c, NEW k, NEW h, NEW hh, FrameAt(f, m, c, k, h), f.list # << >>,
         NEW g, g = [f EXCEPT !.list = Tail(@)], hh = c - Len(f.list)
  PROVE  FrameAt(g, m, c, k, hh) /\ ~Taken(g, c, hh)
<1>1. /\ f \in Frames /\ c \in Nat \ {0} /\ k \in Nat /\ h \in Nat /\ f.list \in Seq(Entries)
      /\ Len(f.list) <= c - 1
  BY DEF FrameAt, Sized, Frames
<1>2. /\ Len(f.list) \in Nat \ {0} /\ Tail(f.list) \in Seq(Entries) /\ Len(Tail(f.list)) = Len(f.list) - 1
      /\ \A i \in 1 .. Len(f.list) - 1 : Tail(f.list)[i] = f.list[i + 1]
  BY <1>1, TailIs
<1>3. /\ g \in Frames /\ g.list = Tail(f.list) /\ g.msg = f.msg /\ g.body = f.body /\ g.clen = f.clen
      /\ g.rlen = f.rlen /\ g.stat = f.stat /\ g.ps = f.ps
  BY <1>1, <1>2 DEF Frames
<1>4. /\ Len(g.list) = Len(f.list) - 1 /\ hh = c - 1 - Len(g.list) /\ hh \in Nat /\ Len(g.list) <= c - 1
      /\ hh # c - Len(g.list)
  BY <1>1, <1>2, <1>3
<1>5. ~Taken(g, c, hh)
  BY <1>4 DEF Taken
<1>6. Sized(g, c, k, hh)
  BY <1>1, <1>3, <1>4, <1>5 DEF Sized
<1>7. Listed(g, m, c, hh)
  <2> SUFFICES ASSUME NEW i \in 1 .. Len(g.list)
               PROVE  Whole(g.list[i], m, c - 1 - Len(g.list) + i) /\ Waits(g.list[i], m, c - 1 - Len(g.list) + i)
    BY <1>5 DEF Listed
  <2>1. i + 1 \in 1 .. Len(f.list) /\ i + 1 # 1 /\ c - 1 - Len(g.list) + i = c - 1 - Len(f.list) + (i + 1)
        /\ i \in 1 .. Len(f.list) - 1
    <3>1. c \in Nat \ {0} /\ Len(f.list) \in Nat \ {0} /\ Len(g.list) = Len(f.list) - 1
      BY <1>1, <1>2, <1>4
    <3> QED BY <3>1
  <2>2. g.list[i] = f.list[i + 1]
    BY <1>2, <1>3, <2>1
  <2> QED BY <2>1, <2>2 DEF FrameAt, Listed
<1>8. Current(g, m, c, k, hh)
  BY <1>3, <1>5 DEF FrameAt, Current, Blank, Holds, Unread
<1> QED BY <1>5, <1>6, <1>7, <1>8 DEF FrameAt

LEMMA MsgFetched ==
  ASSUME NEW f, NEW m, NEW c, NEW k, NEW h, FrameAt(f, m, c, k, h), Sane(m, c, k),
         Status(f) = "FS_HDR"
  PROVE  HeaderFetched(f, m, c, k, h, FetchMsg(f))
<1>1. /\ f \in Frames /\ c \in Nat \ {0} /\ k \in Nat /\ h \in Nat /\ f.list \in Seq(Entries)
      /\ Len(f.list) <= c - 1 /\ f.body \in Seq(Nat) /\ f.msg \in MsgVals /\ f.stat \in Statuses
      /\ (h = c - 1 - Len(f.list) \/ Taken(f, c, h))
  BY DEF FrameAt, Sized, Frames
<1>2. CASE f.list = << >>
  <2>1. "hdr" \in f.stat /\ Len(f.list) = 0
    BY <1>2, EmptySeq DEF Status
  <2>2. k >= 2 /\ ~Taken(f, c, h)
    BY <1>1, <1>2, <2>1 DEF FrameAt, Current, Blank, Reading
  <2>3. h + 1 = c /\ c \in 1 .. c
    BY <1>1, <2>1, <2>2
  <2>4. m[c] \in Msgs /\ m[c].clen \in Int /\ m[c].units \in Nat
    BY <2>2, <2>3, LengthIs DEF Sane
  <2>5. Unread(f, m, c) /\ Holds(f, m, c, k)
    BY <1>2, <2>2 DEF FrameAt, Current
  <2> DEFINE g == [f EXCEPT !.msg = NoMsg, !.stat = @ \ {"hdr"}]
  <2>6. FetchMsg(f) = [msg |-> f.msg, res |-> IF f.clen = 0 THEN "MSG_ONLY" ELSE "MSG_WITHDATA",
                       f |-> g, failed |-> {}]
    BY <1>2 DEF FetchMsg
  <2>7. /\ g \in Frames /\ g.list = f.list /\ g.msg = NoMsg /\ g.body = f.body /\ g.clen = f.clen
        /\ g.rlen = f.rlen /\ g.stat = f.stat \ {"hdr"} /\ g.ps = f.ps
    <3>1. NoMsg \in MsgVals /\ f.stat \ {"hdr"} \in Statuses
      BY <1>1 DEF NoMsg, MsgVals, Statuses
    <3> QED BY <1>1, <3>1 DEF Frames
  <2> HIDE DEF g
  <2>8. /\ m[c].clen = 0 => g.stat = {}
        /\ m[c].clen # 0 => g.stat = {"data"}
    BY <2>5, <2>7 DEF Unread, Hdr
  <2>9. f.rlen = 0 /\ f.clen = m[c].clen /\ f.msg = [id |-> c, clen |-> m[c].clen]
    BY <2>5 DEF Unread, Holds
  <2>10. Reading(g, m, c)
    <3>1. m[c].clen # 0 => m[c].clen = ChunkedBody \/ 0 < m[c].clen
      BY <2>4, LengthIs
    <3>2. m[c].clen = 0 => m[c].clen # ChunkedBody /\ ~(0 < m[c].clen)
      BY DEF ChunkedBody
    <3> QED BY <2>7, <2>8, <2>9, <3>1, <3>2 DEF Reading
  <2>11. Taken(g, c, h + 1)
    <3>1. Len(g.list) = 0 /\ c \in Nat \ {0} /\ h + 1 = c
      BY <1>1, <2>1, <2>3, <2>7
    <3>2. h + 1 = c - Len(g.list)
      BY <3>1
    <3> QED BY <3>2 DEF Taken
  <2>12. Sized(g, c, k, h + 1)
    BY <1>1, <2>1, <2>2, <2>7, <2>11 DEF Sized
  <2>13. Listed(g, m, c, h + 1)
    <3>1. \A i \in 1 .. 0 : FALSE
      OBVIOUS
    <3> QED BY <2>1, <2>7, <3>1 DEF Listed
  <2>14. Current(g, m, c, k, h + 1)
    <3>1. Holds(g, m, c, k)
      BY <2>5, <2>7 DEF Holds
    <3>2. ~(k <= 1)
      BY <1>1, <2>2
    <3> QED BY <1>2, <2>7, <2>10, <2>11, <3>1, <3>2 DEF Current
  <2>15. FrameAt(g, m, c, k, h + 1)
    BY <2>12, <2>13, <2>14 DEF FrameAt
  <2>16. m[c].clen = 0 => Finished(g, m, c, k)
    <3> SUFFICES ASSUME m[c].clen = 0 PROVE Finished(g, m, c, k)
      OBVIOUS
    <3>1. m[c].units = 0 /\ Length(m[c]) = 2
      BY <2>4, LengthIs DEF ChunkedBody
    <3>2. k = 2 /\ UnitsIn(m[c], k) = 0
      <4>1. k <= Length(m[c])
        BY <2>2 DEF Sane
      <4> QED BY <1>1, <2>2, <3>1, <4>1 DEF UnitsIn
    <3>3. Len(f.body) = 0
      BY <1>1, <2>5, <2>9, <3>2, LenProperties DEF Holds
    <3>4. f.body = << >>
      BY <1>1, <3>3, EmptySeq
    <3> QED BY <1>2, <2>7, <2>9, <3>1, <3>2, <3>4 DEF Finished
  <2>17. Given(g) = 0 /\ (m[c].clen # 0 => "data" \in g.stat)
    BY <1>2, <2>7, <2>8, <2>9 DEF Given
  <2> QED BY <1>1, <2>2, <2>3, <2>6, <2>8, <2>9, <2>11, <2>15, <2>16, <2>17 DEF HeaderFetched
<1>3. CASE f.list # << >>
  <2> DEFINE e == f.list[1]
             n == Len(f.list)
  <2>1. n \in Nat \ {0} /\ Head(f.list) = e /\ e \in Entries /\ 1 \in 1 .. n
    <3>1. n \in Nat \ {0} /\ Head(f.list) = e /\ e \in Entries
      BY <1>1, <1>3, TailIs
    <3> QED BY <3>1
  <2>2. "hdr" \in e.stat
    BY <1>3, <2>1 DEF Status
  <2>3. ~Taken(f, c, h) /\ Whole(e, m, c - 1 - n + 1) /\ Waits(e, m, c - 1 - n + 1)
    BY <2>1, <2>2 DEF FrameAt, Listed, Begun
  <2>4. /\ c - 1 - n + 1 = h + 1 /\ h + 1 = c - n /\ h + 1 < c /\ h + 1 \in 1 .. c /\ h + 1 \in Nat
        /\ h + 1 <= c /\ h + 1 # c
    <3>1. n \in Nat \ {0} /\ c \in Nat \ {0} /\ h \in Nat /\ h = c - 1 - n
      BY <1>1, <2>1, <2>3
    <3> HIDE DEF n
    <3> QED BY <3>1
  <2>5. m[h + 1] \in Msgs /\ e.msg = [id |-> h + 1, clen |-> m[h + 1].clen] /\ e.stat = Hdr(m[h + 1])
        /\ m[h + 1].clen # ChunkedBody
    BY <2>3, <2>4 DEF Sane, Waits, Whole
  <2>6. CASE m[h + 1].clen = 0
    <3> DEFINE g == [f EXCEPT !.list = Tail(@)]
    <3>1. FetchMsg(f) = [msg |-> e.msg, res |-> "MSG_ONLY", f |-> g, failed |-> {}]
      <4>1. Head(f.list).msg = e.msg /\ e.msg.clen = 0
        BY <2>1, <2>5, <2>6
      <4> QED BY <1>3, <4>1 DEF FetchMsg
    <3>2. FrameAt(g, m, c, k, h + 1) /\ ~Taken(g, c, h + 1)
      BY <1>3, <2>4, ListPopped
    <3> HIDE DEF g
    <3> QED BY <2>3, <2>4, <2>5, <2>6, <3>1, <3>2 DEF HeaderFetched
  <2>7. CASE m[h + 1].clen # 0
    <3> DEFINE w == [e EXCEPT !.msg = NoMsg, !.stat = @ \ {"hdr"}]
               l == [f.list EXCEPT ![1] = w]
               g == [f EXCEPT !.list = l]
    <3>1. FetchMsg(f) = [msg |-> e.msg, res |-> "MSG_WITHDATA", f |-> g, failed |-> {}]
      <4>1. [f EXCEPT !.list[1].msg = NoMsg, !.list[1].stat = @ \ {"hdr"}] = g
        <5>1. w = [f.list[1] EXCEPT !.msg = NoMsg, !.stat = @ \ {"hdr"}]
          OBVIOUS
        <5> HIDE DEF w
        <5> QED BY Zenon, <5>1
      <4>2. Head(f.list).msg = e.msg /\ e.msg.clen # 0 /\ e.msg.clen # ChunkedBody
        BY <2>1, <2>5, <2>7
      <4> QED BY <1>3, <4>1, <4>2 DEF FetchMsg
    <3>2. w \in Entries /\ w.data = e.data /\ w.stat = {"data"}
      <4>1. e.stat \ {"hdr"} = {"data"} /\ {"data"} \in Statuses /\ NoMsg \in MsgVals /\ e \in Entries
        BY <2>1, <2>5, <2>7 DEF NoMsg, MsgVals, Statuses, Hdr
      <4> HIDE DEF e
      <4> QED BY <4>1 DEF Entries
    <3> HIDE DEF w
    <3>3. /\ l \in Seq(Entries) /\ Len(l) = n /\ l[1] = w /\ l # << >>
          /\ \A i \in 1 .. n : i # 1 => l[i] = f.list[i]
      <4>1. l \in Seq(Entries) /\ Len(l) = n /\ \A i \in 1 .. n : l[i] = IF i = 1 THEN w ELSE f.list[i]
        BY <1>1, <2>1, <3>2, ExceptSeq
      <4>2. l # << >>
        BY <2>1, <4>1, EmptySeq
      <4> QED BY <2>1, <4>1, <4>2
    <3> HIDE DEF l
    <3>4. /\ g \in Frames /\ g.list = l /\ g.msg = f.msg /\ g.body = f.body /\ g.clen = f.clen
          /\ g.rlen = f.rlen /\ g.stat = f.stat /\ g.ps = f.ps
      BY <1>1, <3>3 DEF Frames
    <3> HIDE DEF g
    <3>5. Taken(g, c, h + 1)
      BY <2>4, <3>3, <3>4 DEF Taken
    <3>6. Sized(g, c, k, h + 1)
      BY <1>1, <2>4, <3>3, <3>4, <3>5 DEF Sized
    <3>7. Listed(g, m, c, h + 1)
      <4> SUFFICES ASSUME NEW i \in 1 .. n
                   PROVE  /\ Whole(l[i], m, c - 1 - n + i)
                          /\ IF i = 1 THEN Begun(l[i], m, c - 1 - n + i) ELSE Waits(l[i], m, c - 1 - n + i)
        BY <3>3, <3>4, <3>5 DEF Listed
      <4>1. CASE i = 1
        BY <2>3, <2>4, <2>7, <3>2, <3>3, <4>1 DEF Whole, Begun
      <4>2. CASE i # 1
        BY <2>3, <3>3, <4>2 DEF FrameAt, Listed
      <4> QED BY <4>1, <4>2
    <3>8. Current(g, m, c, k, h + 1)
      BY <1>3, <3>3, <3>4 DEF FrameAt, Current, Blank, Holds, Unread
    <3>9. Given(g) = 0 /\ g.list # << >>
      BY <3>3, <3>4 DEF Given
    <3> QED BY <2>3, <2>5, <2>7, <3>1, <3>5, <3>6, <3>7, <3>8, <3>9, <2>4 DEF HeaderFetched, FrameAt
  <2> QED BY <2>6, <2>7
<1> QED BY <1>2, <1>3

(* fetchData() with a body to give, its end being reached or not.            *)
Drains(g, f, body, rlen, stat) ==
  /\ g \in Frames
  /\ g.ps = f.ps /\ g.msg = f.msg /\ g.body = body /\ g.clen = f.clen /\ g.rlen = rlen
  /\ g.stat = stat /\ g.list = f.list

LEMMA FieldsSet ==
  ASSUME NEW f \in Frames, NEW got \in Nat, NEW none \in Seq(Nat), NEW stat \in Statuses
  PROVE  /\ Drains([f EXCEPT !.rlen = got], f, f.body, got, f.stat)
         /\ Drains([f EXCEPT !.body = none], f, none, f.rlen, f.stat)
         /\ Drains([f EXCEPT !.stat = stat], f, f.body, f.rlen, stat)
<1>1. Drains([f EXCEPT !.rlen = got], f, f.body, got, f.stat)
  BY DEF Frames, Drains
<1>2. Drains([f EXCEPT !.body = none], f, none, f.rlen, f.stat)
  BY DEF Frames, Drains
<1>3. Drains([f EXCEPT !.stat = stat], f, f.body, f.rlen, stat)
  BY DEF Frames, Drains
<1> QED BY <1>1, <1>2, <1>3

LEMMA DrainedIs ==
  ASSUME NEW f \in Frames, NEW got \in Nat, NEW none \in Seq(Nat)
  PROVE  Drains([f EXCEPT !.rlen = got, !.body = none], f, none, got, f.stat)
<1> DEFINE g == [f EXCEPT !.rlen = got]
           x == [g EXCEPT !.body = none]
<1>1. [f EXCEPT !.rlen = got, !.body = none] = x
  OBVIOUS
<1>2. Drains(g, f, f.body, got, f.stat)
  BY FieldsSet DEF Frames
<1> HIDE DEF g
<1>3. g \in Frames
  BY <1>2 DEF Drains
<1>4. Drains(x, g, none, g.rlen, g.stat)
  BY <1>3, FieldsSet DEF Frames
<1> HIDE DEF x
<1>5. Drains(x, f, none, got, f.stat)
  BY <1>2, <1>4 DEF Drains
<1> QED BY <1>1, <1>5

LEMMA EndedIs ==
  ASSUME NEW f \in Frames, NEW got \in Nat, NEW none \in Seq(Nat)
  PROVE  Drains([f EXCEPT !.rlen = got, !.body = none, !.stat = @ \ {"data"}], f, none, got,
                f.stat \ {"data"})
<1> DEFINE g == [f EXCEPT !.rlen = got, !.body = none]
           stat == f.stat \ {"data"}
           x == [g EXCEPT !.stat = stat]
<1>1. [f EXCEPT !.rlen = got, !.body = none, !.stat = @ \ {"data"}] = x
  OBVIOUS
<1>2. Drains(g, f, none, got, f.stat)
  BY DrainedIs
<1>3. stat \in Statuses
  BY DEF Statuses, Frames
<1> HIDE DEF g, stat
<1>4. g \in Frames
  BY <1>2 DEF Drains
<1>5. Drains(x, g, g.body, g.rlen, stat)
  BY <1>3, <1>4, FieldsSet DEF Frames
<1> HIDE DEF x
<1>6. Drains(x, f, none, got, stat)
  BY <1>2, <1>5 DEF Drains
<1> QED BY <1>1, <1>6 DEF stat

DataFetched(f, m, c, k, h, x) ==
  /\ Taken(f, c, h) /\ x.failed = {} /\ FrameAt(x.f, m, c, k, h)
  /\ h >= 1 /\ x.data \in Seq(Nat) /\ AllOf(x.data, h) /\ m[h].clen # 0
  /\ x.data = << >> => x.f = f /\ f.list = << >> /\ f.body = << >>
  /\ x.res = "MSG_DATA_END" =>
       /\ Given(f) + Len(x.data) = m[h].units
       /\ ~Taken(x.f, c, h) \/ (Finished(x.f, m, c, k) /\ (x.data # << >> => x.f.stat = {}))
  /\ x.res # "MSG_DATA_END" =>
       /\ Taken(x.f, c, h) /\ f.list = << >> /\ x.f.list = << >> /\ "data" \in x.f.stat
       /\ Given(x.f) = Given(f) + Len(x.data)
       /\ x.data = << >> => x.res = "MSG_DATA_EMPTY" /\ k # Length(m[c])
       /\ x.data # << >> => x.res = "MSG_DATA"

LEMMA PartFetched ==
  ASSUME NEW f, NEW m, NEW c, NEW k, NEW h, FrameAt(f, m, c, k, h), Sane(m, c, k),
         Status(f) = "FS_DATA"
  PROVE  DataFetched(f, m, c, k, h, FetchData(f))
<1>1. /\ f \in Frames /\ c \in Nat \ {0} /\ k \in Nat /\ h \in Nat /\ f.list \in Seq(Entries)
      /\ Len(f.list) <= c - 1 /\ f.body \in Seq(Nat) /\ f.msg \in MsgVals /\ f.stat \in Statuses
      /\ f.rlen \in Nat /\ f.clen \in Int
      /\ (h = c - 1 - Len(f.list) \/ Taken(f, c, h))
  BY DEF FrameAt, Sized, Frames
<1>2. CASE f.list # << >>
  <2> DEFINE e == f.list[1]
             n == Len(f.list)
  <2>1. n \in Nat \ {0} /\ Head(f.list) = e /\ e \in Entries /\ 1 \in 1 .. n
    <3>1. n \in Nat \ {0} /\ Head(f.list) = e /\ e \in Entries
      BY <1>1, <1>2, TailIs
    <3> QED BY <3>1
  <2>2. "hdr" \notin e.stat /\ "data" \in e.stat
    BY <1>2, <2>1 DEF Status
  <2>3. Taken(f, c, h) /\ Whole(e, m, c - 1 - n + 1) /\ Begun(e, m, c - 1 - n + 1)
    BY <2>1, <2>2 DEF FrameAt, Listed, Waits, Hdr
  <2>4. c - 1 - n + 1 = h /\ h = c - n /\ h >= 1 /\ h < c /\ h \in 1 .. c
    <3>1. n \in Nat \ {0} /\ c \in Nat \ {0} /\ h = c - n /\ n <= c - 1
      BY <1>1, <2>1, <2>3 DEF Taken
    <3> HIDE DEF n
    <3> QED BY <3>1
  <2>5. m[h] \in Msgs /\ m[h].clen # ChunkedBody /\ m[h].clen # 0 /\ Len(e.data) = m[h].units
        /\ AllOf(e.data, h) /\ e.data \in Seq(Nat)
    BY <2>1, <2>3, <2>4 DEF Sane, Whole, Begun, Entries
  <2>6. Len(e.data) # 0 /\ e.data # << >> /\ m[h].units \in Nat
    <3>1. m[h].units # 0 /\ m[h].units \in Nat
      BY <2>5, LengthIs
    <3> QED BY <2>5, <3>1, EmptySeq
  <2> DEFINE g == [f EXCEPT !.list = Tail(@)]
  <2>7. FetchData(f) = [data |-> e.data, res |-> "MSG_DATA_END", f |-> g, failed |-> {}]
    BY <1>2, <2>1 DEF FetchData
  <2>8. FrameAt(g, m, c, k, h) /\ ~Taken(g, c, h)
    BY <1>2, <2>4, ListPopped
  <2>9. Given(f) + Len(e.data) = m[h].units
    BY <1>2, <2>5, <2>6 DEF Given
  <2> HIDE DEF g, e, n
  <2> QED BY <2>3, <2>4, <2>5, <2>6, <2>7, <2>8, <2>9 DEF DataFetched
<1>3. CASE f.list = << >>
  <2>1. "hdr" \notin f.stat /\ "data" \in f.stat /\ Len(f.list) = 0 /\ f.stat # {}
    BY <1>3, EmptySeq DEF Status
  <2>2. k >= 2 /\ Taken(f, c, h)
    BY <1>1, <1>3, <2>1 DEF FrameAt, Current, Blank, Unread, Hdr
  <2>3. h = c /\ h >= 1
    <3>1. h = c - 0
      BY <2>1, <2>2 DEF Taken
    <3> QED BY <1>1, <3>1
  <2>4. /\ m[c] \in Msgs /\ m[c].clen \in Int /\ m[c].units \in Nat /\ k <= Length(m[c])
        /\ Length(m[c]) \in Nat
        /\ m[c].clen = ChunkedBody => Length(m[c]) = 3 + m[c].units /\ m[c].clen = -1
        /\ m[c].clen # ChunkedBody => Length(m[c]) = 2 + m[c].units /\ m[c].clen = m[c].units
        /\ UnitsIn(m[c], Length(m[c])) = m[c].units
    <3>1. m[c] \in Msgs /\ k <= Length(m[c])
      BY <1>1, <2>2 DEF Sane
    <3> QED BY <3>1, LengthIs
  <2>5. Holds(f, m, c, k) /\ Reading(f, m, c)
    BY <1>3, <2>2 DEF FrameAt, Current
  <2> DEFINE got == f.rlen + Len(f.body)
  <2>6. /\ f.clen = m[c].clen /\ AllOf(f.body, c) /\ got = UnitsIn(m[c], k) /\ got \in Nat
        /\ Len(f.body) \in Nat /\ (f.ps = "END" <=> k = Length(m[c])) /\ f.msg = NoMsg
    BY <1>1, <2>5, LenProperties DEF Holds, Reading
  <2>7. m[c].clen = ChunkedBody \/ f.rlen < m[c].clen
    BY <2>1, <2>5 DEF Reading
  <2>8. f.clen # 0 /\ (m[c].clen # ChunkedBody => m[c].clen > 0)
    BY SMTT(30), <1>1, <2>4, <2>6, <2>7 DEF ChunkedBody
  <2>9. got <= m[c].units /\ (m[c].clen # ChunkedBody /\ got = m[c].units => k = Length(m[c]))
    BY SMTT(30), <1>1, <2>2, <2>4, <2>6, <2>8 DEF UnitsIn
  <2>10. Given(f) = f.rlen
    BY <1>3 DEF Given
  <2> HIDE DEF got
  <2>11. CASE f.body = << >>
    <3>1. FetchData(f) = [data |-> << >>, f |-> f, failed |-> {},
            res |-> IF f.clen = ChunkedBody /\ f.ps = "END" THEN "MSG_DATA_END" ELSE "MSG_DATA_EMPTY"]
      BY <1>3, <2>8, <2>11 DEF FetchData
    <3>2. Len(f.body) = 0 /\ f.rlen = got /\ Len(<< >>) = 0
      BY <1>1, <2>11, EmptySeq DEF got
    <3>3. << >> \in Seq(Nat) /\ AllOf(<< >>, h)
      BY <2>6, <2>3, <2>11, <1>1
    <3>4. CASE f.clen = ChunkedBody /\ f.ps = "END"
      <4>1. k = Length(m[c]) /\ f.rlen = m[c].units
        BY <2>4, <2>6, <3>2, <3>4
      <4>2. Finished(f, m, c, k)
        BY <1>3, <2>11, <4>1 DEF Finished
      <4>3. Given(f) + 0 = m[h].units
        BY <2>3, <2>4, <2>10, <4>1
      <4>4. FetchData(f) = [data |-> << >>, f |-> f, failed |-> {}, res |-> "MSG_DATA_END"]
        BY <3>1, <3>4
      <4> QED BY <1>3, <2>2, <2>3, <2>6, <2>8, <2>11, <3>2, <3>3, <4>2, <4>3, <4>4 DEF DataFetched
    <3>5. CASE ~(f.clen = ChunkedBody /\ f.ps = "END")
      <4>1. k # Length(m[c])
        <5>1. f.clen = ChunkedBody => k # Length(m[c])
          BY <2>6, <3>5
        <5>2. f.clen # ChunkedBody => got # m[c].units
          BY <2>4, <2>6, <2>7, <3>2
        <5> QED BY <2>4, <2>6, <5>1, <5>2
      <4>2. Given(f) + 0 = Given(f)
        BY <1>1, <2>10
      <4>4. FetchData(f) = [data |-> << >>, f |-> f, failed |-> {}, res |-> "MSG_DATA_EMPTY"]
        BY <3>1, <3>5
      <4> QED BY <1>3, <2>1, <2>2, <2>3, <2>6, <2>8, <2>11, <3>2, <3>3, <4>1, <4>2, <4>4 DEF DataFetched
    <3> QED BY <3>4, <3>5
  <2>12. CASE f.body # << >>
    <3> DEFINE ends == f.clen > 0 /\ got >= f.clen
               stat == IF ends THEN {} ELSE {"data"}
               none == << >>
               g == IF ends THEN [f EXCEPT !.rlen = got, !.body = none, !.stat = @ \ {"data"}]
                    ELSE [f EXCEPT !.rlen = got, !.body = none]
    <3>1. ends <=> m[c].clen # ChunkedBody /\ got = m[c].units
      BY <2>4, <2>6, <2>8, <2>9
    <3>2. f.stat = {"data"}
      BY <2>1, <2>5 DEF Reading
    <3>3. FetchData(f) = [data |-> f.body, res |-> IF ends THEN "MSG_DATA_END" ELSE "MSG_DATA",
                          f |-> g, failed |-> {}]
      <4>1. CASE ends
        <5>1. got = f.clen
          BY <2>4, <2>6, <3>1, <4>1
        <5>2. [f EXCEPT !.rlen = got, !.body = none, !.stat = @ \ {"data"}] = g
          BY <4>1
        <5>3. f.clen > 0 /\ f.rlen + Len(f.body) >= f.clen /\ f.rlen + Len(f.body) = f.clen
          BY <4>1, <5>1 DEF got
        <5> HIDE DEF g, ends
        <5> QED BY <1>3, <2>12, <4>1, <5>2, <5>3 DEF FetchData, got
      <4>2. CASE ~ends
        <5>1. [f EXCEPT !.rlen = got, !.body = none] = g
          BY <4>2
        <5>2. ~(f.clen > 0 /\ f.rlen + Len(f.body) >= f.clen)
          BY <4>2 DEF got
        <5> HIDE DEF g, ends
        <5> QED BY <1>3, <2>8, <2>12, <4>2, <5>1, <5>2 DEF FetchData, got
      <4> QED BY <4>1, <4>2
    <3>4. /\ g \in Frames /\ g.list = f.list /\ g.msg = f.msg /\ g.body = << >> /\ g.clen = f.clen
          /\ g.rlen = got /\ g.stat = stat /\ g.ps = f.ps
      <4>1. none \in Seq(Nat) /\ none = << >>
        OBVIOUS
      <4> HIDE DEF none, ends
      <4>2. CASE ends
        <5>1. g = [f EXCEPT !.rlen = got, !.body = none, !.stat = @ \ {"data"}] /\ stat = f.stat \ {"data"}
          BY <3>2, <4>2
        <5> HIDE DEF g, stat
        <5>2. Drains(g, f, none, got, f.stat \ {"data"})
          BY <1>1, <2>6, <4>1, <5>1, EndedIs
        <5> QED BY <4>1, <5>1, <5>2 DEF Drains
      <4>3. CASE ~ends
        <5>1. g = [f EXCEPT !.rlen = got, !.body = none] /\ stat = f.stat
          BY <3>2, <4>3
        <5> HIDE DEF g, stat
        <5>2. Drains(g, f, none, got, f.stat)
          BY <1>1, <2>6, <4>1, <5>1, DrainedIs
        <5> QED BY <4>1, <5>1, <5>2 DEF Drains
      <4> QED BY <4>2, <4>3
    <3> HIDE DEF g, ends
    <3>5. Taken(g, c, h)
      BY <2>2, <3>4 DEF Taken
    <3>6. Sized(g, c, k, h)
      BY <2>2, <3>4, <3>5 DEF FrameAt, Sized
    <3>7. Listed(g, m, c, h)
      <4>1. \A i \in 1 .. 0 : FALSE
        OBVIOUS
      <4> QED BY <2>1, <3>4, <4>1 DEF Listed
    <3>8. Holds(g, m, c, k)
      <4>1. Len(<< >>) = 0 /\ got + 0 = got /\ \A i \in 1 .. 0 : FALSE
        BY <2>6, EmptySeq
      <4> QED BY <2>6, <3>4, <4>1 DEF Holds, AllOf
    <3>9. Reading(g, m, c)
      <4>1. ends <=> ~(m[c].clen = ChunkedBody \/ got < m[c].clen)
        BY <2>4, <2>6, <2>9, <3>1
      <4> QED BY <2>6, <3>4, <4>1 DEF Reading
    <3>10. Current(g, m, c, k, h)
      BY <1>1, <1>3, <2>2, <3>4, <3>5, <3>8, <3>9 DEF Current
    <3>11. FrameAt(g, m, c, k, h)
      BY <3>6, <3>7, <3>10 DEF FrameAt
    <3>12. ends => Finished(g, m, c, k) /\ g.stat = {} /\ Given(f) + Len(f.body) = m[h].units
      BY <1>3, <2>3, <2>9, <2>10, <3>1, <3>4 DEF Finished, got
    <3>13. ~ends => "data" \in g.stat /\ Given(g) = Given(f) + Len(f.body)
      BY <1>3, <2>10, <3>4 DEF Given, got
    <3>14. m[h].clen # 0 /\ AllOf(f.body, h) /\ f.body \in Seq(Nat) /\ g.list = << >>
      BY <1>1, <1>3, <2>3, <2>6, <2>8, <3>4
    <3>15. CASE ends
      <4>1. FetchData(f) = [data |-> f.body, res |-> "MSG_DATA_END", f |-> g, failed |-> {}]
        BY <3>3, <3>15
      <4> QED BY <2>2, <2>3, <2>12, <3>11, <3>12, <3>14, <3>15, <4>1 DEF DataFetched
    <3>16. CASE ~ends
      <4>1. FetchData(f) = [data |-> f.body, res |-> "MSG_DATA", f |-> g, failed |-> {}]
        BY <3>3, <3>16
      <4> QED BY <1>3, <2>2, <2>3, <2>12, <3>5, <3>11, <3>13, <3>14, <3>16, <4>1 DEF DataFetched
    <3> QED BY <3>15, <3>16
  <2> QED BY <2>11, <2>12
<1> QED BY <1>2, <1>3

(* When status() says that nothing is to be fetched.                         *)
LEMMA NothingLeft ==
  ASSUME NEW f, NEW m, NEW c, NEW k, NEW h, FrameAt(f, m, c, k, h), Sane(m, c, k),
         Status(f) = "FS_NONE"
  PROVE  AtRest(f, c, k, h) /\ f.list = << >> /\ f.stat \cap {"hdr", "data"} = {}
<1>1. /\ f \in Frames /\ c \in Nat \ {0} /\ k \in Nat /\ h \in Nat /\ f.list \in Seq(Entries)
      /\ f.body \in Seq(Nat) /\ f.stat \in Statuses /\ f.rlen \in Nat /\ f.clen \in Int
      /\ (h = c - 1 - Len(f.list) \/ Taken(f, c, h))
  BY DEF FrameAt, Sized, Frames
<1>2. f.list = << >>
  <2> SUFFICES ASSUME f.list # << >> PROVE FALSE
    OBVIOUS
  <2>1. Head(f.list) = f.list[1] /\ 1 \in 1 .. Len(f.list)
    <3>1. Len(f.list) \in Nat \ {0} /\ Head(f.list) = f.list[1]
      BY <1>1, TailIs
    <3> QED BY <3>1
  <2>2. f.list[1].stat \cap {"hdr", "data"} # {}
    BY <2>1 DEF FrameAt, Listed, Waits, Begun, Hdr
  <2> QED BY <2>1, <2>2 DEF Status
<1>3. "hdr" \notin f.stat /\ "data" \notin f.stat
  BY <1>2 DEF Status
<1>4. ASSUME k >= 2 PROVE h = c /\ f.body = << >>
  <2>1. Taken(f, c, h) /\ Reading(f, m, c) /\ Holds(f, m, c, k)
    BY <1>2, <1>3, <1>4 DEF FrameAt, Current, Unread, Hdr
  <2>2. h = c
    <3>1. h = c - 0
      BY <1>2, <2>1, EmptySeq DEF Taken
    <3> QED BY <1>1, <3>1
  <2>3. ~(m[c].clen = ChunkedBody \/ f.rlen < m[c].clen)
    BY <1>3, <2>1 DEF Reading
  <2>4. m[c] \in Msgs /\ m[c].clen = m[c].units /\ m[c].units \in Nat
    <3>1. m[c] \in Msgs
      BY <1>1, <1>4 DEF Sane
    <3> QED BY <2>3, <3>1, LengthIs
  <2>5. f.rlen + Len(f.body) = UnitsIn(m[c], k) /\ Len(f.body) \in Nat
    BY <1>1, <2>1, LenProperties DEF Holds
  <2>6. UnitsIn(m[c], k) <= m[c].units
    BY <1>1, <2>4 DEF UnitsIn
  <2>7. Len(f.body) = 0
    <3>1. f.rlen \in Nat /\ m[c].clen <= f.rlen /\ f.rlen + Len(f.body) <= m[c].units
      BY <1>1, <2>3, <2>4, <2>5, <2>6
    <3> QED BY <2>4, <2>5, <3>1
  <2> QED BY <1>1, <2>2, <2>7, EmptySeq
<1> QED BY <1>2, <1>3, <1>4 DEF AtRest

-----------------------------------------------------------------------------
(* The offsets of messages laid end to end grow.                             *)
LEMMA OffsetsGrow ==
  ASSUME NEW m, NEW n \in Nat, NEW off \in [1 .. n + 1 -> Nat],
         \A c \in 1 .. n : Length(m[c]) \in Nat /\ off[c + 1] = off[c] + Length(m[c])
  PROVE  \A c \in 1 .. n, d \in 1 .. n + 1 : c < d => off[c] + Length(m[c]) <= off[d]
<1> DEFINE len(c) == Length(m[c])
           T == {d \in Nat : d <= n + 1 => \A c \in 1 .. n : c < d => off[c] + len(c) <= off[d]}
<1>0. \A c \in 1 .. n : len(c) \in Nat /\ off[c + 1] = off[c] + len(c)
  OBVIOUS
<1> HIDE DEF len
<1>1. T = Nat
  <2>1. 0 \in T
    OBVIOUS
  <2>2. ASSUME NEW d \in T PROVE d + 1 \in T
    <3> SUFFICES ASSUME d + 1 <= n + 1, NEW c \in 1 .. n, c < d + 1
                 PROVE  off[c] + len(c) <= off[d + 1]
      OBVIOUS
    <3>1. CASE c = d
      <4>1. off[d + 1] = off[c] + len(c) /\ off[c] \in Nat /\ len(c) \in Nat
        <5>1. c \in 1 .. n + 1
          OBVIOUS
        <5> QED BY <1>0, <3>1, <5>1
      <4>2. off[c] + len(c) <= off[c] + len(c)
        BY <4>1
      <4> QED BY <4>1, <4>2
    <3>2. CASE c # d
      <4>1. d \in 1 .. n /\ c < d /\ c \in 1 .. n + 1 /\ d \in 1 .. n + 1 /\ d + 1 \in 1 .. n + 1
        BY <3>2
      <4>2. off[c] + len(c) <= off[d] /\ off[d + 1] = off[d] + len(d) /\ len(d) \in Nat /\ len(c) \in Nat
        BY SMTT(30), <1>0, <4>1
      <4>3. off[d] \in Nat /\ off[c] \in Nat
        BY <4>1
      <4>4. \A a, b, x, y \in Nat : a + b <= x => a + b <= x + y
        OBVIOUS
      <4>5. off[c] + len(c) <= off[d] + len(d)
        BY <4>2, <4>3, <4>4
      <4> QED BY <4>2, <4>5
    <3> QED BY <3>1, <3>2
  <2> HIDE DEF T
  <2>3. T \in SUBSET Nat
    BY DEF T
  <2> QED BY <2>1, <2>2, <2>3, NatSetInduction
<1>2. ASSUME NEW c \in 1 .. n, NEW d \in 1 .. n + 1, c < d PROVE off[c] + len(c) <= off[d]
  <2>1. d \in T /\ d <= n + 1
    <3>1. d \in Nat /\ d <= n + 1
      OBVIOUS
    <3> HIDE DEF T
    <3> QED BY <1>1, <3>1
  <2> QED BY <1>2, <2>1
<1> QED BY <1>2 DEF len

(* The first n messages of m, and nothing after them.                        *)
LaidWhole(s, m, n) == s \in Seq(TokenVals) /\ \E off : Laid(s, m, n, off) /\ Len(s) = off[n + 1]

(* One more message at the end.                                              *)
LEMMA LaidOn ==
  ASSUME NEW s, NEW m, NEW n \in Nat, LaidWhole(s, m, n), m[n + 1] \in Msgs,
         NEW t, t = MsgTokens(n + 1, m[n + 1].clen, m[n + 1].units)
  PROVE  LaidWhole(s \o t, m, n + 1)
<1>13. PICK off : Laid(s, m, n, off) /\ Len(s) = off[n + 1]
  BY DEF LaidWhole
<1>14. s \in Seq(TokenVals)
  BY DEF LaidWhole
<1> USE <1>13, <1>14
<1> DEFINE l == Length(m[n + 1])
           len(c) == Length(m[c])
           on == [c \in 1 .. n + 2 |-> IF c = n + 2 THEN off[n + 1] + l ELSE off[c]]
           st == s \o t
<1>1. l \in Nat /\ n + 1 \in Nat /\ n + 1 + 1 = n + 2 /\ l = len(n + 1)
  BY LengthIs
<1>2. t \in Seq(TokenVals) /\ Len(t) = l /\ \A k \in 1 .. l : IsTok(t[k], n + 1, m[n + 1], k)
  <2>1. t \in Seq(TokenVals) /\ Len(t) = l /\ \A k \in 1 .. l : t[k] = TokAt(n + 1, m[n + 1], k)
    BY <1>1, TokensAre
  <2> QED BY <2>1, TokAtIs
<1>3. /\ st \in Seq(TokenVals) /\ Len(st) = Len(s) + Len(t)
      /\ \A i \in 1 .. Len(s) + Len(t) : st[i] = IF i <= Len(s) THEN s[i] ELSE t[i - Len(s)]
  BY <1>2, ConcatProperties
<1>4. /\ off \in [1 .. n + 1 -> Nat] /\ off[1] = 0
      /\ \A c \in 1 .. n : /\ m[c] \in Msgs /\ off[c + 1] = off[c] + len(c)
                           /\ \A k \in 1 .. len(c) : IsTok(s[off[c] + k], c, m[c], k)
  BY DEF Laid
<1>5. \A c \in 1 .. n : len(c) \in Nat
  BY <1>4, LengthIs
<1> HIDE DEF l, len, st
<1>6. off[n + 1] \in Nat /\ \A c \in 1 .. n + 1 : off[c] \in Nat
  <2>1. n + 1 \in 1 .. n + 1
    OBVIOUS
  <2> QED BY <1>4, <2>1
<1>7. \A c \in 1 .. n : off[c] + len(c) <= off[n + 1]
  <2>1. \A c \in 1 .. n : Length(m[c]) \in Nat /\ off[c + 1] = off[c] + Length(m[c])
    BY <1>4, <1>5 DEF len
  <2>2. \A c \in 1 .. n, d \in 1 .. n + 1 : c < d => off[c] + Length(m[c]) <= off[d]
    BY <1>4, <2>1, OffsetsGrow
  <2>3. n + 1 \in 1 .. n + 1 /\ \A c \in 1 .. n : c < n + 1
    OBVIOUS
  <2> QED BY <2>2, <2>3 DEF len
<1>8. /\ on \in [1 .. n + 2 -> Nat] /\ on[1] = 0 /\ on[n + 2] = off[n + 1] + l
      /\ \A c \in 1 .. n + 1 : on[c] = off[c]
  BY <1>1, <1>4, <1>6
<1> HIDE DEF on
<1>9. Len(st) = on[n + 2] /\ Len(s) = off[n + 1]
  BY <1>2, <1>3, <1>8
<1>10. ASSUME NEW c \in 1 .. n + 1
       PROVE  /\ m[c] \in Msgs /\ on[c + 1] = on[c] + len(c)
              /\ \A k \in 1 .. len(c) : IsTok(st[on[c] + k], c, m[c], k)
  <2>1. CASE c \in 1 .. n
    <3>1. on[c + 1] = off[c + 1] /\ on[c] = off[c]
      <4>1. c + 1 \in 1 .. n + 1
        BY <2>1
      <4> QED BY <1>8, <4>1
    <3>2. ASSUME NEW k \in 1 .. len(c) PROVE st[on[c] + k] = s[off[c] + k]
      <4>1. off[c] \in Nat /\ len(c) \in Nat /\ off[c] + len(c) <= off[n + 1]
        BY <1>5, <1>6, <1>7, <2>1
      <4>2. off[c] + k \in 1 .. Len(s) + Len(t) /\ off[c] + k <= Len(s)
        BY SMTT(30), <1>1, <1>2, <1>6, <1>9, <4>1
      <4> QED BY <1>3, <3>1, <4>2
    <3> QED BY <1>4, <2>1, <3>1, <3>2
  <2>2. CASE c = n + 1
    <3>1. ASSUME NEW k \in 1 .. l PROVE st[on[c] + k] = t[k]
      <4>1. on[c] = Len(s) /\ Len(s) \in Nat
        BY <1>6, <1>8, <1>9, <2>2
      <4> DEFINE j == on[c] + k
      <4>2. j = Len(s) + k /\ Len(t) \in Nat /\ k \in 1 .. Len(t)
        BY <1>1, <1>2, <4>1
      <4> HIDE DEF j
      <4>3. j \in 1 .. Len(s) + Len(t) /\ ~(j <= Len(s)) /\ j - Len(s) = k
        BY <4>1, <4>2
      <4>4. st[j] = t[k]
        BY <1>3, <4>3
      <4> QED BY <4>4 DEF j
    <3> QED BY <1>1, <1>2, <1>8, <2>2, <3>1
  <2> QED BY <2>1, <2>2
<1>11. Laid(st, m, n + 1, on)
  <2>1. n + 1 \in Nat /\ n + 1 + 1 = n + 2
    OBVIOUS
  <2> QED BY <1>8, <1>9, <1>10, <2>1 DEF Laid, len
<1>12. LaidWhole(st, m, n + 1)
  <2>1. on[n + 2] = on[n + 1 + 1]
    BY <1>1
  <2> QED BY <1>3, <1>9, <1>11, <2>1 DEF LaidWhole
<1> QED BY <1>12 DEF st

(* The first token of one more request may follow.                           *)
LEMMA LaidBegun ==
  ASSUME NEW s \in Seq(TokenVals), NEW m, NEW n \in Nat, NEW off, Laid(s, m, n, off), Len(s) = off[n + 1],
         NEW t \in TokenVals, Begins(t)
  PROVE  s \o <<t>> \in Seq(TokenVals) /\ Laid(s \o <<t>>, m, n, off)
<1> DEFINE st == s \o <<t>>
           len(c) == Length(m[c])
<1>1. st \in Seq(TokenVals) /\ Len(st) = Len(s) + 1 /\ st[Len(s) + 1] = t
      /\ \A i \in 1 .. Len(s) : st[i] = s[i]
  <2>1. st = Append(s, t)
    OBVIOUS
  <2> QED BY <2>1, AppendProperties
<1>2. /\ off \in [1 .. n + 1 -> Nat] /\ off[1] = 0
      /\ \A c \in 1 .. n : /\ m[c] \in Msgs /\ off[c + 1] = off[c] + len(c)
                           /\ \A k \in 1 .. len(c) : IsTok(s[off[c] + k], c, m[c], k)
  BY DEF Laid
<1>3. \A c \in 1 .. n : len(c) \in Nat
  BY <1>2, LengthIs
<1>4. \A c \in 1 .. n : off[c] + len(c) <= off[n + 1]
  <2>1. \A c \in 1 .. n, d \in 1 .. n + 1 : c < d => off[c] + Length(m[c]) <= off[d]
    BY <1>2, <1>3, OffsetsGrow
  <2>2. n + 1 \in 1 .. n + 1 /\ \A c \in 1 .. n : c < n + 1
    OBVIOUS
  <2> QED BY <2>1, <2>2
<1> HIDE DEF st, len
<1>5. ASSUME NEW c \in 1 .. n, NEW k \in 1 .. len(c) PROVE IsTok(st[off[c] + k], c, m[c], k)
  <2>1. off[c] \in Nat /\ len(c) \in Nat /\ off[c] + len(c) <= Len(s) /\ Len(s) \in Nat
    <3>1. c \in 1 .. n + 1
      OBVIOUS
    <3> QED BY <1>2, <1>3, <1>4, <3>1, LenProperties
  <2> DEFINE j == off[c] + k
  <2>2. j \in 1 .. Len(s)
    BY <2>1
  <2>3. IsTok(s[j], c, m[c], k)
    BY <1>2
  <2> HIDE DEF j
  <2>4. st[j] = s[j]
    BY <1>1, <2>2
  <2> QED BY <2>3, <2>4 DEF j
<1> QED BY <1>1, <1>2, <1>5 DEF Laid, st, len
=============================================================================
