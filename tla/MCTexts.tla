------------------------------- MODULE MCTexts -------------------------------
(* Texts for TextParsers and HttpHeads, which stand side by side: what one   *)
(* of them does is checked with the other in its initial state.              *)
EXTENDS TextParsers, HttpHeads

(* URLs with every combination of parts that a URL may have, later parts     *)
(* holding the delimiters of earlier ones.                                   *)
SomeUrls ==
  LET parts == [scheme : {"", "http", "rtsp"}, userName : {"", "u"}, hostName : {"", "h.x"}, port : {"", "8080"},
                path : {"", "/", "/a", "/a:b@c/d/"}, query : {"", "k=v", "p=a?b/c:d@e"}, fragment : {"", "f#?/"}]
  IN {u \in parts : /\ (u.scheme = "") = (u.hostName = "")
                    /\ u.scheme = "" => u.userName = "" /\ u.port = "" /\ u.path # ""
                    /\ u.query = "" => u.fragment = ""}

SomePairs == {<<k, v>> : k \in {"", "k", "a b&=", "%41+"}, v \in {"", "1", "x=y&z", "~`'/ "}}

SomeOffsets == {0, 1, 9, 10, 205}

Line(type, text, means) == [type |-> type, text |-> text, means |-> means]
Attr(name, val) == [first |-> name, second |-> val]
SomeLines ==
  {Line("v", "0", 0), Line("s", "a b", "a b"), Line("i", "x=1", "x=1"), Line("b", "AS:64", ""),
   Line("o", "- 12 34 IN IP4 10.0.0.1",
        [userName |-> "-", sessId |-> "12", sessVer |-> 34, nettype |-> "IN", addrtype |-> "IP4", addr |-> "10.0.0.1"]),
   Line("c", "IN IP4 224.2.1.1/127", <<"IN", "IP4", "224.2.1.1">>), Line("t", "10 20", <<10, 20>>),
   Line("m", "audio 4900 RTP/AVP 0 96", [NewMedia EXCEPT !.media = "audio", !.port = 4900, !.proto = "RTP/AVP", !.formats = <<0, 96>>]),
   Line("m", "video 50/2 UDP 31", [NewMedia EXCEPT !.media = "video", !.port = 50, !.port_num = 2, !.proto = "UDP", !.formats = <<31>>]),
   Line("a", "rtpmap:96 L8/8000", Attr("rtpmap", "96 L8/8000")), Line("a", "ptime", Attr("ptime", ""))}

SomeHdrs == {<<"X-A", "1">>, <<"X-A", "2, 3">>}
HeadUrls == {[text |-> "http://h/p?q", host |-> "h"], [text |-> "http://u@h:8080", host |-> "h:8080"],
             [text |-> "https://h:443/#f", host |-> "h"], [text |-> "/p", host |-> ""]}

-----------------------------------------------------------------------------
Init == TInit /\ HInit
Heads == job = "none" /\ HNext /\ UNCHANGED tvars
Texts == side = "client" /\ msg = NewMsg /\ body = NoBody /\ ~hostIp /\ TNext /\ UNCHANGED hvars
Next == Heads \/ Texts
Spec == Init /\ [][Next]_<<tvars, hvars>>
=============================================================================
