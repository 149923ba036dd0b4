----------------------------- MODULE MCHttpCnn -----------------------------
(* Instances of HttpCnn for TLC.                                             *)
EXTENDS HttpCnn

NoBody == [te |-> FALSE, strm |-> NoStrm, clen |-> 0]
StrmBody(n) == [te |-> FALSE, strm |-> n, clen |-> n]
ChunkedStrm(n) == [te |-> TRUE, strm |-> n, clen |-> ChunkedLen]
ManualBody(n) == [te |-> FALSE, strm |-> NoStrm, clen |-> n]
ManualChunked == [te |-> TRUE, strm |-> NoStrm, clen |-> ChunkedLen]

AllBodies == {NoBody, StrmBody(2), ChunkedStrm(0), ChunkedStrm(2), ManualBody(2), ManualChunked}
StrmBodies == {NoBody, StrmBody(1), ChunkedStrm(0)}
EndsBodies == {StrmBody(1), ManualBody(1), ManualChunked}
EndsStrmBodies == {NoBody, ChunkedStrm(1)}
GetOnly == {NoBody}
PostOnly == {StrmBody(1)}
ChunkedOnly == {ManualChunked}

Resp(n) == [clen |-> n, units |-> n]
ChunkedResp(n) == [clen |-> ChunkedBody, units |-> n]

AllResps == {Resp(0), Resp(2), ChunkedResp(0), ChunkedResp(1)}
PlainResps == {Resp(0), Resp(2)}
EndsResps == {Resp(1), ChunkedResp(0)}
SmallResp == {Resp(1)}
ChunkedResps == {ChunkedResp(1)}
=============================================================================
