----------------------------- MODULE MCServCnn -----------------------------
(* Instances of ServCnn for TLC.                                             *)
EXTENDS ServCnn


BodyShape(n) == [te |-> FALSE, strm |-> n, clen |-> n]
ChunkedShape(n) == [te |-> TRUE, strm |-> n, clen |-> Chunked]
EmptyShape == [te |-> FALSE, strm |-> NoStrm, clen |-> 0]
ManualShape(n) == [te |-> FALSE, strm |-> NoStrm, clen |-> n]
ManualChunked == [te |-> TRUE, strm |-> NoStrm, clen |-> Chunked]

(* The response carries its body in a data stream of the controller: the     *)
(* strings of response(), a file, the same sent chunked.                     *)
StreamBodies == {BodyShape(2), ChunkedShape(2)}

(* The application sends the body itself, or there is none.                  *)
ManualBodies == {EmptyShape, ManualShape(2), ManualChunked}

EmptyBody == {EmptyShape}

(* A body sent piece by piece from a timer.                                  *)
TimedBodies == {ManualShape(2)}

AllBodies == StreamBodies \cup ManualBodies
=============================================================================
