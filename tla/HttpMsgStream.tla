--------------------------- MODULE HttpMsgStream ---------------------------
(* The stream a client sends a request from (src/cahttp/HttpMsgStream.cpp):  *)
(* the header, then the units of a data stream, as they are or chunk by      *)
(* chunk, or nothing more when the application writes the body itself.       *)
EXTENDS Integers, Sequences

CONSTANTS MaxLen,   \* longest body, in units
          Slice     \* units a data stream offers at once

ASSUME MaxLenAssumption == MaxLen \in Nat
ASSUME SliceAssumption == Slice \in Nat \ {0}

NoStrm == -1        \* mDataStrm == nullptr
ChunkedLen == -1    \* mContentLen of a chunked message

Tokens == [t : {"hdr", "data", "chunk", "last"}, n : -1 .. MaxLen]

Tok(t, n) == [t |-> t, n |-> n]

(* What is to be sent: chunked or not, the units in the data stream, and the *)
(* length announced.                                                         *)
Bodies == [te : BOOLEAN, strm : NoStrm .. MaxLen, clen : ChunkedLen .. MaxLen]

Strms == [hdr : BOOLEAN, te : BOOLEAN, strm : NoStrm .. MaxLen, clen : ChunkedLen .. MaxLen,
          part : Seq(Tokens),    \* mTecPartBuf
          eos : BOOLEAN]

(* setMsg()                                                                  *)
NewStrm(b) == [hdr |-> TRUE, te |-> b.te, strm |-> b.strm, clen |-> b.clen,
               part |-> << >>, eos |-> FALSE]

(* getDataPtr(): there is something to send, the message is over, or it is   *)
(* for the application to send the rest.                                     *)
Avail(s) ==
  CASE s.hdr                              -> "some"
    [] ~s.hdr /\ s.strm # NoStrm /\ ~s.te -> IF s.strm > 0 THEN "some" ELSE "none"
    [] ~s.hdr /\ s.strm # NoStrm /\ s.te  -> IF s.part = << >> /\ s.eos THEN "none" ELSE "some"
    [] OTHER                              -> IF ~s.te /\ s.clen = 0 THEN "none" ELSE "lack"

Slice1Full(s) == Slice                 \* mutant: the stream always offers a full slice

Slice1(s) == IF s.strm < Slice THEN s.strm ELSE Slice

(* The same call's effect: the next slice is wrapped as a chunk; the last    *)
(* chunk follows the slice that empties the stream.                          *)
Prepared(s) ==
  LET n == Slice1(s)
      last == n = s.strm
  IN IF ~s.hdr /\ s.te /\ s.strm # NoStrm /\ s.part = << >> /\ ~s.eos
     THEN [s EXCEPT !.strm = @ - n, !.eos = last,
                    !.part = (IF n > 0 THEN <<Tok("chunk", n)>> ELSE << >>)
                             \o (IF last THEN <<Tok("last", 0)>> ELSE << >>)]
     ELSE s

(* ... and what it hands out, s being Prepared.                              *)
Offered(s) ==
  IF s.hdr THEN <<Tok("hdr", s.clen)>>
  ELSE IF s.te THEN s.part
  ELSE <<Tok("data", Slice1(s))>>

(* consume() of everything Offered.                                          *)
Consumed(s) ==
  IF s.hdr THEN [s EXCEPT !.hdr = FALSE]
  ELSE IF s.te THEN [s EXCEPT !.part = << >>]
  ELSE [s EXCEPT !.strm = @ - Slice1(s)]
=============================================================================
