--------------------------- MODULE CaHttpUrlCtrl ---------------------------
(* The send side of one URL controller (src/cahttp/CaHttpUrlCtrl.cpp) as     *)
(* operators on a record: what response() announces, what getDataPtr() hands *)
(* to the transmit loop of ServCnn, what consume() and sendData() do to the  *)
(* controller.  The connection around it is module ServCnn.                  *)
(*                                                                           *)
(* Bytes are abstracted to units: a response header is one token, a body is  *)
(* 0 .. MaxLen units, a chunk is a size line, its data and a line end.       *)
EXTENDS Integers, Sequences

CONSTANTS MaxLen,   \* longest body, in units
          Slice     \* units getDataPtr() offers at once (file buffer, 4096-byte chunk)

ASSUME MaxLenAssumption == MaxLen \in Nat
ASSUME SliceAssumption == Slice \in Nat \ {0}

NoStrm  == -1       \* mDataStrm == nullptr: the application sends by itself
Chunked == -1       \* mRespContentLen of a chunked response

Tokens == [t : {"hdr", "size", "data", "crlf"}, n : -1 .. MaxLen]

Tok(t, n) == [t |-> t, n |-> n]

(* A chunk is written in three pieces, its size line, its data and a line    *)
(* end; the data of the last chunk (length 0) puts nothing on the wire.      *)
(* The first k pieces, and the others:                                       *)
ChunkHead(n, k) ==
  CASE k = 0          -> << >>
    [] k = 1          -> <<Tok("size", n)>>
    [] k = 2 /\ n = 0 -> <<Tok("size", n)>>
    [] k = 2 /\ n # 0 -> <<Tok("size", n), Tok("data", n)>>
    [] k = 3 /\ n = 0 -> <<Tok("size", n), Tok("crlf", 0)>>
    [] OTHER          -> <<Tok("size", n), Tok("data", n), Tok("crlf", 0)>>

ChunkTailLosesPiece(n, k) ==           \* mutant: one piece too many counted as sent
  SubSeq(ChunkHead(n, 3), Len(ChunkHead(n, k)) + 2, Len(ChunkHead(n, 3)))

ChunkTail(n, k) ==
  SubSeq(ChunkHead(n, 3), Len(ChunkHead(n, k)) + 1, Len(ChunkHead(n, 3)))

Chunk(n) == ChunkHead(n, 3)

(* What the application can ask response() to send: chunked or not, a data   *)
(* stream of so many units or none, and the announced length.                *)
Shapes == [te : BOOLEAN, strm : NoStrm .. MaxLen, clen : Chunked .. MaxLen]

Ctrls == [resp : BOOLEAN,             \* mRespCode # 0: response() was called
          hdr  : BOOLEAN,             \* mHdrStrm.remain() > 0
          te   : BOOLEAN,             \* TRANSFER_ENC()
          strm : NoStrm .. MaxLen,    \* mDataStrm->remain()
          clen : Chunked .. MaxLen,   \* mRespContentLen
          chk  : Seq(Tokens),         \* what mChkStrm holds
          wcnt : Nat,                 \* mWriteCnt
          rcnt : Nat,                 \* mDataReadCnt
          eos  : BOOLEAN]             \* EOS()

NewCtrl == [resp |-> FALSE, hdr |-> FALSE, te |-> FALSE, strm |-> NoStrm, clen |-> 0,
            chk |-> << >>, wcnt |-> 0, rcnt |-> 0, eos |-> FALSE]

(* setRespContent() followed by response(): the header becomes ready to go.  *)
Responded(u, s) ==
  [u EXCEPT !.resp = TRUE, !.hdr = TRUE, !.te = s.te, !.strm = s.strm, !.clen = s.clen,
            !.wcnt = 0, !.eos = FALSE]

-----------------------------------------------------------------------------
AvailHdrLast(u) ==                     \* mutant: the header is only sent before a stream
  CASE ~u.te /\ u.strm = NoStrm        -> "lack"
    [] u.hdr                           -> "some"
    [] ~u.te /\ u.strm # NoStrm         -> IF u.strm > 0 THEN "some" ELSE "none"
    [] u.te /\ u.chk # << >>            -> "some"
    [] OTHER                           -> IF u.strm = NoStrm THEN "lack"
                                          ELSE IF u.eos THEN "none" ELSE "some"

AvailShort(u) ==                       \* mutant: the last slice of a stream counts as none
  CASE u.hdr                         -> "some"
    [] ~u.hdr /\ ~u.te               -> IF u.strm = NoStrm THEN "lack"
                                        ELSE IF u.strm > Slice THEN "some" ELSE "none"
    [] ~u.hdr /\ u.te /\ u.chk # << >> -> "some"
    [] OTHER                         -> IF u.strm = NoStrm THEN "lack"
                                        ELSE IF u.eos THEN "none" ELSE "some"

(* getDataPtr(): there is something to send ("some"), the response is over   *)
(* ("none"), or nothing is known to be left but nothing is there ("lack").   *)
Avail(u) ==
  CASE u.hdr                         -> "some"
    [] ~u.hdr /\ ~u.te               -> IF u.strm = NoStrm THEN "lack"
                                        ELSE IF u.strm > 0 THEN "some" ELSE "none"
    [] ~u.hdr /\ u.te /\ u.chk # << >> -> "some"
    [] OTHER                         -> IF u.strm = NoStrm THEN "lack"
                                        ELSE IF u.eos THEN "none" ELSE "some"

Slice1(u) == IF u.strm < Slice THEN u.strm ELSE Slice

PreparedLosesLast(u) ==                \* mutant: no last chunk after the last piece
  IF ~u.hdr /\ u.te /\ u.chk = << >> /\ u.strm # NoStrm /\ ~u.eos
  THEN [u EXCEPT !.strm = @ - Slice1(u), !.chk = Chunk(Slice1(u))]
  ELSE u

(* The same call's effect: a chunked stream is cut, and the piece, wrapped   *)
(* as a chunk, waits in mChkStrm.                                            *)
Prepared(u) ==
  IF ~u.hdr /\ u.te /\ u.chk = << >> /\ u.strm # NoStrm /\ ~u.eos
  THEN [u EXCEPT !.strm = @ - Slice1(u),
                 !.chk = Chunk(Slice1(u))
                         \o (IF Slice1(u) = u.strm THEN Chunk(0) ELSE << >>)]
  ELSE u

(* ... and what the pointer it returns points at, u being Prepared.          *)
Offered(u) ==
  IF u.hdr THEN <<Tok("hdr", u.clen)>>
  ELSE IF u.te THEN u.chk
  ELSE <<Tok("data", Slice1(u))>>

ConsumedWrongWay(u) ==                 \* mutant: the read position moves back
  IF u.hdr THEN [u EXCEPT !.hdr = FALSE, !.eos = @ \/ u.clen = 0]
  ELSE IF u.te THEN [u EXCEPT !.chk = << >>, !.eos = @ \/ u.strm = 0]
  ELSE [u EXCEPT !.rcnt = @ + Slice1(u), !.strm = @ + Slice1(u),
                 !.eos = @ \/ u.rcnt + Slice1(u) = u.clen]

(* consume() of everything Offered.                                          *)
Consumed(u) ==
  IF u.hdr THEN [u EXCEPT !.hdr = FALSE, !.eos = @ \/ u.clen = 0]
  ELSE IF u.te THEN [u EXCEPT !.chk = << >>, !.eos = @ \/ u.strm = 0]
  ELSE [u EXCEPT !.rcnt = @ + Slice1(u), !.strm = @ - Slice1(u),
                 !.eos = @ \/ u.rcnt + Slice1(u) = u.clen]

-----------------------------------------------------------------------------
(* sendData(len) once the write below it has not failed: the count, the end  *)
(* of the stream and, for a chunk, the pieces the socket did not take.       *)
Written(u, len, unsent) ==
  [u EXCEPT !.wcnt = @ + len, !.chk = @ \o unsent,
            !.eos = @ \/ (IF u.te THEN len = 0 ELSE u.wcnt + len = u.clen)]

(* sendData(len) passes the data on to the connection only within the        *)
(* announced length and before the end of the stream.                        *)
MaySend(u, len) == ~u.eos /\ (u.clen = Chunked \/ u.wcnt + len <= u.clen)

(* The lengths an application passes to sendData(): an empty piece ends a    *)
(* chunked response and is not used otherwise.                               *)
SendLens(u) ==
  {len \in 0 .. MaxLen : MaySend(u, len) /\ u.wcnt + len <= MaxLen /\ (len = 0 => u.te)}
=============================================================================
