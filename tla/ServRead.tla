------------------------------ MODULE ServRead ------------------------------
(* The read side of a server connection: packets of request bytes go through *)
(* the parser into the frame assembler (CaHttpFrame) and procRead() of       *)
(* src/cahttp/ServCnn.cpp hands messages and body data to the controllers.   *)
(*                                                                           *)
(* The peer sends NReq requests back to back and may begin one more.  A      *)
(* packet is any run of their tokens that the flags below allow; one that    *)
(* holds no token is a piece of a header or of a chunk's framing.            *)
EXTENDS CaHttpFrame, FiniteSets

CONSTANTS NReq,           \* requests on the connection
          Lens,           \* announced lengths; ChunkedBody for a chunked request
          ChunkUnits,     \* lengths of the chunked bodies
          SplitThenNext,  \* packets end the body of a request fetched before and begin another
          ChunkedThenNext \* packets hold a chunked request and begin another

ASSUME NReqAssumption == NReq \in Nat \ {0}
ASSUME LensAssumption == Lens \subseteq Nat \cup {ChunkedBody} /\ ChunkUnits \subseteq Nat

Reqs == 1 .. NReq
NoCtrl == 0

VARIABLES
  reqs,      \* the requests: announced length and units of body
  stream,    \* their tokens, in the order sent
  pos,       \* tokens received
  f,         \* mMsgFrame
  nctrl,     \* controllers allocated, one per header fetched
  mReqCtrl,  \* the controller that receives the body
  got,       \* units handed to each controller
  done,      \* controllers whose OnHttpReqMsg() was called
  pc,        \* "idle", "loop" (the for loop of procRead()), "crashed"
  asserted   \* assert()s that failed

vars == <<reqs, stream, pos, f, nctrl, mReqCtrl, got, done, pc, asserted>>

Requests == {[clen |-> l, units |-> l] : l \in Lens \ {ChunkedBody}}
            \cup {[clen |-> l, units |-> u] : l \in Lens \cap {ChunkedBody}, u \in ChunkUnits}

Init ==
  /\ reqs \in [Reqs -> Requests]
  /\ \E more \in {<< >>, <<MsgTokens(NReq + 1, 0, 0)[1]>>} :
       stream = FlattenSeq([c \in Reqs |-> MsgTokens(c, reqs[c].clen, reqs[c].units)]) \o more
  /\ pos = 0 /\ f = NewFrame /\ nctrl = 0 /\ mReqCtrl = NoCtrl
  /\ got = [c \in Reqs |-> << >>] /\ done = {} /\ pc = "idle" /\ asserted = {}

-----------------------------------------------------------------------------
(* Packets that the flags allow.  The assembler still says FS_DATA after a   *)
(* chunked message: blank bytes by themselves do not follow one.             *)
AllowedPacket(toks) ==
  /\ toks = << >> /\ (pos = 0 \/ stream[pos].end) => Status(f) = "FS_NONE"
  /\ ~SplitThenNext => ~EndsAndBegins(toks)
  /\ ~ChunkedThenNext => ~QueuesChunked(toks)

(* procRead(): recvPacket() and feedPacket().                                *)
RecvPacket(to) ==
  LET toks == SubSeq(stream, pos + 1, to) IN
  /\ pc = "idle" /\ pos <= to /\ to <= Len(stream)
  /\ AllowedPacket(toks)
  /\ f' = FeedPacket(f, toks)
  /\ pos' = to
  /\ pc' = "loop"
  /\ UNCHANGED <<reqs, stream, nctrl, mReqCtrl, got, done, asserted>>

(* The loop: a header.                                                       *)
LoopHdr ==
  LET x == FetchMsg(f) IN
  /\ pc = "loop" /\ Status(f) = "FS_HDR"
  /\ f' = x.f
  /\ nctrl' = nctrl + 1
  /\ asserted' = asserted \cup x.failed
  /\ IF x.res = "MSG_ONLY"
     THEN mReqCtrl' = NoCtrl /\ done' = done \cup {nctrl + 1}
     ELSE mReqCtrl' = nctrl + 1 /\ UNCHANGED done
  /\ UNCHANGED <<reqs, stream, pos, got, pc>>

(* The loop: data.  Without a controller to give it to the debug build       *)
(* stops at an assert() and the release build calls through a null pointer,  *)
(* unless there is nothing to give.                                          *)
LoopData ==
  LET x == FetchData(f)
      give == x.data # << >> \/ x.res = "MSG_DATA_END"
      ends == x.res = "MSG_DATA_END"
  IN
  /\ pc = "loop" /\ Status(f) = "FS_DATA"
  /\ f' = x.f
  /\ asserted' = asserted \cup x.failed \cup (IF mReqCtrl = NoCtrl THEN {"mReqCtrl"} ELSE {})
  /\ IF give /\ mReqCtrl = NoCtrl
     THEN pc' = "crashed" /\ UNCHANGED <<got, done, mReqCtrl>>
     ELSE /\ got' = IF give THEN [got EXCEPT ![mReqCtrl] = @ \o x.data] ELSE got
          /\ done' = IF ends THEN done \cup {mReqCtrl} ELSE done
          /\ mReqCtrl' = IF ends THEN NoCtrl ELSE mReqCtrl
          /\ pc' = IF x.data # << >> THEN "loop" ELSE "idle"
  /\ UNCHANGED <<reqs, stream, pos, nctrl>>

(* The loop: nothing more in this packet.                                    *)
LoopNone ==
  /\ pc = "loop" /\ Status(f) = "FS_NONE"
  /\ pc' = "idle"
  /\ UNCHANGED <<reqs, stream, pos, f, nctrl, mReqCtrl, got, done, asserted>>

Next ==
  \/ \E to \in 0 .. Len(stream) : RecvPacket(to)
  \/ LoopHdr \/ LoopData \/ LoopNone

(* What the peer sends arrives, and procRead() runs to its end.              *)
Fairness == /\ SF_vars(\E to \in 1 .. Len(stream) : pos < to /\ RecvPacket(to))
            /\ WF_vars(LoopHdr \/ LoopData \/ LoopNone)

Spec == Init /\ [][Next]_vars /\ Fairness

-----------------------------------------------------------------------------
(* A controller is given nothing but units of its own request, and when it   *)
(* is told that the request is complete it has been given all of them.       *)
BodiesIntact ==
  \A c \in Reqs : /\ \A i \in DOMAIN got[c] : got[c][i] = c
                  /\ c \in done => Len(got[c]) = reqs[c].units

(* Requests are completed one after the other: a header is only handed out   *)
(* once the request before it is complete.                                   *)
OneAtATime == \A c \in 1 .. nctrl - 1 : c \in done

(* Between packets nothing that was received is held back: every request     *)
(* that was received to its end is complete.                                 *)
NothingHeldBack ==
  pc = "idle" =>
    \A c \in Reqs : (\A i \in DOMAIN stream : stream[i].id = c => i <= pos) => c \in done

(* No assert() of the assembler or of procRead() fails.                      *)
NoReaderAssertFails == asserted = {}
=============================================================================
