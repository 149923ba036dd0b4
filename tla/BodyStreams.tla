----------------------------- MODULE BodyStreams -----------------------------
(* A body on its way: from the data stream it is read from (a string, a file *)
(* or several of them), as it is or in chunks, over the connection, into the *)
(* stream that the receiving side writes it to; the stream classes of        *)
(* src/cahttp and the code that moves data between them.                     *)
(*                                                                           *)
(* A unit of a body is its place in it; a line that frames a chunk is a      *)
(* negative number: the size line of k units is -k - 2, a line end -1, and   *)
(* LastChunk the size line of none with its line end.                        *)
EXTENDS Integers, Sequences, SequencesExt, FiniteSets

CONSTANTS
  MaxUnits,       \* units of a body
  BufSize,        \* mBufSize: units a file stream reads at once
  Slice,          \* units of a chunk of CaHttpUrlCtrl (4096 bytes)
  SizeT,          \* values of a size_t
  MaxSink,        \* units a limited sink takes
  InnerRanges,    \* setRange() to a range that ends before the file does
  FilesShrink,    \* files hold less than when their size was read
  EmptyParts,     \* empty streams in chunks of CaHttpUrlCtrl or in a MultiStream
  Oversized,      \* bodies longer than a limited sink takes
  WriteErrors,    \* writing to a file fails
  ChunkedAgain    \* a CaHttpReq that sent a chunked body is used again

ASSUME SliceAssumption == BufSize \in 1 .. Slice   \* HttpFileReadStream::consume() asserts whole pieces

SizeLine(k) == -k - 2
LineEnd == -1
LastChunk == <<SizeLine(0), LineEnd>>

VARIABLES
  body,     \* what is to be sent
  enc,      \* how: "plain", "slice" (CaHttpUrlCtrl), "msg" (HttpMsgStream), "transf" (TransfEncStrm),
            \* "multi" (MultiStream)
  strms,    \* the streams it is read from
  chunk,    \* the chunk that waits to be taken
  over,     \* EOS(); mpOrgStrm = nullptr
  sent,     \* what the socket took
  state,    \* of the sender: "sending", "ended" or "failed"
  recv,     \* units of the body that have reached the receiver
  sink,     \* where it writes them: [kind, stored, size]
  told,     \* whether it was told that the body is complete
  again     \* this is the second body of the sender

svars == <<body, enc, strms, chunk, over, sent, state, recv, sink, told, again>>

-----------------------------------------------------------------------------
(* Read streams.  A file stream keeps the offset of its file, and what it    *)
(* has read and was not consumed.                                            *)
StringStrm(data) == [kind |-> "string", data |-> data, pos |-> 0, size |-> 0, cnt |-> 0, buf |-> << >>]
FileStrm(data) == [StringStrm(data) EXCEPT !.kind = "file", !.size = Len(data)]

(* HttpFileReadStream::setRange()                                            *)
SetRange(s, offset, len) ==
  [s EXCEPT !.pos = offset, !.size = IF Len(s.data) - offset < len THEN Len(s.data) - offset ELSE len]

Remain(s) == IF s.kind = "string" THEN Len(s.data) - s.pos ELSE (s.size - s.cnt) % SizeT

(* getDataPtr() hands out what the stream holds afterwards.  Reading a file  *)
(* gives some of the units asked for, or none at its end.                    *)
Held(s) == IF s.kind = "string" THEN SubSeq(s.data, s.pos + 1, Len(s.data)) ELSE s.buf

Filled(s) ==
  LET left == Len(s.data) - s.pos
      lens == IF left = 0 THEN {0} ELSE {n \in 1 .. BufSize : n <= left}
  IN IF s.kind = "string" \/ s.buf # << >> THEN {s}
     ELSE {[s EXCEPT !.buf = SubSeq(s.data, s.pos + 1, s.pos + n), !.pos = @ + n] : n \in lens}

ConsumeAll(s, n) ==                    \* mutant: a string is consumed at once
  IF s.kind = "string" THEN [s EXCEPT !.pos = Len(s.data)]
  ELSE [s EXCEPT !.cnt = @ + n, !.buf = SubSeq(@, n + 1, Len(@))]

Consume(s, n) ==
  IF s.kind = "string" THEN [s EXCEPT !.pos = IF Len(s.data) - @ < n THEN Len(s.data) ELSE @ + n]
  ELSE [s EXCEPT !.cnt = @ + n, !.buf = SubSeq(@, n + 1, Len(@))]

-----------------------------------------------------------------------------
(* getDataPtr() of what the sender takes data from, with the streams, the    *)
(* chunk and the end flag as they are afterwards.                            *)
Chunked == enc \in {"slice", "msg", "transf"}
Cut(d) == IF enc = "slice" /\ Len(d) > Slice THEN SubSeq(d, 1, Slice) ELSE d
Wrapped(d) == <<SizeLine(Len(d))>> \o d \o <<LineEnd>>

ChunkOf(s) ==
  LET d == Cut(Held(s))
      t == Consume(s, Len(d))
      last == d = << >> \/ Remain(t) = 0
  IN CASE enc = "slice"  -> [strms |-> <<t>>, over |-> FALSE,
                             chunk |-> Wrapped(d) \o IF Remain(t) = 0 THEN LastChunk ELSE << >>]
       [] enc = "msg"    -> [strms |-> <<t>>, over |-> last,
                             chunk |-> (IF d = << >> THEN << >> ELSE Wrapped(d)) \o IF last THEN LastChunk ELSE << >>]
       [] enc = "transf" -> [strms |-> <<t>>, over |-> d = << >>, chunk |-> Wrapped(d)]

GetDataPtr ==
  CASE strms = << >> \/ chunk # << >> \/ over -> {[strms |-> strms, chunk |-> chunk, over |-> over]}
    [] Chunked -> {ChunkOf(s) : s \in Filled(Head(strms))}
    [] OTHER -> {[strms |-> <<s>> \o Tail(strms), chunk |-> << >>, over |-> FALSE] : s \in Filled(Head(strms))}

Offered(g) == IF Chunked THEN g.chunk ELSE IF g.strms = << >> THEN << >> ELSE Held(Head(g.strms))

ConsumedKeepsFirst(g) ==               \* mutant: a stream that was emptied stays in front
  LET s == Consume(Head(g.strms), Len(Offered(g))) IN
  IF Chunked THEN [g EXCEPT !.chunk = << >>, !.over = @ \/ (enc = "slice" /\ Remain(Head(g.strms)) = 0)]
  ELSE [g EXCEPT !.strms = <<s>> \o Tail(g.strms)]

(* consume() of all that is offered.                                         *)
Consumed(g) ==
  LET s == Consume(Head(g.strms), Len(Offered(g))) IN
  IF Chunked THEN [g EXCEPT !.chunk = << >>, !.over = @ \/ (enc = "slice" /\ Remain(Head(g.strms)) = 0)]
  ELSE [g EXCEPT !.strms = (IF enc = "multi" /\ Remain(s) = 0 THEN << >> ELSE <<s>>) \o Tail(g.strms)]

-----------------------------------------------------------------------------
(* What a stream is meant to give, and the streams a body is read from.      *)
Meant(s) == IF s.kind = "string" THEN s.data ELSE SubSeq(s.data, s.pos + 1, s.pos + s.size)
Units(from, n) == [i \in 1 .. n |-> from + i]

Single ==
  {StringStrm(Units(0, n)) : n \in 0 .. MaxUnits} \cup {FileStrm(Units(0, n)) : n \in 0 .. MaxUnits}
  \cup {SetRange(FileStrm(Units(0, MaxUnits)), o, l) : o, l \in 0 .. MaxUnits}
Double == {<<x, y>> : x \in {StringStrm(Units(0, n)) : n \in 0 .. 2} \cup {FileStrm(Units(0, 2))},
                      y \in {StringStrm(Units(2, 2)), FileStrm(Units(2, MaxUnits))}}

(* What may be sent as enc says, and the files as they are when it is.       *)
Source(ss) ==
  /\ ~EmptyParts /\ enc \in {"slice", "multi"} => \A i \in DOMAIN ss : Meant(ss[i]) # << >>
  /\ ~InnerRanges => \A i \in DOMAIN ss : ss[i].kind = "file" => ss[i].pos + ss[i].size = Len(ss[i].data)
Sources == {ss \in IF enc = "multi" THEN Double ELSE {<<s>> : s \in Single} : Source(ss)}

Shrunk(ss) ==
  {ss} \cup IF FilesShrink /\ \A i \in DOMAIN ss : ss[i].kind = "file" /\ ss[i].pos < Len(ss[i].data)
            THEN {[i \in DOMAIN ss |-> [ss[i] EXCEPT !.data = Front(@)]]} ELSE {}

MeantBy(ss) == FlattenSeq([i \in DOMAIN ss |-> Meant(ss[i])])

Sinks == [kind : {"string", "file", "default", "buffer"}, stored : {<< >>}, size : {0}]
TooLong(kind, units) == kind \in {"default", "buffer"} /\ Len(units) > MaxSink

Init ==
  /\ enc \in {"plain", "slice", "msg", "transf", "multi"}
  /\ \E ss \in Sources : body = MeantBy(ss) /\ strms \in Shrunk(ss)
  /\ sink \in Sinks /\ (~Oversized => ~TooLong(sink.kind, body))
  /\ chunk = << >> /\ over = FALSE /\ sent = << >> /\ state = "sending"
  /\ recv = 0 /\ told = FALSE /\ again = FALSE

-----------------------------------------------------------------------------
(* The transmit loop: what is there is taken by the socket, or refused and   *)
(* offered again or given up, or there is nothing more.                      *)
Holds(g) == strms' = g.strms /\ chunk' = g.chunk /\ over' = g.over

Take ==
  /\ state = "sending"
  /\ \E g \in GetDataPtr : Offered(g) # << >> /\ sent' = sent \o Offered(g) /\ Holds(Consumed(g))
  /\ UNCHANGED <<body, enc, state, recv, sink, told, again>>

Refuse ==
  /\ state = "sending"
  /\ \E g \in GetDataPtr : Offered(g) # << >> /\ Holds(g)
  /\ state' \in {"sending", "failed"}
  /\ UNCHANGED <<body, enc, sent, recv, sink, told, again>>

End ==
  /\ state = "sending"
  /\ \E g \in GetDataPtr : Offered(g) = << >> /\ Holds(g)
  /\ state' = "ended"
  /\ UNCHANGED <<body, enc, sent, recv, sink, told, again>>

-----------------------------------------------------------------------------
(* The receiver: a piece of what was sent and not received yet is written to *)
(* its sink.  A body that is announced ends with its last unit, a chunked    *)
(* one with the last chunk, which may come with its last units or alone.     *)
DataSent == SelectSeq(sent, LAMBDA u : u > 0)
LastSent == Len(sent) >= 2 /\ SubSeq(sent, Len(sent) - 1, Len(sent)) = LastChunk

EndsBody(n) == IF Chunked THEN LastSent /\ recv + n = Len(DataSent) ELSE recv + n = Len(body)

FitsBelow(n) == Len(sink.stored) + n < MaxSink   \* mutant: off by one
Fits(n) == Len(sink.stored) + n <= MaxSink

(* write(): what is stored, and whether the piece is accepted.               *)
Writes(piece) ==
  LET store(ok) == [sink EXCEPT !.stored = IF ok THEN @ \o piece ELSE @, !.size = @ + Len(piece)] IN
  CASE sink.kind = "string"  -> {<<store(TRUE), TRUE>>}
    [] sink.kind = "file"    -> {<<store(ok), TRUE>> : ok \in IF WriteErrors THEN BOOLEAN ELSE {TRUE}}
    [] sink.kind = "default" -> {<<IF Fits(Len(piece)) THEN store(TRUE) ELSE sink, Fits(Len(piece))>>}
    [] OTHER                 -> {<<IF Fits(Len(piece)) THEN store(TRUE) ELSE sink, TRUE>>}

Deliver(n, end) ==
  /\ ~told /\ recv + n <= Len(DataSent)
  /\ end => EndsBody(n)
  /\ ~end => n > 0 /\ (Chunked \/ ~EndsBody(n))
  /\ recv' = recv + n
  /\ \E w \in Writes(SubSeq(DataSent, recv + 1, recv + n)) : sink' = w[1] /\ told' = (end /\ w[2])
  /\ UNCHANGED <<body, enc, strms, chunk, over, sent, state, again>>

(* A CaHttpReq is used again: setReqContent(), and setMsg() on the same      *)
(* HttpMsgStream, whose flags stay; the other side has a new sink.           *)
SetMsg ==
  /\ state = "ended" /\ told /\ ~again
  /\ enc = "plain" \/ (enc = "msg" /\ ChunkedAgain)
  /\ \E ss \in Sources : body' = MeantBy(ss) /\ strms' \in Shrunk(ss)
  /\ sink' \in {x \in Sinks : x.kind = sink.kind} /\ (~Oversized => ~TooLong(sink.kind, body'))
  /\ sent' = << >> /\ state' = "sending" /\ recv' = 0 /\ told' = FALSE /\ again' = TRUE
  /\ UNCHANGED <<enc, chunk, over>>

Next == SetMsg \/ Take \/ Refuse \/ End \/ \E n \in 0 .. MaxUnits + 2, end \in BOOLEAN : Deliver(n, end)
Spec == Init /\ [][Next]_svars /\ WF_svars(Take) /\ WF_svars(End)
             /\ WF_svars(\E n \in 0 .. MaxUnits + 2 : Deliver(n, TRUE))

-----------------------------------------------------------------------------
(* What a reader of the wire makes of it, token by token.                    *)
Framing(r, u) ==
  CASE r.st = "size" /\ u <= SizeLine(0) -> [r EXCEPT !.left = -u - 2, !.st = IF u = SizeLine(0) THEN "last" ELSE "data"]
    [] r.st = "data" /\ u > 0            -> [r EXCEPT !.data = Append(@, u), !.left = @ - 1,
                                                      !.st = IF r.left = 1 THEN "end" ELSE @]
    [] r.st = "end" /\ u = LineEnd       -> [r EXCEPT !.st = "size"]
    [] r.st = "last" /\ u = LineEnd      -> [r EXCEPT !.st = "over"]
    [] OTHER                             -> [r EXCEPT !.st = "bad"]
Read == IF Chunked THEN FoldLeft(Framing, [st |-> "size", left |-> 0, data |-> << >>], sent)
        ELSE [st |-> "over", left |-> 0, data |-> sent]

(* What is sent is the body, in order and each unit once, however its        *)
(* streams are cut, read in parts, and refused by the socket; every chunk    *)
(* has the size it says, and the last one is sent once, at the very end.     *)
WireIsSource ==
  /\ Read.st # "bad"
  /\ Len(Read.data) <= Len(body) /\ Read.data = SubSeq(body, 1, Len(Read.data))
  /\ state = "ended" => Read.st = "over" /\ Read.data = body

(* A receiver that is told the body is complete has all of it.               *)
CompletedIsWhole == told => sink.stored = body /\ sink.size = Len(body)

(* A body that is not given up is complete at its receiver in the end.       *)
BodyArrives == []<>(told \/ state = "failed")
=============================================================================
