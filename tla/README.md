# Verification of cahttp

cahttp is an asynchronous HTTP library on top of the event loop library ednio: a server whose
connections answer pipelined requests, and a client whose requests may share a connection.
This directory holds TLA+ models of it, from the server's life down to the bytes the parser
reads, the TLC configurations that check them on small instances, and proofs, checked by TLAPS,
of what holds for every instance.

`PROJECT.json` lists components, runs, mutants, the lines each definition translates, findings,
hazards and theorems. Run a configuration with `tlc -config X.cfg M`, a proof with `tlapm M.tla`.

## 1. The system

Everything below runs on event loops; a connection belongs to one loop and its handlers are not
preempted. What makes the code hard is that a handler calls the application back in the middle
of a loop, that the application calls the connection from that callback, from another callback
or from a timer, and that the socket takes a packet, keeps it (`SEND_PENDING`, a writable event
follows), or fails.

| Component | State | Operations | Talks to |
|---|---|---|---|
| Server, tasks, connection table (`CaHttpServer`, `ServTask`, `HttpServCnnCtx`) | listening socket, tasks, map from handle to connection, handle counter | start, accept, hand over to a task, free, close all, close, notify | messages to tasks; calls to connections |
| Server connection (`ServCnn`) | list of live controllers, list of ended ones, the one receiving, the one sending, pause flag, timer | `procRead`, `starttx`, `writeData`, `endCtrl`, `clearDummyCtrl`, `close`, timer, `LM_DISCONNECT` | assembler, controllers, socket |
| URL controller (`CaHttpUrlCtrl`) | header stream, body stream, chunk buffer `mChkStrm`, counters, end flag | `response`, `getDataPtr`, `consume`, `sendData`, `writeTec`, callbacks | the application; its connection |
| HTTP parser (`http_parser`) | state, flags, content length, index, marks | `http_parser_execute` | callbacks of the assembler |
| Frame assembler (`CaHttpFrame`) | current message, header being read, queue of whole messages, body held, status bits | `feedPacket` and parser callbacks, `status`, `fetchMsg`, `fetchData` | parser; both kinds of connection |
| Client connection (`HttpCnn`) | current request, pipe of requests, queue of those to be sent, connected flag | `addMsgStream`, `transfer`, `starttx`, `procRead`, `procDisconnected` | requests (callbacks), assembler, socket |
| Client request (`CaHttpReq`) | message, message stream, flags, body counters, chunk buffer, receive buffer | `request`, `sendData`, `close`, `clearRequest` | client connection; the application |
| Request manager (`CaHttpReqMan`) | connections by address, requests, freed requests | `getConnection`, `freeRequest`, `close` | requests, connections |
| Message and data streams (`HttpMsgStream`, `HttpStringReadStream`, `HttpFileReadStream`, `MultiStream`, `TransfEncStrm`, write streams) | position, remaining length, chunk buffer | offer, consume, write | connections |
| Messages and headers (`CaHttpMsg`) | flags, method or status, URL, headers | set, add, clear, serialise | requests, controllers, assembler |
| URL, range and SDP parsers | position, parts read | parse | the application |

What makes each of them correct:

* server and tasks: every accepted descriptor is held by one connection until it is closed,
  the end of each, what its listener was told and what the table keeps agree, `close()` leaves nothing open and returns, idle
  connections end;
* server connection: responses leave in the order of the requests, each well framed and whole
  before the next, although the transmit loop and `sendData()` both write; controllers end once
  and in order; no pointer to a deleted controller is kept; the connection never rests with
  something to send; every request is answered;
* parser and assembler: wherever packets are cut, each message is read with its own head and its
  own body, whole, nothing is held back, and reading stops only behind the last message;
* client connection: requests leave in the order they were made; a request ends with its own
  response, told once and for good, or with an error; nothing stays unsent;
* messages: the head that is sent says what the calls asked for, and nothing of an earlier use;
* streams: what goes out is the body, each byte once and in order, framed with the sizes it has;
  who is told a body is complete has all of it;
* text parsers: a text composed as its standard says is taken apart into what it was composed of.

## 2. The modules

| Module | Models | Uses |
|---|---|---|
| `ServerLife` | the server, its tasks, the connection tables and how connections end | |
| `CaHttpUrlCtrl` | the controller as a record and pure operators: `Responded`, `Avail`, `Prepared`, `Offered`, `Consumed`, `Written`, `MaySend` | |
| `PipelinedServer` | what a connection of a pipelining server promises, in four counters | |
| `ServCnn`, `MCServCnn` | the transmit side and the life of a server connection; implements `PipelinedServer` | `CaHttpUrlCtrl`, `PipelinedServer` |
| `ServCnnProofs` | theorems about `ServCnn` | `ServCnn`, TLAPS |
| `ServCnnFraming` | theorems about what the peer reads on the wire of `ServCnn`, and where its loop rests | `ServCnnProofs`, `FoldLemmas` |
| `ServCnnAnswers` | the theorem that `ServCnn` implements `PipelinedServer` | `ServCnnFraming` |
| `ServerLifeProofs` | theorems about `ServerLife`: types, tables, notifications, closes | `ServerLife`, TLAPS |
| `FoldLemmas` | lemmas: induction over a set of naturals, what a fold computes | TLAPS |
| `FrameLemmas` | lemmas: the invariant of the assembler's record, and what the callbacks, `fetchMsg()` and `fetchData()` do to it | `CaHttpFrame`, `FoldLemmas` |
| `ServReadProofs` | theorems about `ServRead` | `ServRead`, `FrameLemmas` |
| `HttpParser` | the HTTP parser as a record and the operator `Byte` | |
| `CaHttpMsg` | the headers of a message | |
| `CaHttpFrame` | the assembler as a record and pure operators, and the parser's callbacks as tokens | |
| `FrameCallbacks` | the callbacks with the texts they carry | `CaHttpFrame`, `HttpParser`, `CaHttpMsg` |
| `ServRead`, `MCServRead` | `procRead()` of the server over the assembler, packets of tokens | `CaHttpFrame` |
| `ByteRead`, `MCByteRead` | the same over packets of bytes; implements `ServRead` | `ServRead`, `FrameCallbacks` |
| `HttpMsgStream` | the client's message stream, pure operators | |
| `HttpCnn`, `MCHttpCnn` | the client connection with its requests and a server that answers in order | `CaHttpFrame`, `HttpMsgStream` |
| `HttpCnnProofs` | theorems about `HttpCnn`: what requests made one at a time are told, what the server reads | `HttpCnn`, `FrameLemmas` |
| `BodyStreams` | the data streams, from a source over a connection into a sink | |
| `CaHttpUrlParser`, `CaRangeParser`, `SDPParser` | the text parsers, character by character | |
| `TextParsers` | texts composed as the standards say, given to those parsers | the three parsers |
| `HttpHeads` | heads of requests and responses, written by one side and read by the other | `FrameCallbacks`, `CaHttpUrlParser` |
| `MCTexts` | `TextParsers` and `HttpHeads` side by side, and the texts for both | both |

In the connection modules data is abstracted to units: a body is a number of units, the wire is
a sequence of tokens (`hdr` with the announced length, `data`, chunk `size`, `crlf`, last chunk).
`HttpParser`, `HttpHeads` and the text parsers work on characters, because what they could get
wrong is the text. Logging is left out everywhere.

### Server (`ServerLife`)

`main` is what the main task is doing and `next` the task that `closeAllConnections()` or
`close()` has come to; with tasks, both are cut where they wait (`SendCloseAll`, `WaitTask`), and
without tasks (`start(0)`) the main task owns the only context and both are one step. `Accept`
is `OnListenSock`'s handler: the descriptor, or the -1 of an `accept()` that failed, which is not
looked at, goes to the task whose turn it is as a message, or straight to the context. `queue` is
a task's message queue, `TaskNewCnn`, `TaskCloseAll` and `TaskExit` its three messages. `NewCnn`
is `newCnn()` with the handle counter, `emplace()`, which keeps an entry that is there, and the
early return of `open()` when that has a socket. Connections end with `Disconnected`, `TimerTick`
(twice without anything `Received`), `LmDisconnect` or `CtxClose`; `told` is what the listener was
told, `ended` how it went. `Freed` takes the entry away; `LmDisconnect` leaves it, closed
(`ClosedCnn`), and a later connection with its handle opens the same object again (`Opened`). What a connection does in
between is `ServCnn`.

### Server connection (`CaHttpUrlCtrl`, `ServCnn`)

A controller is named by the number of the request it was allocated for. `getDataPtr()` both
changes the controller and answers, so it is three operators: `Avail` (data, end, or lack of
data), `Prepared` (the change: the next slice of a stream is wrapped as a chunk), `Offered` (what
it hands out). `starttx()` is cut into steps where it calls out: `TxSend` (one packet, with every
answer of the socket), `TxDone`, `TxLack` (which calls `OnHttpSendBufReady()`; `pc = "ready"`
while that callback runs), `ReadyReturns`, `NextCtrl`, `LeaveTx`. `pc` and `ret` say which handler
runs, so that only the calls the application can make at that place are enabled. `RecvHdr` is
the part of `procRead()` for a header, including `clearDummyCtrl()` and the callback (`pc` is
`"hdr"` or `"msg"` while it runs); `RecvData` the part for body data. `Response` includes the
`starttx()` it may start and the `reserveWrite()` it may leave behind (`armed`). `SendData` is
`sendData()` with both of its branches; `SendTec` covers the three packets of `writeTec()`, any
of which may be queued or refused, with the remaining pieces in `mChkStrm`. `Close`, `Disconnect`
(`LM_DISCONNECT`), `Disconnected`, `Timeout` and `TimerTick` are the ends. The peer reads the
wire with `Receive`, an HTTP client that notes the first thing it cannot read.

`PipelinedServer` counts the requests that arrived, the responses answered in full and the ends the
application was told of, and says when each may grow: an answer only when the one before has ended,
an end only of an answer, unless the connection is broken or closed. `Promise` in `ServCnn` is that
module with the counters read off the connection: `nreq`, the responses whole in `PeerView`, the
requests that are in no list any more. `KeepsPromise` says that each step of `ServCnn` is one of its
steps or none. (`ReceiveOnce` stands for `Receive` where TLC would evaluate the fold anew at every
mention of the primed wire.)

### Read side (`HttpParser`, `CaHttpFrame`, `FrameCallbacks`, `ServRead`, `ByteRead`)

The read side is modelled twice. On bytes: `HttpParser` is `http_parser_execute()` as an operator
on the parser's record, one disjunct of a `CASE` per state of the code (`REEXECUTE()` is a second
application), with method matching, header matching for the five headers the parser looks at,
content length, chunk sizes, flags, keep-alive and the callbacks with the run of text each
carries. `FrameCallbacks` is what `CaHttpFrame` does in those callbacks. `ByteRead` feeds a
conversation byte by byte (`FeedByte`, `FeedPacketEnd`) and runs the loop of `procRead()`. A
packet may end after any byte.

On tokens: `MsgBegin`, `HeaderComp`, `BodyData`, `MsgEnd` are the parser callbacks without text,
`Status`, `FetchMsg`, `FetchData` what the connection calls. `FeedPacket` applies the callbacks
one token (first bytes, rest of the header, a unit of body, last chunk) at a time, and `ServRead`
cuts requests of every length into packets.

`ByteRead` implements `ServRead`: with the assembler as it was when the packet arrived, bodies
mapped from byte positions to the message they belong to, and a packet being parsed mapped to one
not arrived yet, every step of `ByteRead` is a step of `ServRead` or none (`TokenLevel`, an
`INSTANCE ... WITH`). So what `Parse` and `MsgTokens` of `CaHttpFrame` say about the parser is
not an assumption: it is what the model of the parser does.

### Client (`HttpMsgStream`, `HttpCnn`)

A request is named by the order of its `request()`, which includes `addMsgStream()` and
`transfer()`. `mCur` is `mCurMsgInfo`, `mPipeList` and `mSendQueList` are as in the code, the
latter pointers into the former. `starttx()` is cut as on the server: `TxTake` (takes a message
from the queue), `TxBlocked`, `TxSend`, `TxDone`, `TxLack` (the underrun callback, `pc = "under"`),
`UnderReturns`. `procRead()` is `RecvPacket`, `LoopHdr`, `LoopData`, `LoopNone`; `EndReturns` is the
return of the `HTTP_REQ_END` callback, from which the application may make the next request.
The socket is `sock` with the packet it keeps in `held`; `srv` is what the server has read;
`Answer` sends the response to the next request that arrived whole.

### Heads (`CaHttpMsg`, `HttpHeads`)

`HttpHeads` makes the calls an application makes on a `CaHttpReq` (`SetReqHdr`, `SetContent`,
`EnableTransferChunked`, `SetRemoteHostAddr`, `Request`, `ClearRequest`) or a controller
(`Response`) in every order, lets `CaHttpMsg::serialize()` write the text, and reads it back with
the parser and the assembler. `told` is what was asked for since the object was made or cleared,
and `HeadAsAsked` compares it with what the reader was given.

### Bodies (`BodyStreams`)

A body is a sequence of numbered units, so that a unit sent twice, lost or out of order is seen.
`Sources` are the streams it may come from: a string, a file (from an offset, read `BufSize` at a
time), several of them in a `MultiStream`. `enc` is who reads them: nobody in between, the chunk
writer of `CaHttpUrlCtrl`, that of `HttpMsgStream`, `TransfEncStrm`, `MultiStream`. `Take` is one
turn of a transmit loop (get what there is, the socket takes it, `consume()`), `Refuse` a socket
that fails, `End` the end of the stream. `Deliver` gives the receiver any part of what was sent;
its sink is a string, a file, the limited stream of a controller (`DefReqDataStrm`) or the receive
buffer of a `CaHttpReq`. `SetMsg` is the second use of one request object.

### Text parsers

`CaHttpUrlParser`, `CaRangeParser` (both `Range` and `Content-Range`) and `SDPParser` are state
machines over one character, as the code is, folded over the text; `TextParsers` composes texts
(`Url`, a query pair by pair, a range, a description line by line) together with what they mean.

## 3. Assumptions about what is outside

* `EdSmartSocket` (from its use): `sendPacket()` answers OK, PENDING (kept, a writable event
  follows when it has gone) or FAIL (only when the peer is gone, and then for good);
  `isWritable()` is false while a packet is kept; `reserveWrite()` asks for a writable event.
* ednio's tasks handle their messages one by one and in order; `sendMsg()` returns when the
  message was handled, `postMsg()` at once; a timer ticks until it is stopped.
* A failed `assert()` is recorded in `asserted` and execution goes on, as it does in a release
  build (`NDEBUG`); `NoAssertFails` (of `ServCnn`), `NoReaderAssertFails` (`ServRead`) and
  `NoClientAssertFails` (`HttpCnn`) say that none fails. Where a null pointer or an empty
  function would be called, or freed memory read, the outcome includes `pc = "crashed"`.
* The application is constrained only where its calls make no sense: it responds once to a
  request, does not send more than it announced, sends no body through `sendData()` for a
  response that has a stream, starts the server only when it is not running. In the client it
  does nothing in the `HTTP_RESP_HDR` callback and makes no request from within an
  `HTTP_REQ_END` callback that reports an error.
* A date is always the same text; header sections are shorter than the limit of the parser.

## 4. The runs

Bodies have up to 2 units and slices 1 or 2, which gives an empty body, one that is one slice,
and one of several slices. Two requests are enough for an order and for a response behind
another, and three where a queue behind the current one has to have an order. `CHECK_DEADLOCK`
is off because a connection that has served what came, a server that was closed for the last
time and a text that was read rightly stop.

| Run | Question | Bounds |
|---|---|---|
| `serv_pipelined` | requests answered from streams: order of ends, ends only when sent, every request answered; implements `PipelinedServer` | 2 pipelined requests |
| `serv_manual` | keep-alive, the body written from `OnHttpSendBufReady()`: framing, no stranded data | 2 requests, one at a time |
| `serv_mixed` | every response shape, timers call `sendData()` too: order on the wire, pointers, asserts | 2 pipelined requests |
| `byte_read` | bytes through parser and assembler, packets cut after any byte: heads, bodies, where parsing stops, progress; implements `ServRead` | 63 conversations of 2 messages: every method the parser accepts, both line ends, chunk extensions, trailers' look-alikes, keep-alive in both versions, refused tails |
| `read_requests` | requests of every length cut into packets: bodies intact, one at a time, nothing held back | 3 requests, lengths 0, 1, 2 and chunked |
| `server_life` | accept, hand over, ends, close: descriptors, every end accounted for, `close()` complete and returning, idle connections end | 0, 1 or 2 tasks, 3 connections, 2 handles per context, 2 starts |
| `texts` | heads as asked for; URLs, queries, ranges, descriptions read as composed | 175 URLs, 2 query pairs, 4 lines of a description, 2 headers, 2 methods, 2 requests per object |
| `streams` | the wire is the source, complete means whole, bodies arrive | bodies up to 6 units, buffers of 2, slices of 3, a second body |
| `client_keepalive` | a socket that queues, a server that goes away: each request ends well at most once and hears nothing after, nothing unsent, chunks sent once; each is told that it ended | 2 requests, one by one |
| `client_pipeline` | a socket that takes every packet: order, own response, nothing left in the queue, asserts | 3 pipelined requests, one queued at most |

Handles wrap in `server_life`: the counter has two values beside 0, and three connections are
accepted. In `streams` six units are two slices and three buffers, so that a stream ends at, before
and behind each boundary. The conversations of `byte_read` need not be longer than two messages:
what the parser and the assembler carry from a message to the next is reset at each begin, and
`read_requests` has three.

### Where the code fails

Two runs remove a limit and end in a violation of what the code or its test states:

| Run | Limit removed | Finding |
|---|---|---|
| `serv_stall` | responses without a body, pipelined | `ServCnn.cpp:268` leaves the loop though the controller ended: the next response is not sent |
| `client_queue` | three requests before the connection is up | `HttpCnn.cpp:97` takes the back, drops the front: one request is never sent |

The passing runs keep to the part in which the code works. Each constant below excludes one
behaviour; the code is modelled on both sides of it, and a configuration that sets it to TRUE
finds the property violated.

| Constant | Allows | Violated |
|---|---|---|
| `ServCnn` `EagerSend` | a timer calls `sendData()` before it was asked, as that of `ManualPeriodicSendUrl` (`test/test_server.cpp:322`): the assert at `CaHttpUrlCtrl.cpp:187` fails for a response that waits behind another | `NoAssertFails`, `ResponsesWellFramed` |
| `ServRead` `SplitThenNext` | a packet ends a body fetched before and begins a request: counters reset under the body held, `CaHttpFrame.cpp:322` | `NoReaderAssertFails` |
| `ServRead` `ChunkedThenNext` | a packet holds a chunked request and begins another, `CaHttpFrame.cpp:73` | `NoReaderAssertFails` |
| `ByteRead` `SplitUrl` | a packet ends within a URL: `dgUrlCb` (`CaHttpFrame.cpp:374`) assigns what `http_parser.h:83` says may come in pieces | `HeadsAsSent` |
| `ServCnn` `TimerSend`, in `serv_manual` | a timer completes a chunked body (`CaHttpUrlCtrl.cpp:222`): the loop is not started again, the next response waits | `NoStranded` |
| `HttpCnn` `SplitThenNext`, with `Pipelined` | the same in the client: a packet ends the body of a response fetched before and begins the next one | `OwnResponse`, `NoClientAssertFails` |
| `HttpCnn` `SockPends`, with `Pipelined` | the socket keeps a packet: a request taken from the queue is forgotten (`HttpCnn.cpp:91`), an entry of the queue is freed by a response (`HttpCnn.cpp:187`) before the loop reads it (`TxTake`, `pc = "crashed"`) | `NothingUnsent` |
| `HttpCnn` `Resps` with a chunked response, with `Pipelined` | its end is reported twice, the next request ends without a response, `CaHttpFrame.cpp:123` | `OwnResponse` |
| `HttpCnn` `ReqBodies` with a body the application writes, with `Pipelined` | a request is made while the body of another is being written: `starttx()` starts at `mCurMsgInfo` (`HttpCnn.cpp:92`) and leaves when that lacks data, with the new one in the queue, or takes the new one while the body of the one before it is incomplete | `NothingUnsent`, `RequestsInOrder` |
| `HttpCnn` `SendBusy` | the application writes while the socket keeps a packet: the chunk refused is kept in `mChunkedBuf` and -1 returned (`CaHttpReq.cpp:479`); an application that sends it again (`test/test_request.cpp:250`) sends it twice | `BodySentOnce` |
| `HttpCnn` `RequestAfterLoss` | a request on a connection whose loss was dispatched: `mIsConnected` is never reset | `EveryRequestEnds` |
| `ServerLife` `WrapOntoEntry` | the handle counter comes back to a handle in use: the descriptor is lost, the old connection's listener told again | `DescriptorsHeld`, `EndsAccounted` |
| `TextParsers` `BareEnds` | `bytes=a-b` with nothing behind it: the end is lost, `CaRangeParser.cpp:66` | `RangesRight` |
| `TextParsers` `WideStarts` | a `Content-Range` whose start has more than one digit loses the first, `CaContentRangeParser.cpp:51` | `RangesRight` |
| `HttpHeads` `RequestUncleared` | `request()` again without `clearRequest()`: headers the library adds are there twice (`cahttp, cahttp`) | `HeadAsAsked` |
| `BodyStreams` `InnerRanges` | `setRange()` to a range that ends before the file: what is behind it is sent too | `WireIsSource` |
| `BodyStreams` `FilesShrink` | a file shorter than its size was: last chunks without end | `WireIsSource` |
| `BodyStreams` `EmptyParts` | an empty stream in chunks has two last chunks; one in a `MultiStream` ends it | `WireIsSource` |
| `BodyStreams` `ChunkedAgain` | the second chunked body of one request object: its `HttpMsgStream` keeps the flag that says it ended | `WireIsSource` |
| `BodyStreams` `Oversized`, `WriteErrors` | a body longer than the receive buffer, a disk that is full: a hole, and complete all the same | `CompletedIsWhole` |

`client_keepalive` has `SplitThenNext` TRUE: without a pipeline no response can follow in the same
packet. A property is no cover for what its run excludes: the hazards of `PROJECT.json` behind one
of these constants name no property, or name it for the rest of the hazard only, and say so.

Two properties pin down what the code does where one would wish for more:

* `EndsAccounted`: an end by the timer, by the connection's own message (`LM_DISCONNECT`) or by the
  server is told to nobody, and the message leaves the entry in `mCnnList` with its receive buffer
  (`ServCnn.cpp:337`), until a connection gets the same handle or the context closes. The property
  says that this is all that is left, and that no other end leaves anything.
* `NothingAfterEnd`: a request whose packet the socket refused is told `CE_FAIL` and, when the
  connection goes, told again that it ended (`HttpCnn.cpp:269`). The property allows two such calls
  and no more, and none after the request was told it ended well.

Every property of a passing run has a mutant, defined next to what it changes, of the kind a
wrong edit of the code would produce; TLC finds the property violated under it.

Seen while translating, and outside what a property of a run can say:

* a message with an empty header value glues the next header to it (`CaHttpFrame.cpp:244`), and
  trailers of a chunked message become headers of the next one;
* a response read until the connection closes is taken for one without a body;
* the move operator of `CaHttpMsg` moves neither `mMsgFlag` nor `mMethodStr` (`CaHttpMsg.h:31`);
* a path that is followed by a fragment and no query keeps the fragment (`CaHttpUrlParser.cpp`),
  `parse()` keeps the parts of an earlier text, `urlEncode()` indexes its table with a negative
  number for bytes above 127 (`CaHttpUrlParser.cpp:109`);
* the `t=` line of a description ends in an error that nobody looks at when a carriage return
  ends it (its times are read), and a description without a last newline loses the last format of its `m=` line;
* the header-value matching of the parser compares `c = LOWER(ch)` with a tab
  (`http_parser.cpp:1686`), which `LOWER()` turns into `)`: of `Connection: x,<tab>close` the
  `close` is not seen (`byte_read` has such a message, and its connection is kept);
* `start()` that fails to listen leaves tasks running that `close()` does not stop.

The composed texts of `TextParsers` and the messages of `MCByteRead` leave these out.

### Fairness

Weak fairness on the steps of a handler that has begun and on the dispatch of what is ready:
the event loop does not stop. Weak fairness on the application's response, and strong fairness on
its `sendData()` for a response or request it announced: it is asked again and again, each time
in a state in which it may also return without sending, and an application that never sends what
it announced would keep its peer waiting by its own fault. Weak fairness on the other side
answering what arrived. In `ServerLife`, weak fairness on each task's loop, on the main task
inside a call, and on timers. In `ByteRead`, on reading bytes that were sent. In `BodyStreams`, on
the loop and on delivery. None on the arrival of requests, on failures, on closing, on the peer's
disconnection or on application timers.

## 5. What is proved

`ServCnnProofs` proves for every number of requests, body length, slice, set of response shapes
and setting of the flags:

* `TypeCorrect`: `Spec => []TypeOK`
* `EndsInOrder`: `Spec => []EndedInOrder`, controllers end once each and in request order
* `NothingDangles`: `Spec => []NoDanglingCtrl`
* `PipelineOrder`: `Spec => []WireInOrder`
* `AskedMaySend`: `Spec => []NoAssertFails` when `EagerSend` is false: `sendData()` finds the
  header gone as long as timers wait until `OnHttpSendBufReady()` asked once

from the assumptions on the constants (`NReqAssumption`, `MaxLenAssumption`, `SliceAssumption`,
`AppShapesAssumption`, `FlagsAssumption`). The argument for the first four is one inductive
invariant,

    IInv == TypeOK /\ EndedInOrder /\ NoDanglingCtrl /\ ReqCtrlIsLast
                   /\ HandlerIsOpen /\ WireOrder

`EndedInOrder` fixes the live list as the numbers `nreq - Len + 1 .. nreq`, so that popping the
front is ending the oldest, whoever `endCtrl()` is given; that the one given is the oldest is
`TxAtFront`, part of `NoDanglingCtrl`. `ReqCtrlIsLast` (the controller that receives a body is
the newest) is needed because `endCtrl()` may end it early, and then it must not be deleted before
the next header replaces it. `HandlerIsOpen` (a handler runs only on an open connection) is needed
because close empties the list. `WireOrder` strengthens `WireInOrder`: the wire is sorted and
nothing on it is newer than the front. Lemmas for the controller's operators
(`PreparedType`, `ConsumedType`, ...) and for the two ways a step touches the order (`FrontEnds`,
`FrontSends`) carry the case analysis; `StepIInv` has one case per action.

`AskedMaySend` adds `HdrGone`, inductive together with `IInv`: a controller that was asked for
data has no header left, and the one whose callback runs was asked. It holds because
`getDataPtr()` lacks data only behind the header, and because `response()`, the one call that
makes a header, takes the controller out of those asked.

`ServCnnFraming` proves what the peer reads, when `EagerSend` is false and `AppFits` holds:

* `Framing`: `Spec => []ResponsesWellFramed`
* `EndsWhole`: `Spec => []EndedMeansSent`
* `NothingIsStranded`: `Spec => []NoStranded`, with the further hypotheses below

`AppFits` is what the code leaves to the application: a response without a body announces 0, a
chunked one is filled, and a stream has the length that was announced. `setRespContent()` sets the
length -1 and the chunked encoding together and `response(status, data)` takes the length from the
data, so that only the length of a stream of the application's own is its duty. A chunked stream
without any data is excluded: it ends in two last chunks (see `EmptyParts` above). Both properties
speak about `PeerView`, a fold over the wire. The inductive invariant adds to `IInv` and `HdrGone`

    FrameInv == PeerView.ok /\ AskedAreFront
                /\ (open and the socket lives => BehindIsFresh /\ PeerAtFront)

`PeerAtFront` says where the peer is in the front controller's response, as a function of what that
controller still holds: its header stream, its chunk buffer, its counters. `BehindIsFresh` (a
controller behind the front has sent nothing) makes the step from one response to the next;
`AskedAreFront` is why a `sendData()` from a timer writes for the front only. `FrontReads` and the
lemmas before it read one packet of a controller on top of `PeerAtFront`.

`NoStranded` says that no handler leaves the loop while the socket takes data and a response has
some. It is proved when a request comes only after the response to the one before (`Pipelined` is
false) and the body is written from `OnHttpSendBufReady()` (`TimerSend` is false). Neither is there
for the proof: with `Pipelined` the loop is left at a response without a body (`serv_stall`), and
a chunked response that a timer completes is not noticed by the loop, which left its controller in
the list, so that the next response waits behind it (`ServCnn.cpp:268`). `RestInv` adds to the
invariants above that at most one controller is listed and that on a socket that takes data the
handlers leave it starved: its stream has nothing, and the application was asked and has not
written (`FrontRests`; while the callback runs, `mPauseSend` tells whether it has).

`ServCnnAnswers` proves `PromiseKept`: `Spec => KeepsPromise`, that `ServCnn` implements
`PipelinedServer`, from the same hypotheses as `Framing`, so for pipelined requests and timers too.
Every action is mapped to the step it takes: `TxSend` and `SendData` to `Answer` when the last token
of a response leaves, `TxDone` and the ends of `procRead()` to `End`, a packet refused to `Break` or
`GiveUp`, the ways to close to `Close`, the rest to none. The invariant it needs beside `IInv`,
`HdrGone` and `FrameInv` is `AnsInv`: on an open connection the peer has read all responses before
the front's and of the front's at most the whole (`NotOver`), and a connection breaks only when the
peer has gone.

`ServerLifeProofs` proves `ServerTypeCorrect`, `Spec => []TypeOK` of the server, for every set of
task counts and of descriptors, every size of the handle counter and any number of connections:
`TypeOK` is inductive by itself. `NextHandle` staying below the counter's size (`HandleType`) and
`mJobOrder % mTaskNum` naming a task that was started (`CtxOf`) are what is not plain in it.

It proves further, when the counter does not come back to a handle in use (`WrapOntoEntry` is
false; when it does, the code loses the descriptor):

* `CloseEndsAll`: `Spec => []CloseIsComplete`
* `EachEndAccounted`: `Spec => []EndsAccounted`
* `DescriptorInOnePlace`: `Spec => []DescriptorsHeld`

from `KInv == TypeOK /\ Control /\ Items /\ Fates /\ Room /\ Ends`. `Control` ties the queues and
tables to how far a close has come: a closing message is the last of its queue, and the tasks it
has passed have nothing. `Items` says that no two places hold the same connection or descriptor,
so that a handler that takes one away leaves it nowhere. `Fates` says what the listener was told
from where the connection is, and what the table keeps of it once it has ended: nothing, or after
`LM_DISCONNECT` one entry, closed and without a timer. `Room` says that the handles the queued
connections will get are spare, free or left by such an entry: from it follows that `open()` does
not return early. `Ends` keeps what was accepted before the
call.

`FrameLemmas` states once what the assembler holds, whatever packets cut the stream:
`FrameAt(f, m, c, k, h)` says that `f` has been fed the messages `m` up to token `k` of message `c`
and that `h` headers were fetched. `PacketFed` (a packet moves `k` and `c` on), `MsgFetched` and
`PartFetched` (`fetchMsg()` and `fetchData()` keep the place) are the lemmas a connection needs.
`ServReadProofs` proves with them, when no packet ends a body fetched in part and begins a request
(`SplitThenNext`) and none holds a chunked request and begins another (`ChunkedThenNext`; both are
cases in which the code fails, section 4):

* `BodiesReachTheirOwn`: `Spec => []BodiesIntact`
* `HeadersInTurn`: `Spec => []OneAtATime`
* `ReceivedIsHandedOn`: `Spec => []NothingHeldBack`
* `AssertsHold`: `Spec => []NoReaderAssertFails`

for every number of requests, every length of body and every packet. `ReadInv` adds to `FrameAt`
where in the stream the packets have come to (`Laid`, `At`), how the controllers stand to the
assembler (`Busy`, `Told`, `Handed`) and that nothing is left when the loop rests (`Paused`).

`HttpCnnProofs` proves of the client connection, when a request is made only while none waits for
its response (`Pipelined` is false):

* `EndsWellOnce`: `Spec => []NothingAfterEnd`
* `ResponsesMatched`: `Spec => []OwnResponse`
* `ClientAssertsHold`: `Spec => []NoClientAssertFails`

for every number of requests, whatever they carry, whatever the responses (chunked ones too) and
however packets cut them, with every other flag free: before the connection is up and after it was
lost, with a socket that keeps packets, and with an application that writes too early. With
`Pipelined` and a chunked response `OwnResponse` is false (section 4), so the hypothesis is not one
of convenience. The inductive invariant is

    CnnInv == One /\ Sending /\ Ends /\ Receiving /\ asserted = {}

The connection knows whose a response is by order alone, so the proof has to follow a request to
the server and back. `One`: `mCur` is the newest request or none, pipe and queue are empty.
`Sending`: the server has read every request before it whole and, while its header has not left its
stream, nothing of it; a packet that the socket keeps is of this request, and holds its header only
if the server has not begun to read it. From this follows that a whole request is counted once, so
that there is never more than one response that no header was fetched of. `Receiving` places the
assembler in the responses laid end to end (`Laid`, `At`, `FrameAt` of `FrameLemmas`) and says in
which of four ways the waiting request stands to them: none waits, nothing of its response has
come (`Awaits`), it has begun to (`Arrives`), or its header was fetched and the request has what was
given out of the body (`Fetched`). `Ends` says what the requests were told. `EndsFew`,
inductive together with it, counts: on a live connection the waiting request was told nothing, or
once, of a refused packet, and then the loop does not come back to it. The lemmas before it
read packets of the client with `ReadAll`, a fold, one entry at a time (`ReadIs`). A body that is
larger than `MaxRecv` loses pieces, as in the code, and `OwnResponse` says nothing of its length.

The second half of `HttpCnnProofs` is about what the server reads:

* `SentInOrder`: `Spec => []RequestsInOrder`
* `NothingLeftUnsent`: `Spec => []NothingUnsent`
* `ChunksArriveOnce`: `Spec => []BodySentOnce`, when `SendBusy` is false (with it, a chunk that a
  busy socket refused is sent twice, section 4)

from two hypotheses on the constants. `BodiesFit` is what `request()` and `setContent()` see to: a
chunked body announces no length, and a stream has the length announced. `Turns` says that requests
are made one at a time, over any socket, or share the connection in a pipeline when the socket takes
every packet at once, at most one is queued before the connection is up, and no body is written by
the application. Each part of it excludes a failure of the code: a socket that keeps a packet makes
`starttx()` forget the request it took from the queue; of three requests made before the connection
is up one is never sent (`client_queue`); and a request made while a body is still
being written stays in the queue, or overtakes it (section 4). The requests may be lost with the connection at any point, and a request made after that is covered.
The inductive invariant is

    SendInv == Bodied /\ Control /\ Connecting /\ Asked /\ InTurn
               /\ (~Pipelined => mSendQueList = << >>)
               /\ (~Lost => Queue /\ Reaches /\ Behind /\ Rests)

`Cursor` is the request that is being sent or was sent last. `Reaches` says where the server is in
it, as a function of what the request still holds (header, stream, announced length, `mChunkedBuf`);
`Behind`, that the requests before it have nothing left and the one in the queue is untouched;
`Queue`, that the queue holds at most the newest request, and only while the loop runs or the
connection is not up; `Rests`, that the stream at the cursor has data only while the loop is at it.
Once the connection is lost only the order remains. `NothingUnsent` is `Rests` and `Behind`;
`RequestsInOrder` is `InTurn`, which `Reaches` makes inductive. Without a pipeline a request may begin
only when the server has read the one before whole; that is `CnnInv` again, because only a response
ends the wait. `OnceInv` counts the units of chunked bodies: what the server has of a body is the
count the application was told, and `mChunkedBuf` is empty as long as the connection lives.

Several of these are about recursive data: a fold over the wire, the parser's tokens fed one by
one, requests laid end to end. The library's induction theorems take an operator as a parameter,
which the installed provers cannot instantiate; `FoldLemmas` therefore proves induction over a
*set* of naturals, `NatSetInduction`, from the well-foundedness of `<`. The set is a value, and the
folds of the community modules, a `CHOOSE` of a recursive function, are shown equal to the sequence
of states they go through (`FoldIsEnd`, `ReadingIsFold`, `FlattenIs`).

Only model-checked: liveness (out of the prover's reach); of `HttpCnn`, requests that share the
connection in a pipe: `OwnResponse` and `NoClientAssertFails` with `Pipelined`, for
which `Receiving` would have to follow several responses at once; the refinement `TokenLevel`, whose
mapping runs through the parser's state; and what `ByteRead`, `BodyStreams`, `HttpHeads` and the text
parsers say. `HttpHeads` and the text parsers work on characters, and a theorem about every text would
have to be carried through each state of the parser.

## 6. What is not modelled

* The registry of controllers by URL (`setUrl()`, `setUrlRegEx()`, `findAndAlloc()`): a lookup in
  a map and a list of regular expressions that is filled before the server starts.
* `CaHttpReqMan::freeRequest()` and `close()`, beyond the connection that its requests share.
* `CONNECT` tunnels and upgraded connections behind the end of parsing
  (`OnHttpReqNonHttpData`), `http_parser_parse_url()`, pausing the parser: nothing uses them.
* `HTTP_RESP_HDR` callbacks that call back into the connection, `HttpCnn::release()` (never called).
* Classes that no code of the library uses: `HttpMsgFrame` (an older copy of the assembler),
  `CaHttpBaseMsg`, `HttpHeaderSet`, `CaSimpleHeaderEnc`, `HttpTrEncReadStream`, `SimpleBuf`,
  `HandleFactory`, `CaHttpSvrReq`.
* Vendored code: `format`, `flog`. Dates and the lookup of host names.
* Memory questions beyond the pointers named in a property.

## 7. What is left

1. The life of `CaHttpReqMan`: requests of one manager that are cleared (`clearRequest()` drops
   the manager, which keeps the request) and closed twice.
2. Proofs: a client connection with a pipeline on the receiving side (`OwnResponse`), with `Receiving` for a sequence of requests instead of one; `WireIsSource` of
   `BodyStreams`.
