----------------------------- MODULE ServerLife -----------------------------
(* The life of server connections: CaHttpServer accepts descriptors and      *)
(* hands them to its tasks (ServTask), whose contexts (HttpServCnnCtx) keep  *)
(* a table of connections and the handle that keys it; how connections end;  *)
(* closeAllConnections() and close().                                        *)
(*                                                                           *)
(* The server belongs to the main task, the connections of a context to the  *)
(* task of the context.  Without tasks (start(0)) the main task has the one  *)
(* context, number 0.                                                        *)
EXTENDS Integers, Sequences, FiniteSets

CONSTANTS TaskNums,       \* what start() may be given
          Fds,            \* descriptors that accept() may return
          HandleMod,      \* values of the uint32_t handle counter
          MaxAccept,      \* bound on the connections accepted
          MaxStart,       \* bound on start()
          WrapOntoEntry   \* the handle counter comes back to a handle in use

ASSUME TaskNumsAssumption == TaskNums \subseteq Nat /\ TaskNums # {}
ASSUME HandleModAssumption == HandleMod \in Nat /\ HandleMod > 1
ASSUME FdsAssumption == Fds \subseteq Nat
ASSUME MaxAssumption == MaxAccept \in Nat /\ MaxStart \in Nat

NoFd == -1                   \* accept() failed, or the socket is closed
Handles == 0 .. HandleMod - 1
Ctxs == {0} \cup UNION {0 .. n - 1 : n \in TaskNums}
Ids == 1 .. MaxAccept

VARIABLES
  main,       \* the main task: "new", "run", "sendall", "waitall" (closeAllConnections()), "exit" (close())
  next,       \* the task it has come to in closeAllConnections() or close()
  mTaskNum, mJobOrder,
  task,       \* per task "none", "up", "exited"
  queue,      \* per task its messages
  mHandleSeed, mCnnList,  \* per context
  open,       \* descriptors of connections that are open
  accepted, starts,       \* calls so far of accept() and of start()
  told,       \* per connection the events its listener was told
  ended,      \* per connection how it ended
  before      \* connections accepted before closeAllConnections() or close() was called

vars == <<main, next, mTaskNum, mJobOrder, task, queue, mHandleSeed, mCnnList, open,
          accepted, starts, told, ended, before>>

(* A connection: its number in the order of acceptance, mSock's descriptor,  *)
(* mCnnTimer, mTimerUpdate, and LM_DISCONNECT in mLocalMsg.                  *)
NoCnn == [id |-> 0, fd |-> NoFd, timer |-> FALSE, upd |-> FALSE, msg |-> FALSE]

(* open() leaves mTimerUpdate as it is in the object, and so does close().   *)
Opened(k, id, fd) == [k EXCEPT !.id = id, !.fd = fd, !.timer = TRUE, !.msg = FALSE]
ClosedCnn(k) == [k EXCEPT !.fd = NoFd, !.timer = FALSE, !.msg = FALSE]
EmptyList == [h \in Handles |-> NoCnn]

Msg(what, id, fd) == [msgid |-> what, id |-> id, fd |-> fd]

Init ==
  /\ main = "new" /\ next = 0 /\ mTaskNum = 0 /\ mJobOrder = 0
  /\ task = [t \in Ctxs |-> "none"] /\ queue = [t \in Ctxs |-> << >>]
  /\ mHandleSeed = [t \in Ctxs |-> 0] /\ mCnnList = [t \in Ctxs |-> EmptyList]
  /\ open = {} /\ accepted = 0 /\ starts = 0
  /\ told = [c \in Ids |-> << >>] /\ ended = [c \in Ids |-> "no"] /\ before = {}

(* The context's task runs its event loop.                                   *)
Running(t) == IF mTaskNum = 0 THEN t = 0 /\ main = "run" ELSE task[t] = "up"

-----------------------------------------------------------------------------
(* HttpServCnnCtx.                                                           *)

(* ++mHandleSeed, once more when it is 0.                                    *)
NextHandle(s) == IF (s + 1) % HandleMod = 0 THEN 1 ELSE s + 1

(* newCnn(): emplace() leaves an entry that is there alone.  If that has a   *)
(* socket, open() returns at once and the listener is told of it again; if   *)
(* not, open() uses the object for the new connection.                       *)
NewCnn(t, id, fd) ==
  LET h == NextHandle(mHandleSeed[t])
      there == mCnnList[t][h]
  IN
  /\ mHandleSeed' = [mHandleSeed EXCEPT ![t] = h]
  /\ IF there.fd # NoFd
     THEN told' = [told EXCEPT ![there.id] = Append(@, "NEW")] /\ UNCHANGED mCnnList
     ELSE /\ mCnnList' = [mCnnList EXCEPT ![t][h] = Opened(there, id, fd)]
          /\ told' = [told EXCEPT ![id] = Append(@, "NEW")]
  /\ UNCHANGED ended

(* The connections of a context that still are, and their descriptors.       *)
Live(t) == {h \in Handles : mCnnList[t][h].id # 0}
FdsOf(t) == {mCnnList[t][h].fd : h \in Live(t)}
Ending(ids, how) == [c \in Ids |-> IF c \in ids /\ ended[c] = "no" THEN how ELSE ended[c]]

CtxCloseForgets(t) ==                  \* mutant: the table is cleared, nothing is closed
  /\ mCnnList' = [mCnnList EXCEPT ![t] = EmptyList]
  /\ UNCHANGED <<open, told, ended>>

(* close(): every connection is closed, nobody is told, the table is cleared.*)
CtxClose(t) ==
  /\ open' = open \ FdsOf(t)
  /\ mCnnList' = [mCnnList EXCEPT ![t] = EmptyList]
  /\ ended' = Ending({mCnnList[t][h].id : h \in Live(t)}, "server")
  /\ UNCHANGED told

-----------------------------------------------------------------------------
(* CaHttpServer.                                                             *)

(* start(): the tasks run, then the server listens.  Each task's first       *)
(* message initialises its context.                                          *)
Start(n) ==
  /\ main = "new" /\ starts < MaxStart
  /\ mTaskNum' = n /\ main' = "run" /\ starts' = starts + 1
  /\ task' = [t \in Ctxs |-> IF t < n THEN "up" ELSE "none"]
  /\ mHandleSeed' = [t \in Ctxs |-> 0]
  /\ UNCHANGED <<next, mJobOrder, queue, mCnnList, open, accepted, told, ended, before>>

(* A handle is spare when no connection has it, or one that has been closed. *)
Spare(k) == k.fd = NoFd /\ ~k.timer

(* The handle the next connection of context t will get comes after those    *)
(* still in its queue.                                                       *)
ComingHandle(t) == ((mHandleSeed[t] + Len(queue[t])) % (HandleMod - 1)) + 1

(* A connection is accepted, or accept() fails: the result is not looked at. *)
Accept(fd) ==
  LET t == IF mTaskNum = 0 THEN 0 ELSE mJobOrder % mTaskNum
      id == accepted + 1
  IN
  /\ main = "run" /\ accepted < MaxAccept /\ fd \in (Fds \ open) \cup {NoFd}
  /\ ~WrapOntoEntry => Len(queue[t]) < HandleMod - 1 /\ Spare(mCnnList[t][ComingHandle(t)])
  /\ accepted' = id
  /\ open' = open \cup ({fd} \ {NoFd})
  /\ IF mTaskNum > 0
     THEN /\ mJobOrder' = mJobOrder + 1
          /\ queue' = [queue EXCEPT ![t] = Append(@, Msg("UM_NEWCNN", id, fd))]
          /\ UNCHANGED <<mHandleSeed, mCnnList, told, ended>>
     ELSE NewCnn(0, id, fd) /\ UNCHANGED <<mJobOrder, queue>>
  /\ UNCHANGED <<main, next, mTaskNum, task, starts, before>>

CloseAllPosts ==                       \* mutant: the message is posted, not sent
  /\ main = "run"
  /\ before' = 1 .. accepted
  /\ IF mTaskNum = 0
     THEN CtxClose(0) /\ UNCHANGED <<main, next, queue>>
     ELSE /\ queue' = [t \in Ctxs |-> IF task[t] = "up" THEN Append(queue[t], Msg("UM_CLOSE_ALLCNN", 0, NoFd))
                                      ELSE queue[t]]
          /\ main' = "sendall" /\ next' = mTaskNum
          /\ UNCHANGED <<mCnnList, open, told, ended>>
  /\ UNCHANGED <<mTaskNum, mJobOrder, task, mHandleSeed, accepted, starts>>

(* closeAllConnections()                                                     *)
CloseAllConnections ==
  /\ main = "run"
  /\ before' = 1 .. accepted
  /\ IF mTaskNum = 0
     THEN CtxClose(0) /\ UNCHANGED main
     ELSE main' = "sendall" /\ UNCHANGED <<mCnnList, open, told, ended>>
  /\ next' = 0
  /\ UNCHANGED <<mTaskNum, mJobOrder, task, queue, mHandleSeed, accepted, starts>>

(* sendMsg() to the next task, whose answer is awaited.                      *)
SendCloseAll ==
  /\ main = "sendall" /\ next < mTaskNum
  /\ queue' = [queue EXCEPT ![next] = Append(@, Msg("UM_CLOSE_ALLCNN", 0, NoFd))]
  /\ main' = "waitall"
  /\ UNCHANGED <<next, mTaskNum, mJobOrder, task, mHandleSeed, mCnnList, open, accepted, starts,
                 told, ended, before>>

CloseAllReturns ==
  /\ main = "sendall" /\ next = mTaskNum
  /\ main' = "run"
  /\ UNCHANGED <<next, mTaskNum, mJobOrder, task, queue, mHandleSeed, mCnnList, open, accepted, starts,
                 told, ended, before>>

(* close(): no more connections, every task is told to exit.                 *)
Close ==
  /\ main = "run"
  /\ main' = "exit" /\ next' = 0 /\ before' = 1 .. accepted
  /\ queue' = [t \in Ctxs |-> IF task[t] = "up" THEN Append(queue[t], Msg("EDM_CLOSE", 0, NoFd)) ELSE queue[t]]
  /\ IF mTaskNum = 0 THEN CtxClose(0) ELSE UNCHANGED <<mCnnList, open, told, ended>>
  /\ UNCHANGED <<mTaskNum, mJobOrder, task, mHandleSeed, accepted, starts>>

(* wait() for the next task and delete it, with what it holds.               *)
WaitTask ==
  /\ main = "exit" /\ next < mTaskNum /\ task[next] = "exited"
  /\ task' = [task EXCEPT ![next] = "none"]
  /\ queue' = [queue EXCEPT ![next] = << >>]
  /\ next' = next + 1
  /\ UNCHANGED <<main, mTaskNum, mJobOrder, mHandleSeed, mCnnList, open, accepted, starts,
                 told, ended, before>>

CloseReturns ==
  /\ main = "exit" /\ next = mTaskNum
  /\ main' = "new"
  /\ UNCHANGED <<next, mTaskNum, mJobOrder, task, queue, mHandleSeed, mCnnList, open, accepted, starts,
                 told, ended, before>>

-----------------------------------------------------------------------------
(* ServTask::OnEventProc()                                                   *)
TaskMsg(t, what) == task[t] = "up" /\ queue[t] # << >> /\ Head(queue[t]).msgid = what

TaskNewCnn(t) ==
  /\ TaskMsg(t, "UM_NEWCNN")
  /\ queue' = [queue EXCEPT ![t] = Tail(@)]
  /\ NewCnn(t, Head(queue[t]).id, Head(queue[t]).fd)
  /\ UNCHANGED <<main, next, mTaskNum, mJobOrder, task, open, accepted, starts, before>>

TaskCloseAll(t) ==
  /\ TaskMsg(t, "UM_CLOSE_ALLCNN")
  /\ queue' = [queue EXCEPT ![t] = Tail(@)]
  /\ CtxClose(t)
  /\ main' = "sendall" /\ next' = next + 1
  /\ UNCHANGED <<mTaskNum, mJobOrder, task, mHandleSeed, accepted, starts, before>>

TaskExitStays(t) ==                    \* mutant: the task closes its connections and goes on
  /\ TaskMsg(t, "EDM_CLOSE")
  /\ queue' = [queue EXCEPT ![t] = Tail(@)]
  /\ CtxClose(t)
  /\ UNCHANGED <<main, next, mTaskNum, mJobOrder, task, mHandleSeed, accepted, starts, before>>

TaskExit(t) ==
  /\ TaskMsg(t, "EDM_CLOSE")
  /\ queue' = [queue EXCEPT ![t] = Tail(@)]
  /\ CtxClose(t)
  /\ task' = [task EXCEPT ![t] = "exited"]
  /\ UNCHANGED <<main, next, mTaskNum, mJobOrder, mHandleSeed, accepted, starts, before>>

-----------------------------------------------------------------------------
FreedKeeps(t, h, how) ==               \* mutant: closed, and not taken from the table
  LET k == mCnnList[t][h] IN
  /\ open' = open \ {k.fd}
  /\ mCnnList' = [mCnnList EXCEPT ![t][h] = ClosedCnn(k)]
  /\ ended' = Ending({k.id}, how)
  /\ UNCHANGED <<main, next, mTaskNum, mJobOrder, task, queue, mHandleSeed, accepted, starts, before>>

(* ServCnn.  A connection that is closed and taken from the table.           *)
Freed(t, h, how) ==
  LET k == mCnnList[t][h] IN
  /\ open' = open \ {k.fd}
  /\ mCnnList' = [mCnnList EXCEPT ![t][h] = NoCnn]
  /\ ended' = Ending({k.id}, how)
  /\ UNCHANGED <<main, next, mTaskNum, mJobOrder, task, queue, mHandleSeed, accepted, starts, before>>

(* NETEV_DISCONNECTED                                                        *)
Disconnected(t, h) ==
  /\ Running(t) /\ mCnnList[t][h].fd # NoFd
  /\ Freed(t, h, "peer")
  /\ told' = [told EXCEPT ![mCnnList[t][h].id] = Append(@, "CLOSE")]

(* NETEV_READABLE, for what it does to the timer.                            *)
Received(t, h) ==
  /\ Running(t) /\ mCnnList[t][h].fd # NoFd
  /\ mCnnList' = [mCnnList EXCEPT ![t][h].upd = TRUE]
  /\ UNCHANGED <<main, next, mTaskNum, mJobOrder, task, queue, mHandleSeed, open, accepted, starts,
                 told, ended, before>>

TimerTickOnce(t, h) ==                 \* mutant: the timer is stopped where it should be kept
  /\ Running(t) /\ mCnnList[t][h].timer
  /\ IF mCnnList[t][h].upd
     THEN /\ mCnnList' = [mCnnList EXCEPT ![t][h].upd = FALSE, ![t][h].timer = FALSE]
          /\ UNCHANGED <<main, next, mTaskNum, mJobOrder, task, queue, mHandleSeed, open, accepted,
                         starts, ended>>
     ELSE Freed(t, h, "timeout")
  /\ UNCHANGED <<told, before>>

(* mCnnTimer: closed when nothing was received since the last tick.          *)
TimerTick(t, h) ==
  /\ Running(t) /\ mCnnList[t][h].timer
  /\ IF mCnnList[t][h].upd
     THEN /\ mCnnList' = [mCnnList EXCEPT ![t][h].upd = FALSE]
          /\ UNCHANGED <<main, next, mTaskNum, mJobOrder, task, queue, mHandleSeed, open, accepted,
                         starts, ended>>
     ELSE Freed(t, h, "timeout")
  /\ UNCHANGED <<told, before>>

(* postCloseConnection(), and LM_DISCONNECT: closed, with its timer, but not *)
(* taken from the table.                                                     *)
PostCloseConnection(t, h) ==
  /\ Running(t) /\ mCnnList[t][h].fd # NoFd
  /\ mCnnList' = [mCnnList EXCEPT ![t][h].msg = TRUE]
  /\ UNCHANGED <<main, next, mTaskNum, mJobOrder, task, queue, mHandleSeed, open, accepted, starts,
                 told, ended, before>>

LmDisconnect(t, h) ==
  LET k == mCnnList[t][h] IN
  /\ Running(t) /\ k.msg
  /\ open' = open \ {k.fd}
  /\ mCnnList' = [mCnnList EXCEPT ![t][h] = ClosedCnn(k)]
  /\ ended' = Ending({k.id}, "message")
  /\ UNCHANGED <<main, next, mTaskNum, mJobOrder, task, queue, mHandleSeed, accepted, starts, told, before>>

-----------------------------------------------------------------------------
TaskStep(t) == TaskNewCnn(t) \/ TaskCloseAll(t) \/ TaskExit(t)
MainStep == SendCloseAll \/ CloseAllReturns \/ WaitTask \/ CloseReturns

Next ==
  \/ \E n \in TaskNums : Start(n)
  \/ \E fd \in Fds \cup {NoFd} : Accept(fd)
  \/ CloseAllConnections \/ Close \/ MainStep
  \/ \E t \in Ctxs : TaskStep(t)
  \/ \E t \in Ctxs, h \in Handles :
       Disconnected(t, h) \/ Received(t, h) \/ TimerTick(t, h) \/ PostCloseConnection(t, h) \/ LmDisconnect(t, h)

(* Event loops run, and timers fire as long as their loop does.              *)
Fairness ==
  /\ WF_vars(MainStep)
  /\ \A t \in Ctxs : WF_vars(TaskStep(t))
  /\ \A t \in Ctxs, h \in Handles \ {0} : WF_vars(TimerTick(t, h))   \* no connection has handle 0

Spec == Init /\ [][Next]_vars /\ Fairness

-----------------------------------------------------------------------------
(* Every variable has its type.                                              *)
TypeOK ==
  /\ main \in {"new", "run", "sendall", "waitall", "exit"}
  /\ mTaskNum \in TaskNums \cup {0} /\ next \in Nat /\ mJobOrder \in Nat
  /\ task \in [Ctxs -> {"none", "up", "exited"}]
  /\ queue \in [Ctxs -> Seq([msgid : {"UM_NEWCNN", "UM_CLOSE_ALLCNN", "EDM_CLOSE"},
                             id : Ids \cup {0}, fd : Fds \cup {NoFd}])]
  /\ mHandleSeed \in [Ctxs -> Handles]
  /\ mCnnList \in [Ctxs -> [Handles -> [id : Ids \cup {0}, fd : Fds \cup {NoFd}, timer : BOOLEAN,
                                        upd : BOOLEAN, msg : BOOLEAN]]]
  /\ open \subseteq Fds /\ accepted \in 0 .. MaxAccept /\ starts \in 0 .. MaxStart
  /\ told \in [Ids -> Seq({"NEW", "CLOSE"})]
  /\ ended \in [Ids -> {"no", "peer", "timeout", "message", "server"}]
  /\ before \subseteq Ids

(* No descriptor is lost or shared: one that was accepted and is not closed  *)
(* waits in a task's queue or belongs to a connection, one of them only, and *)
(* no closed one does.                                                       *)
QueuedFd(fd) == {q \in Ctxs \X (1 .. MaxAccept) : q[2] \in DOMAIN queue[q[1]] /\ queue[q[1]][q[2]].fd = fd}
HeldFd(fd) == {k \in Ctxs \X Handles : mCnnList[k[1]][k[2]].fd = fd}
DescriptorsHeld ==
  \A fd \in Fds : Cardinality(QueuedFd(fd)) + Cardinality(HeldFd(fd)) = IF fd \in open THEN 1 ELSE 0

(* What became of every connection: its listener, the table and the way it   *)
(* ended agree.  The listener is told of it once, when its context has it,   *)
(* and of its end only if the peer ended it: an end by the timer, by the     *)
(* connection's own message or by the server is told to nobody.  One that is *)
(* served has one entry, with a timer that will end it; one that ended has   *)
(* none, except that its own message leaves the entry, closed and spare.     *)
Queued(c) == \E t \in Ctxs : \E i \in DOMAIN queue[t] : queue[t][i].id = c
EntriesOf(c) == {k \in Ctxs \X Handles : mCnnList[k[1]][k[2]].id = c}
EndsAccounted ==
  \A c \in 1 .. accepted :
    /\ told[c] = IF Queued(c) THEN << >> ELSE IF ended[c] = "peer" THEN <<"NEW", "CLOSE">> ELSE <<"NEW">>
    /\ Queued(c) \/ ended[c] \in {"peer", "timeout", "server"} => EntriesOf(c) = {}
    /\ ended[c] = "no" /\ ~Queued(c) => \E k \in EntriesOf(c) : EntriesOf(c) = {k} /\ mCnnList[k[1]][k[2]].timer
    /\ ended[c] = "message" => \A k \in EntriesOf(c) : EntriesOf(c) = {k} /\ Spare(mCnnList[k[1]][k[2]])

(* When closeAllConnections() or close() has returned, every connection      *)
(* accepted before the call has ended, those on their way to a task          *)
(* included; after close() no descriptor is open and no task is left.        *)
CloseIsComplete ==
  /\ main \in {"run", "new"} => \A c \in before : ended[c] # "no"
  /\ main = "new" => open = {} /\ \A t \in Ctxs : task[t] = "none" /\ queue[t] = << >>

(* closeAllConnections() and close() return.                                 *)
CallsReturn == main \in {"sendall", "waitall", "exit"} ~> main \in {"run", "new"}

(* A connection that was accepted ends, unless data keeps coming in.         *)
Active(c) == \E t \in Ctxs, h \in Handles : mCnnList[t][h].id = c /\ mCnnList[t][h].upd
IdleEnds == \A c \in Ids : c <= accepted ~> (ended[c] # "no" \/ Active(c))
=============================================================================
