-------------------------- MODULE ServerLifeProofs --------------------------
(* Proofs about ServerLife for every number of tasks and of connections and  *)
(* every size of the handle counter: the types, and what the server keeps of *)
(* its connections, each descriptor in one place, every end accounted for,   *)
(* and nothing left after a close.  For the latter the handle counter does   *)
(* not come back to a handle in use (~WrapOntoEntry).                        *)
EXTENDS ServerLife, SequenceTheorems, FiniteSetTheorems, TLAPS

Msgs == [msgid : {"UM_NEWCNN", "UM_CLOSE_ALLCNN", "EDM_CLOSE"}, id : Ids \cup {0}, fd : Fds \cup {NoFd}]
Cnns == [id : Ids \cup {0}, fd : Fds \cup {NoFd}, timer : BOOLEAN, upd : BOOLEAN, msg : BOOLEAN]

(* A context's number is one of those that start() may create.               *)
LEMMA CtxOf ==
  ASSUME NEW n \in TaskNums \cup {0}, NEW t \in 0 .. n - 1
  PROVE  t \in Ctxs
BY TaskNumsAssumption DEF Ctxs

LEMMA ZeroIsCtx == 0 \in Ctxs
BY DEF Ctxs

LEMMA EmptyCnns == NoCnn \in Cnns /\ EmptyList \in [Handles -> Cnns]
BY DEF NoCnn, Cnns, EmptyList

(* The fields of a connection that opens and of one that closes.             *)
LEMMA OpenedIs ==
  ASSUME NEW k \in Cnns, NEW id, NEW fd
  PROVE  /\ Opened(k, id, fd).id = id /\ Opened(k, id, fd).fd = fd
         /\ Opened(k, id, fd).timer /\ ~Opened(k, id, fd).msg
BY DEF Cnns, Opened

LEMMA ClosedIs ==
  ASSUME NEW k \in Cnns
  PROVE  /\ ClosedCnn(k).id = k.id /\ ClosedCnn(k).fd = NoFd
         /\ Spare(ClosedCnn(k)) /\ ~ClosedCnn(k).msg
BY DEF Cnns, ClosedCnn, Spare

(* A field of a connection that changes, and the table it is in.             *)
LEMMA CnnFields ==
  ASSUME NEW k \in Cnns, NEW b \in BOOLEAN
  PROVE  /\ [k EXCEPT !.upd = b] \in Cnns /\ [k EXCEPT !.msg = b] \in Cnns
         /\ ClosedCnn(k) \in Cnns
BY DEF Cnns, ClosedCnn

LEMMA TableType ==
  ASSUME TypeOK, NEW t \in Ctxs, NEW h \in Handles, NEW k \in Cnns
  PROVE  mCnnList[t][h] \in Cnns /\ [mCnnList EXCEPT ![t][h] = k] \in [Ctxs -> [Handles -> Cnns]]
<1>1. mCnnList \in [Ctxs -> [Handles -> Cnns]]
  BY DEF TypeOK, Cnns
<1> QED BY <1>1

(* The handle counter stays within its range.                                *)
LEMMA HandleType ==
  ASSUME NEW s \in Handles
  PROVE  NextHandle(s) \in Handles
<1>1. HandleMod \in Nat /\ HandleMod > 1 /\ s \in 0 .. HandleMod - 1
  BY HandleModAssumption DEF Handles
<1>2. CASE s + 1 = HandleMod
  <2>1. (s + 1) % HandleMod = 0
    BY <1>1, <1>2
  <2> QED BY <1>1, <2>1 DEF NextHandle, Handles
<1>3. CASE s + 1 # HandleMod
  <2>1. s + 1 \in 1 .. HandleMod - 1
    BY <1>1, <1>3
  <2>2. (s + 1) % HandleMod = s + 1
    BY <1>1, <2>1
  <2> QED BY <1>1, <2>1, <2>2 DEF NextHandle, Handles
<1> QED BY <1>2, <1>3

(* A new connection, whether its entry is free or not.                       *)
LEMMA NewCnnType ==
  ASSUME TypeOK, NEW t \in Ctxs, NEW id \in Ids \cup {0}, NEW fd \in Fds \cup {NoFd}, NewCnn(t, id, fd)
  PROVE  /\ mHandleSeed' \in [Ctxs -> Handles] /\ mCnnList' \in [Ctxs -> [Handles -> Cnns]]
         /\ told' \in [Ids -> Seq({"NEW", "CLOSE"})] /\ ended' = ended
<1>1. NextHandle(mHandleSeed[t]) \in Handles
  BY HandleType DEF TypeOK
<1> DEFINE h == NextHandle(mHandleSeed[t])
<1>2. mCnnList[t][h] \in Cnns /\ Opened(mCnnList[t][h], id, fd) \in Cnns
  <2>1. mCnnList[t][h] \in Cnns
    BY <1>1, EmptyCnns, TableType
  <2> HIDE DEF h
  <2> QED BY <2>1 DEF Cnns, Opened
<1>3. \A c \in Ids : Append(told[c], "NEW") \in Seq({"NEW", "CLOSE"})
  BY DEF TypeOK
<1>4. mHandleSeed' \in [Ctxs -> Handles] /\ ended' = ended
  BY <1>1 DEF NewCnn, TypeOK
<1>5. mCnnList' \in [Ctxs -> [Handles -> Cnns]]
  <2>1. mCnnList' = mCnnList \/ mCnnList' = [mCnnList EXCEPT ![t][h] = Opened(mCnnList[t][h], id, fd)]
    BY DEF NewCnn
  <2>2. mCnnList \in [Ctxs -> [Handles -> Cnns]]
    BY DEF TypeOK, Cnns
  <2> HIDE DEF h
  <2> QED BY <1>1, <1>2, <2>1, <2>2, TableType
<1>6. told' \in [Ids -> Seq({"NEW", "CLOSE"})]
  <2>1. PICK c : told' = [told EXCEPT ![c] = Append(told[c], "NEW")]
    BY DEF NewCnn
  <2>2. told \in [Ids -> Seq({"NEW", "CLOSE"})]
    BY DEF TypeOK
  <2> QED BY <1>3, <2>1, <2>2
<1> QED BY <1>4, <1>5, <1>6

LEMMA EndingType ==
  ASSUME TypeOK, NEW ids, NEW how \in {"peer", "timeout", "message", "server"}
  PROVE  Ending(ids, how) \in [Ids -> {"no", "peer", "timeout", "message", "server"}]
BY DEF Ending, TypeOK

(* The context's table is cleared.                                           *)
LEMMA CtxCloseType ==
  ASSUME TypeOK, NEW t \in Ctxs, CtxClose(t)
  PROVE  /\ open' \subseteq Fds /\ mCnnList' \in [Ctxs -> [Handles -> Cnns]] /\ told' = told
         /\ ended' \in [Ids -> {"no", "peer", "timeout", "message", "server"}]
BY EmptyCnns, EndingType DEF CtxClose, TypeOK, Cnns

(* A message is put behind those in a task's queue, or taken from its front. *)
LEMMA QueueType ==
  ASSUME TypeOK, NEW t \in Ctxs
  PROVE  /\ \A m \in Msgs : Append(queue[t], m) \in Seq(Msgs)
         /\ queue[t] # << >> => Head(queue[t]) \in Msgs /\ Tail(queue[t]) \in Seq(Msgs)
<1>1. queue[t] \in Seq(Msgs)
  BY DEF TypeOK, Msgs
<1> QED BY <1>1

(* Every variable keeps its type.                                            *)
LEMMA TypeStep == TypeOK /\ [Next]_vars => TypeOK'
<1> SUFFICES ASSUME TypeOK, [Next]_vars PROVE TypeOK'
  OBVIOUS
<1> USE DEF Msgs, Cnns
<1>0. ASSUME NEW t \in Ctxs, NEW h \in Handles, NEW b \in BOOLEAN
       PROVE  /\ mCnnList[t][h] \in Cnns
              /\ [mCnnList[t][h] EXCEPT !.upd = b] \in Cnns /\ [mCnnList[t][h] EXCEPT !.msg = b] \in Cnns
              /\ ClosedCnn(mCnnList[t][h]) \in Cnns
  <2>1. mCnnList[t][h] \in Cnns
    BY EmptyCnns, TableType
  <2> HIDE DEF Cnns
  <2> QED BY <2>1, CnnFields
<1>1. ASSUME NEW n \in TaskNums, Start(n) PROVE TypeOK'
  <2>1. mHandleSeed' \in [Ctxs -> Handles]
    BY <1>1, HandleModAssumption DEF Start, Handles
  <2>2. starts' \in 0 .. MaxStart
    BY <1>1, MaxAssumption DEF Start, TypeOK
  <2> QED BY <1>1, <2>1, <2>2 DEF Start, TypeOK
<1>2. ASSUME NEW fd \in Fds \cup {NoFd}, Accept(fd) PROVE TypeOK'
  <2> DEFINE t == IF mTaskNum = 0 THEN 0 ELSE mJobOrder % mTaskNum
             m == Msg("UM_NEWCNN", accepted + 1, fd)
  <2>1. accepted + 1 \in Ids /\ accepted' \in 0 .. MaxAccept /\ open' \subseteq Fds
    BY <1>2, MaxAssumption DEF Accept, TypeOK, Ids
  <2>2. mTaskNum \in TaskNums \cup {0} /\ mTaskNum \in Nat /\ mJobOrder \in Nat
    BY TaskNumsAssumption DEF TypeOK
  <2>3. t \in Ctxs
    <3>1. CASE mTaskNum = 0
      BY <3>1, ZeroIsCtx
    <3>2. CASE mTaskNum # 0
      <4>1. t \in 0 .. mTaskNum - 1
        BY <2>2, <3>2
      <4> QED BY <2>2, <4>1, CtxOf
    <3> QED BY <3>1, <3>2
  <2>4. UNCHANGED <<main, next, mTaskNum, task, starts, before>>
    BY <1>2 DEF Accept
  <2>5. CASE mTaskNum > 0
    <3>1. /\ mJobOrder' = mJobOrder + 1 /\ queue' = [queue EXCEPT ![t] = Append(@, m)]
          /\ UNCHANGED <<mHandleSeed, mCnnList, told, ended>>
      BY <1>2, <2>5 DEF Accept
    <3>2. m \in Msgs
      BY <2>1 DEF Msg
    <3>3. Append(queue[t], m) \in Seq(Msgs)
      BY <2>3, <3>2, QueueType
    <3>4. queue' \in [Ctxs -> Seq(Msgs)]
      BY <3>1, <3>3 DEF TypeOK
    <3>5. mJobOrder' \in Nat
      BY <2>2, <3>1
    <3> HIDE DEF m, t
    <3> QED BY <2>1, <2>4, <3>1, <3>4, <3>5 DEF TypeOK
  <2>6. CASE ~(mTaskNum > 0)
    <3>1. NewCnn(0, accepted + 1, fd) /\ UNCHANGED <<mJobOrder, queue>>
      BY <1>2, <2>6 DEF Accept
    <3>2. /\ mHandleSeed' \in [Ctxs -> Handles] /\ mCnnList' \in [Ctxs -> [Handles -> Cnns]]
          /\ told' \in [Ids -> Seq({"NEW", "CLOSE"})] /\ ended' = ended
      BY <2>1, <3>1, ZeroIsCtx, NewCnnType
    <3> QED BY <2>1, <2>4, <3>1, <3>2 DEF TypeOK
  <2> QED BY <2>5, <2>6
<1>3. CASE CloseAllConnections
  <2>1. /\ open' \subseteq Fds /\ mCnnList' \in [Ctxs -> [Handles -> Cnns]] /\ told' = told
        /\ ended' \in [Ids -> {"no", "peer", "timeout", "message", "server"}]
        /\ main' \in {"run", "sendall"}
    BY <1>3, CtxCloseType, ZeroIsCtx DEF CloseAllConnections, TypeOK
  <2>2. before' \subseteq Ids /\ next' \in Nat
    BY <1>3, MaxAssumption DEF CloseAllConnections, TypeOK, Ids
  <2> QED BY <1>3, <2>1, <2>2 DEF CloseAllConnections, TypeOK
<1>4. CASE SendCloseAll
  <2>1. mTaskNum \in TaskNums \cup {0} /\ mTaskNum \in Nat /\ next \in 0 .. mTaskNum - 1
    BY <1>4, TaskNumsAssumption DEF SendCloseAll, TypeOK
  <2>2. next \in Ctxs
    BY <2>1, CtxOf
  <2>3. Msg("UM_CLOSE_ALLCNN", 0, NoFd) \in Msgs
    BY DEF Msg
  <2>4. queue' \in [Ctxs -> Seq(Msgs)]
    BY <1>4, <2>2, <2>3, QueueType DEF SendCloseAll, TypeOK
  <2> QED BY <1>4, <2>4 DEF SendCloseAll, TypeOK
<1>5. CASE CloseAllReturns
  BY <1>5 DEF CloseAllReturns, TypeOK
<1>6. CASE Close
  <2>1. /\ open' \subseteq Fds /\ mCnnList' \in [Ctxs -> [Handles -> Cnns]] /\ told' = told
        /\ ended' \in [Ids -> {"no", "peer", "timeout", "message", "server"}]
    BY <1>6, CtxCloseType, ZeroIsCtx DEF Close, TypeOK
  <2>2. before' \subseteq Ids
    BY <1>6, MaxAssumption DEF Close, TypeOK, Ids
  <2>3. Msg("EDM_CLOSE", 0, NoFd) \in Msgs
    BY DEF Msg
  <2>4. queue' \in [Ctxs -> Seq(Msgs)]
    BY <1>6, <2>3, QueueType DEF Close, TypeOK
  <2> QED BY <1>6, <2>1, <2>2, <2>4 DEF Close, TypeOK
<1>7. CASE WaitTask
  <2>1. queue' \in [Ctxs -> Seq(Msgs)]
    BY <1>7, EmptySeq DEF WaitTask, TypeOK
  <2>2. next' \in Nat
    BY <1>7 DEF WaitTask, TypeOK
  <2>3. task' \in [Ctxs -> {"none", "up", "exited"}]
    BY <1>7 DEF WaitTask, TypeOK
  <2> QED BY <1>7, <2>1, <2>2, <2>3 DEF WaitTask, TypeOK
<1>8. CASE CloseReturns
  BY <1>8 DEF CloseReturns, TypeOK
<1>9. ASSUME NEW t \in Ctxs, TaskNewCnn(t) PROVE TypeOK'
  <2>1. Head(queue[t]) \in Msgs /\ Tail(queue[t]) \in Seq(Msgs)
    BY <1>9, QueueType DEF TaskNewCnn, TaskMsg
  <2>2. /\ mHandleSeed' \in [Ctxs -> Handles] /\ mCnnList' \in [Ctxs -> [Handles -> Cnns]]
        /\ told' \in [Ids -> Seq({"NEW", "CLOSE"})] /\ ended' = ended
    BY <1>9, <2>1, NewCnnType DEF TaskNewCnn
  <2>3. queue' \in [Ctxs -> Seq(Msgs)]
    BY <1>9, <2>1 DEF TaskNewCnn, TypeOK
  <2> QED BY <1>9, <2>2, <2>3 DEF TaskNewCnn, TypeOK
<1>10. ASSUME NEW t \in Ctxs, TaskCloseAll(t) \/ TaskExit(t) PROVE TypeOK'
  <2>1. Tail(queue[t]) \in Seq(Msgs)
    BY <1>10, QueueType DEF TaskCloseAll, TaskExit, TaskMsg
  <2>2. /\ open' \subseteq Fds /\ mCnnList' \in [Ctxs -> [Handles -> Cnns]] /\ told' = told
        /\ ended' \in [Ids -> {"no", "peer", "timeout", "message", "server"}]
    BY <1>10, CtxCloseType DEF TaskCloseAll, TaskExit
  <2>3. queue' \in [Ctxs -> Seq(Msgs)]
    BY <1>10, <2>1 DEF TaskCloseAll, TaskExit, TypeOK
  <2>4. CASE TaskCloseAll(t)
    <3>1. main' = "sendall" /\ next' \in Nat
      BY <2>4 DEF TaskCloseAll, TypeOK
    <3> QED BY <2>2, <2>3, <2>4, <3>1 DEF TaskCloseAll, TypeOK
  <2>5. CASE TaskExit(t)
    <3>1. task' \in [Ctxs -> {"none", "up", "exited"}]
      BY <2>5 DEF TaskExit, TypeOK
    <3> QED BY <2>2, <2>3, <2>5, <3>1 DEF TaskExit, TypeOK
  <2> QED BY <1>10, <2>4, <2>5
<1>11. ASSUME NEW t \in Ctxs, NEW h \in Handles, NEW how \in {"peer", "timeout"}, Freed(t, h, how),
              told' \in [Ids -> Seq({"NEW", "CLOSE"})]
       PROVE  TypeOK'
  <2>1. mCnnList' \in [Ctxs -> [Handles -> Cnns]] /\ open' \subseteq Fds
    BY <1>11, EmptyCnns DEF Freed, TypeOK
  <2>2. ended' \in [Ids -> {"no", "peer", "timeout", "message", "server"}]
    BY <1>11, EndingType DEF Freed
  <2> QED BY <1>11, <2>1, <2>2 DEF Freed, TypeOK
<1>12. ASSUME NEW t \in Ctxs, NEW h \in Handles, Disconnected(t, h) PROVE TypeOK'
  <2>1. \A c \in Ids : Append(told[c], "CLOSE") \in Seq({"NEW", "CLOSE"})
    BY DEF TypeOK
  <2>2. told' \in [Ids -> Seq({"NEW", "CLOSE"})]
    BY <1>12, <2>1 DEF Disconnected, TypeOK
  <2> QED BY <1>11, <1>12, <2>2 DEF Disconnected
<1>13. ASSUME NEW t \in Ctxs, NEW h \in Handles, TimerTick(t, h) PROVE TypeOK'
  <2>1. CASE mCnnList[t][h].upd
    <3>1. mCnnList' = [mCnnList EXCEPT ![t][h] = [mCnnList[t][h] EXCEPT !.upd = FALSE]]
      BY <1>13, <2>1 DEF TimerTick
    <3>2. mCnnList' \in [Ctxs -> [Handles -> Cnns]]
      BY ZenonT(40), <1>0, <3>1, TableType
    <3> QED BY <1>13, <2>1, <3>2 DEF TimerTick, TypeOK
  <2>2. CASE ~mCnnList[t][h].upd
    <3>1. Freed(t, h, "timeout") /\ told' = told
      BY <1>13, <2>2 DEF TimerTick
    <3> QED BY <1>11, <3>1 DEF TypeOK
  <2> QED BY <2>1, <2>2
<1>14. ASSUME NEW t \in Ctxs, NEW h \in Handles, Received(t, h) \/ PostCloseConnection(t, h) PROVE TypeOK'
  <2>1. \/ mCnnList' = [mCnnList EXCEPT ![t][h] = [mCnnList[t][h] EXCEPT !.upd = TRUE]]
        \/ mCnnList' = [mCnnList EXCEPT ![t][h] = [mCnnList[t][h] EXCEPT !.msg = TRUE]]
    BY <1>14 DEF Received, PostCloseConnection
  <2>2. mCnnList' \in [Ctxs -> [Handles -> Cnns]]
    <3>1. \A k \in Cnns : [mCnnList EXCEPT ![t][h] = k] \in [Ctxs -> [Handles -> Cnns]]
      BY TableType
    <3>2. [mCnnList[t][h] EXCEPT !.upd = TRUE] \in Cnns /\ [mCnnList[t][h] EXCEPT !.msg = TRUE] \in Cnns
      BY <1>0
    <3> HIDE DEF Cnns
    <3> QED BY <2>1, <3>1, <3>2
  <2> QED BY <1>14, <2>2 DEF Received, PostCloseConnection, TypeOK
<1>15. ASSUME NEW t \in Ctxs, NEW h \in Handles, LmDisconnect(t, h) PROVE TypeOK'
  <2>1. ClosedCnn(mCnnList[t][h]) \in Cnns
    BY <1>0
  <2>2. mCnnList' \in [Ctxs -> [Handles -> Cnns]] /\ open' \subseteq Fds
    BY <1>15, <2>1, TableType DEF LmDisconnect, TypeOK
  <2>3. ended' \in [Ids -> {"no", "peer", "timeout", "message", "server"}]
    BY <1>15, EndingType DEF LmDisconnect
  <2> QED BY <1>15, <2>2, <2>3 DEF LmDisconnect, TypeOK
<1>16. CASE UNCHANGED vars
  BY <1>16 DEF vars, TypeOK
<1> QED
  BY <1>1, <1>2, <1>3, <1>4, <1>5, <1>6, <1>7, <1>8, <1>9, <1>10, <1>12, <1>13, <1>14, <1>15, <1>16
  DEF Next, MainStep, TaskStep

(* Every variable of the server has its type, always.                        *)
THEOREM ServerTypeCorrect == Spec => []TypeOK
<1>1. Init => TypeOK
  <2> SUFFICES ASSUME Init PROVE TypeOK
    OBVIOUS
  <2>1. mHandleSeed \in [Ctxs -> Handles]
    BY HandleModAssumption DEF Init, Handles
  <2>2. mCnnList \in [Ctxs -> [Handles -> Cnns]]
    BY EmptyCnns DEF Init
  <2> QED BY <2>1, <2>2, MaxAssumption DEF Init, TypeOK, Cnns
<1> QED BY <1>1, TypeStep, PTL DEF Spec

-----------------------------------------------------------------------------
(* The inductive invariant.                                                  *)

(* The context can have nothing: its loop does not run, or it was told to    *)
(* close everything and nothing is accepted yet.                             *)
Idle(t) == ~Running(t) \/ (main \in {"sendall", "waitall"} /\ t < next)

(* The last message of the task's queue is the one that closes everything,   *)
(* and those before it bring connections.                                    *)
Closing(t) == task[t] = "up" /\ (main = "exit" \/ (main = "waitall" /\ t = next))
CloseMsg == Msg(IF main = "exit" THEN "EDM_CLOSE" ELSE "UM_CLOSE_ALLCNN", 0, NoFd)
News(t) == IF Closing(t) THEN Len(queue[t]) - 1 ELSE Len(queue[t])

TaskIs(t) ==
  /\ main = "new" => task[t] = "none"
  /\ main \in {"run", "sendall", "waitall"} => task[t] = IF t < mTaskNum THEN "up" ELSE "none"
  /\ main = "exit" => IF next <= t /\ t < mTaskNum THEN task[t] \in {"up", "exited"}
                      ELSE task[t] = "none"

Phases ==
  /\ main \in {"sendall", "exit"} => next <= mTaskNum
  /\ main = "waitall" => next < mTaskNum
  /\ \A t \in Ctxs : TaskIs(t)

(* The connections in a queue come in the order they were accepted in.       *)
Queues ==
  \A t \in Ctxs :
    /\ task[t] # "up" => queue[t] = << >>
    /\ Closing(t) => Len(queue[t]) > 0 /\ queue[t][Len(queue[t])] = CloseMsg
    /\ \A i \in 1 .. News(t) : queue[t][i].msgid = "UM_NEWCNN" /\ queue[t][i].id \in i .. accepted

Cleared == \A t \in Ctxs : Idle(t) => queue[t] = << >> /\ mCnnList[t] = EmptyList

Control == Phases /\ Queues /\ Cleared

(* Two entries for the same connection or the same descriptor.               *)
Clash(a, b) == (a.id = b.id /\ a.id # 0) \/ (a.fd = b.fd /\ a.fd # NoFd)

QueuesDiffer ==
  \A t, u \in Ctxs : \A i \in DOMAIN queue[t], j \in DOMAIN queue[u] :
    Clash(queue[t][i], queue[u][j]) => t = u /\ i = j
TablesDiffer ==
  \A t, u \in Ctxs : \A g, h \in Handles : Clash(mCnnList[t][g], mCnnList[u][h]) => t = u /\ g = h
QueueAndTable ==
  \A t, u \in Ctxs : \A i \in DOMAIN queue[t], h \in Handles : ~Clash(queue[t][i], mCnnList[u][h])

InQueue(fd) == \E t \in Ctxs : \E i \in DOMAIN queue[t] : queue[t][i].fd = fd
InTable(fd) == \E t \in Ctxs : \E h \in Handles : mCnnList[t][h].fd = fd
OpenIs == \A fd \in Fds : fd \in open <=> InQueue(fd) \/ InTable(fd)

Entries ==
  \A t \in Ctxs, h \in Handles :
    /\ mCnnList[t][h].id = 0 => mCnnList[t][h] = NoCnn
    /\ mCnnList[t][h].id <= accepted

(* Every descriptor and every connection is in one place.                    *)
Items == QueuesDiffer /\ TablesDiffer /\ QueueAndTable /\ OpenIs /\ Entries

(* What a connection's listener was told goes with where the connection is,  *)
(* and one that is in no place has ended.                                    *)
Held(c) == \E t \in Ctxs : \E h \in Handles : mCnnList[t][h].id = c
Fate(c) ==
  /\ c > accepted \/ Queued(c) => ended[c] = "no" /\ told[c] = << >>
  /\ c <= accepted /\ ~Queued(c) =>
       told[c] = IF ended[c] = "peer" THEN <<"NEW", "CLOSE">> ELSE <<"NEW">>
  /\ c <= accepted /\ ended[c] = "no" => Queued(c) \/ Held(c)
FateOf(k, e) == (e = "no" /\ k.timer) \/ (e = "message" /\ Spare(k) /\ ~k.msg)
Fates ==
  /\ \A c \in Ids : Fate(c)
  /\ \A t \in Ctxs, h \in Handles :
       LET k == mCnnList[t][h] IN
       k.id # 0 => FateOf(k, ended[k.id])

(* The handle of the i-th connection in the queue is spare, and those        *)
(* handles differ: the counter does not come round within one queue.         *)
Coming(t, i) == ((mHandleSeed[t] + (i - 1)) % (HandleMod - 1)) + 1
Room ==
  \A t \in Ctxs :
    /\ News(t) < HandleMod
    /\ \A i \in 1 .. News(t) : Spare(mCnnList[t][Coming(t, i)])

Ends ==
  /\ before \subseteq 1 .. accepted
  /\ main \in {"run", "new"} => \A c \in before : ended[c] # "no"

KInv == TypeOK /\ Control /\ Items /\ Fates /\ Room /\ Ends

-----------------------------------------------------------------------------
(* The messages of a queue.                                                  *)

LEMMA TypesOf ==
  ASSUME TypeOK
  PROVE  /\ queue \in [Ctxs -> Seq(Msgs)] /\ mCnnList \in [Ctxs -> [Handles -> Cnns]]
         /\ \A t \in Ctxs : /\ Len(queue[t]) \in Nat /\ DOMAIN queue[t] = 1 .. Len(queue[t])
                            /\ \A i \in DOMAIN queue[t] : queue[t][i] \in Msgs
                            /\ t \in Nat
         /\ \A t \in Ctxs, h \in Handles : mCnnList[t][h] \in Cnns
         /\ accepted \in Nat /\ mTaskNum \in Nat /\ next \in Nat
<1>1. queue \in [Ctxs -> Seq(Msgs)] /\ mCnnList \in [Ctxs -> [Handles -> Cnns]]
  BY DEF TypeOK, Msgs, Cnns
<1>2. \A t \in Ctxs, h \in Handles : mCnnList[t][h] \in Cnns
  BY <1>1
<1>3. accepted \in Nat /\ mTaskNum \in Nat /\ next \in Nat
  BY TaskNumsAssumption, MaxAssumption DEF TypeOK
<1>4. \A t \in Ctxs : t \in Nat
  <2>1. \A n \in TaskNums : n \in Nat /\ 0 .. n - 1 \subseteq Nat
    BY TaskNumsAssumption
  <2> QED BY <2>1 DEF Ctxs
<1>5. ASSUME NEW t \in Ctxs
      PROVE  /\ Len(queue[t]) \in Nat /\ DOMAIN queue[t] = 1 .. Len(queue[t])
             /\ \A i \in DOMAIN queue[t] : queue[t][i] \in Msgs
  <2>1. queue[t] \in Seq(Msgs)
    BY <1>1
  <2> QED BY <2>1
<1> QED BY <1>1, <1>2, <1>3, <1>4, <1>5

(* A message brings a connection or is the last one, which names none.       *)
LEMMA MessageIs ==
  ASSUME TypeOK, Queues, NEW t \in Ctxs
  PROVE  /\ News(t) \in 0 .. Len(queue[t])
         /\ \A i \in DOMAIN queue[t] :
              \/ i <= News(t) /\ queue[t][i].msgid = "UM_NEWCNN" /\ queue[t][i].id \in i .. accepted
              \/ i = Len(queue[t]) /\ queue[t][i] = CloseMsg /\ queue[t][i].id = 0
                 /\ queue[t][i].fd = NoFd /\ queue[t][i].msgid # "UM_NEWCNN"
<1>1. Len(queue[t]) \in Nat /\ DOMAIN queue[t] = 1 .. Len(queue[t])
  BY TypesOf
<1>2. Closing(t) => Len(queue[t]) > 0 /\ queue[t][Len(queue[t])] = CloseMsg
  BY DEF Queues
<1>3. CloseMsg.id = 0 /\ CloseMsg.fd = NoFd /\ CloseMsg.msgid # "UM_NEWCNN"
  BY DEF CloseMsg, Msg
<1>4. \A i \in 1 .. News(t) : queue[t][i].msgid = "UM_NEWCNN" /\ queue[t][i].id \in i .. accepted
  BY DEF Queues
<1> QED BY <1>1, <1>2, <1>3, <1>4 DEF News

(* What a clash says of the entries.                                         *)
LEMMA ClashIs ==
  /\ \A a, b : Clash(a, b) => Clash(b, a)
  /\ \A a, b, c : a.id = b.id /\ a.fd = b.fd => (Clash(a, c) <=> Clash(b, c))
  /\ \A a, b : a.id = 0 /\ a.fd = NoFd => ~Clash(a, b) /\ ~Clash(b, a)
BY DEF Clash

-----------------------------------------------------------------------------
(* The places: where each step puts a connection.                            *)

LEMMA ItemsSame ==
  ASSUME Items, UNCHANGED <<queue, mCnnList, open, accepted>>
  PROVE  Items'
BY DEF Items, QueuesDiffer, TablesDiffer, QueueAndTable, OpenIs, InQueue, InTable, Entries

(* A connection that is accepted goes to the end of a task's queue.          *)
LEMMA AcceptItems ==
  ASSUME TypeOK, Items, NEW t \in Ctxs, NEW fd \in (Fds \ open) \cup {NoFd}, NEW m,
         m = Msg("UM_NEWCNN", accepted + 1, fd),
         \A u \in Ctxs : \A i \in DOMAIN queue[u] : queue[u][i].id <= accepted,
         queue' = [queue EXCEPT ![t] = Append(queue[t], m)],
         mCnnList' = mCnnList, accepted' = accepted + 1, open' = open \cup ({fd} \ {NoFd})
  PROVE  Items'
<1> DEFINE last == Len(queue[t]) + 1
<1>1. /\ queue \in [Ctxs -> Seq(Msgs)] /\ Len(queue[t]) \in Nat /\ accepted \in Nat
      /\ m.id = accepted + 1 /\ m.fd = fd /\ NoFd \notin Fds
      /\ \A u \in Ctxs : \A i \in DOMAIN queue[u] : queue[u][i] \in Msgs
      /\ \A u \in Ctxs, h \in Handles : mCnnList[u][h] \in Cnns
  BY TypesOf, FdsAssumption DEF Msg, NoFd
<1>2. \A u \in Ctxs : u # t => queue'[u] = queue[u]
  BY <1>1
<1>3. /\ DOMAIN queue'[t] = 1 .. last /\ DOMAIN queue[t] = 1 .. last - 1 /\ last \in Nat
      /\ queue'[t][last] = m /\ \A i \in 1 .. last - 1 : queue'[t][i] = queue[t][i]
  <2>1. queue'[t] = Append(queue[t], m) /\ queue[t] \in Seq(Msgs)
    BY <1>1
  <2> QED BY <2>1, AppendProperties, LenProperties
<1>4. \A u \in Ctxs : \A i \in DOMAIN queue'[u] :
        \/ u = t /\ i = last /\ queue'[u][i] = m
        \/ ~(u = t /\ i = last) /\ i \in DOMAIN queue[u] /\ queue'[u][i] = queue[u][i]
  BY <1>2, <1>3
<1>5. \A u \in Ctxs : \A i \in DOMAIN queue[u] : i \in DOMAIN queue'[u] /\ queue'[u][i] = queue[u][i]
  BY <1>2, <1>3
<1>6. /\ \A u \in Ctxs : \A i \in DOMAIN queue[u] : ~Clash(queue[u][i], m) /\ ~Clash(m, queue[u][i])
      /\ \A u \in Ctxs, h \in Handles : ~Clash(m, mCnnList[u][h])
  <2>1. ASSUME NEW e, e.id <= accepted, e.id \in Int, e.fd \in Fds => e.fd \in open, e.fd \in Fds \cup {NoFd}
        PROVE  ~Clash(e, m) /\ ~Clash(m, e)
    BY <1>1, <2>1 DEF Clash
  <2>2. ASSUME NEW u \in Ctxs, NEW i \in DOMAIN queue[u]
        PROVE  ~Clash(queue[u][i], m) /\ ~Clash(m, queue[u][i])
    <3>1. queue[u][i].id \in Int /\ queue[u][i].fd \in Fds \cup {NoFd}
      BY <1>1, MaxAssumption DEF Msgs, Ids
    <3>2. queue[u][i].fd \in Fds => queue[u][i].fd \in open
      BY DEF Items, OpenIs, InQueue
    <3> QED BY <2>1, <3>1, <3>2
  <2>3. ASSUME NEW u \in Ctxs, NEW h \in Handles
        PROVE  ~Clash(m, mCnnList[u][h])
    <3>1. mCnnList[u][h].id \in Int /\ mCnnList[u][h].fd \in Fds \cup {NoFd}
      BY <1>1, MaxAssumption DEF Cnns, Ids
    <3>2. mCnnList[u][h].fd \in Fds => mCnnList[u][h].fd \in open
      BY DEF Items, OpenIs, InTable
    <3>3. mCnnList[u][h].id <= accepted
      BY DEF Items, Entries
    <3> QED BY <2>1, <3>1, <3>2, <3>3
  <2> QED BY <2>2, <2>3
<1> HIDE DEF last
<1>7. QueuesDiffer'
  BY <1>4, <1>6 DEF Items, QueuesDiffer
<1>8. QueueAndTable'
  BY <1>4, <1>6 DEF Items, QueueAndTable
<1>9. TablesDiffer'
  BY DEF Items, TablesDiffer
<1>10. OpenIs'
  <2> SUFFICES ASSUME NEW f \in Fds PROVE f \in open' <=> InQueue(f)' \/ InTable(f)'
    BY DEF OpenIs
  <2>1. InTable(f)' <=> InTable(f)
    BY DEF InTable
  <2>2. InQueue(f)' <=> InQueue(f) \/ f = fd
    BY <1>1, <1>3, <1>4, <1>5 DEF InQueue
  <2>3. f \in open' <=> f \in open \/ f = fd
    BY <1>1
  <2> QED BY <2>1, <2>2, <2>3 DEF Items, OpenIs
<1>11. Entries'
  BY <1>1, MaxAssumption DEF Items, Entries, Cnns, Ids
<1> QED BY <1>7, <1>8, <1>9, <1>10, <1>11 DEF Items

(* A connection moves from the front of a queue into the table.              *)
LEMMA NewItems ==
  ASSUME TypeOK, Items, NEW t \in Ctxs, NEW h \in Handles, queue[t] # << >>,
         Head(queue[t]).id # 0, Head(queue[t]).id <= accepted, Spare(mCnnList[t][h]),
         queue' = [queue EXCEPT ![t] = Tail(queue[t])],
         mCnnList' = [mCnnList EXCEPT ![t][h] = Opened(mCnnList[t][h], Head(queue[t]).id, Head(queue[t]).fd)],
         UNCHANGED <<accepted, open>>
  PROVE  Items'
<1> DEFINE m == queue[t][1]
           k == Opened(mCnnList[t][h], m.id, m.fd)
<1>1. /\ queue \in [Ctxs -> Seq(Msgs)] /\ Len(queue[t]) \in Nat \ {0}
      /\ mCnnList \in [Ctxs -> [Handles -> Cnns]] /\ Head(queue[t]) = m /\ NoFd \notin Fds
  BY TypesOf, FdsAssumption, EmptySeq DEF NoFd
<1>2. \A u \in Ctxs : u # t => queue'[u] = queue[u]
  BY <1>1
<1>3. /\ DOMAIN queue'[t] = 1 .. Len(queue[t]) - 1 /\ DOMAIN queue[t] = 1 .. Len(queue[t])
      /\ \A i \in 1 .. Len(queue[t]) - 1 : queue'[t][i] = queue[t][i + 1]
  <2>1. queue'[t] = Tail(queue[t]) /\ queue[t] \in Seq(Msgs)
    BY <1>1
  <2> QED BY <1>1, <2>1, HeadTailProperties, LenProperties
<1>4. /\ mCnnList'[t][h] = k /\ k.id = m.id /\ k.fd = m.fd
      /\ \A u \in Ctxs, g \in Handles : ~(u = t /\ g = h) => mCnnList'[u][g] = mCnnList[u][g]
  <2>1. mCnnList[t][h] \in Cnns
    BY <1>1
  <2>2. k.id = m.id /\ k.fd = m.fd
    BY <2>1, OpenedIs
  <2> HIDE DEF k
  <2> QED BY <1>1, <2>2 DEF k
<1>5. 1 \in DOMAIN queue[t] /\ 1 \in Int
  BY <1>1, <1>3
<1> DEFINE was(u, i) == IF u = t THEN i + 1 ELSE i
<1>6. \A u \in Ctxs : \A i \in DOMAIN queue'[u] :
        /\ was(u, i) \in DOMAIN queue[u] /\ ~(u = t /\ was(u, i) = 1)
        /\ queue'[u][i] = queue[u][was(u, i)]
        /\ \A j \in DOMAIN queue'[u] : was(u, i) = was(u, j) => i = j
  BY <1>1, <1>2, <1>3
<1>7. \A u \in Ctxs : \A i \in DOMAIN queue[u] :
        (u = t /\ i = 1) \/ \E j \in DOMAIN queue'[u] : queue'[u][j] = queue[u][i]
  <2> SUFFICES ASSUME NEW i \in DOMAIN queue[t], i # 1
               PROVE  \E j \in DOMAIN queue'[t] : queue'[t][j] = queue[t][i]
    BY <1>2
  <2>1. i - 1 \in DOMAIN queue'[t] /\ queue'[t][i - 1] = queue[t][i]
    BY <1>1, <1>3
  <2> QED BY <2>1
<1> HIDE DEF was, m, k
<1>8. QueuesDiffer'
  <2> SUFFICES ASSUME NEW u \in Ctxs, NEW v \in Ctxs, NEW i \in DOMAIN queue'[u], NEW j \in DOMAIN queue'[v],
                      Clash(queue'[u][i], queue'[v][j])
               PROVE  u = v /\ i = j
    BY DEF QueuesDiffer
  <2>1. u = v /\ was(u, i) = was(v, j)
    BY <1>6 DEF Items, QueuesDiffer
  <2> QED BY <1>6, <2>1
<1>9. \A u \in Ctxs : \A i \in DOMAIN queue'[u] : ~Clash(queue'[u][i], k)
  <2> SUFFICES ASSUME NEW u \in Ctxs, NEW i \in DOMAIN queue'[u], Clash(queue'[u][i], k) PROVE FALSE
    OBVIOUS
  <2>1. Clash(queue[u][was(u, i)], m)
    BY <1>4, <1>6 DEF Clash
  <2>2. u = t /\ was(u, i) = 1
    BY <1>5, <1>6, <2>1 DEF Items, QueuesDiffer, m
  <2> QED BY <1>6, <2>2
<1>10. QueueAndTable'
  BY <1>4, <1>6, <1>9 DEF Items, QueueAndTable
<1>11. \A u \in Ctxs, g \in Handles : ~Clash(k, mCnnList[u][g]) /\ ~Clash(mCnnList[u][g], k)
  <2> SUFFICES ASSUME NEW u \in Ctxs, NEW g \in Handles PROVE ~Clash(k, mCnnList[u][g])
    BY ClashIs
  <2>1. ~Clash(m, mCnnList[u][g])
    BY <1>5 DEF Items, QueueAndTable, m
  <2> QED BY <1>4, <2>1 DEF Clash
<1>12. TablesDiffer'
  BY <1>4, <1>11 DEF Items, TablesDiffer
<1>13. OpenIs'
  <2> SUFFICES ASSUME NEW f \in Fds PROVE InQueue(f)' \/ InTable(f)' <=> InQueue(f) \/ InTable(f)
    BY DEF OpenIs, Items
  <2>1. InQueue(f)' => InQueue(f)
    BY <1>6 DEF InQueue
  <2>2. InTable(f)' => InQueue(f) \/ InTable(f)
    BY <1>4, <1>5 DEF InQueue, InTable, m
  <2>3. InQueue(f) => InQueue(f)' \/ InTable(f)'
    BY <1>4, <1>7 DEF InQueue, InTable, m
  <2>4. InTable(f) => InTable(f)'
    <3>1. mCnnList[t][h].fd # f
      BY <1>1 DEF Spare
    <3> QED BY <1>4, <3>1 DEF InTable
  <2> QED BY <2>1, <2>2, <2>3, <2>4
<1>14. Entries'
  BY <1>1, <1>4 DEF Items, Entries
<1> QED BY <1>8, <1>10, <1>12, <1>13, <1>14 DEF Items

(* Without tasks it goes into the main task's table at once.                 *)
LEMMA DirectItems ==
  ASSUME TypeOK, Items, NEW t \in Ctxs, NEW h \in Handles, NEW fd \in (Fds \ open) \cup {NoFd},
         Spare(mCnnList[t][h]),
         \A u \in Ctxs : \A i \in DOMAIN queue[u] : queue[u][i].id <= accepted,
         mCnnList' = [mCnnList EXCEPT ![t][h] = Opened(mCnnList[t][h], accepted + 1, fd)],
         queue' = queue, accepted' = accepted + 1, open' = open \cup ({fd} \ {NoFd})
  PROVE  Items'
<1> DEFINE k == Opened(mCnnList[t][h], accepted + 1, fd)
<1>1. /\ mCnnList \in [Ctxs -> [Handles -> Cnns]] /\ accepted \in Nat /\ NoFd \notin Fds
      /\ k.id = accepted + 1 /\ k.fd = fd
      /\ \A u \in Ctxs : \A i \in DOMAIN queue[u] : queue[u][i] \in Msgs
      /\ \A u \in Ctxs, g \in Handles : mCnnList[u][g] \in Cnns
  <2>1. mCnnList[t][h] \in Cnns
    BY TypesOf
  <2>2. k.id = accepted + 1 /\ k.fd = fd
    BY <2>1, OpenedIs
  <2> HIDE DEF k
  <2> QED BY <2>2, TypesOf, FdsAssumption DEF NoFd
<1>2. /\ mCnnList'[t][h] = k
      /\ \A u \in Ctxs, g \in Handles : ~(u = t /\ g = h) => mCnnList'[u][g] = mCnnList[u][g]
  BY <1>1
<1> HIDE DEF k
<1>3. /\ \A u \in Ctxs : \A i \in DOMAIN queue[u] : ~Clash(queue[u][i], k)
      /\ \A u \in Ctxs, g \in Handles : ~Clash(k, mCnnList[u][g]) /\ ~Clash(mCnnList[u][g], k)
  <2>1. ASSUME NEW e, e.id <= accepted, e.id \in Int, e.fd \in Fds => e.fd \in open, e.fd \in Fds \cup {NoFd}
        PROVE  ~Clash(e, k) /\ ~Clash(k, e)
    BY <1>1, <2>1 DEF Clash
  <2>2. ASSUME NEW u \in Ctxs, NEW i \in DOMAIN queue[u]
        PROVE  ~Clash(queue[u][i], k)
    <3>1. queue[u][i].id \in Int /\ queue[u][i].fd \in Fds \cup {NoFd}
      BY <1>1, MaxAssumption DEF Msgs, Ids
    <3>2. queue[u][i].fd \in Fds => queue[u][i].fd \in open
      BY DEF Items, OpenIs, InQueue
    <3> QED BY <2>1, <3>1, <3>2
  <2>3. ASSUME NEW u \in Ctxs, NEW g \in Handles
        PROVE  ~Clash(k, mCnnList[u][g]) /\ ~Clash(mCnnList[u][g], k)
    <3>1. mCnnList[u][g].id \in Int /\ mCnnList[u][g].fd \in Fds \cup {NoFd}
      BY <1>1, MaxAssumption DEF Cnns, Ids
    <3>2. mCnnList[u][g].fd \in Fds => mCnnList[u][g].fd \in open
      BY DEF Items, OpenIs, InTable
    <3>3. mCnnList[u][g].id <= accepted
      BY DEF Items, Entries
    <3> QED BY <2>1, <3>1, <3>2, <3>3
  <2> QED BY <2>2, <2>3
<1>4. QueuesDiffer'
  BY DEF Items, QueuesDiffer
<1>5. QueueAndTable'
  BY <1>2, <1>3 DEF Items, QueueAndTable
<1>6. TablesDiffer'
  BY <1>2, <1>3 DEF Items, TablesDiffer
<1>7. OpenIs'
  <2> SUFFICES ASSUME NEW f \in Fds PROVE f \in open' <=> InQueue(f)' \/ InTable(f)'
    BY DEF OpenIs
  <2>1. InQueue(f)' <=> InQueue(f)
    BY DEF InQueue
  <2>2. InTable(f)' => InTable(f) \/ f = fd
    BY <1>1, <1>2 DEF InTable
  <2>3. InTable(f) \/ f = fd => InTable(f)'
    <3>1. mCnnList[t][h].fd # f
      BY <1>1 DEF Spare
    <3> QED BY <1>1, <1>2, <3>1 DEF InTable
  <2>4. f \in open' <=> f \in open \/ f = fd
    BY <1>1
  <2> QED BY <2>1, <2>2, <2>3, <2>4 DEF Items, OpenIs
<1>8. Entries'
  BY <1>1, <1>2, MaxAssumption DEF Items, Entries, Cnns, Ids
<1> QED BY <1>4, <1>5, <1>6, <1>7, <1>8 DEF Items

(* A message that names no connection goes to the end of some queues.        *)
LEMMA SendItems ==
  ASSUME TypeOK, Items, NEW m, m.id = 0, m.fd = NoFd,
         \A u \in Ctxs : queue'[u] \in {queue[u], Append(queue[u], m)},
         UNCHANGED <<mCnnList, accepted, open>>
  PROVE  Items'
<1>1. /\ queue \in [Ctxs -> Seq(Msgs)] /\ \A u \in Ctxs : Len(queue[u]) \in Nat
      /\ NoFd \notin Fds
  BY TypesOf, FdsAssumption DEF NoFd
<1>2. ASSUME NEW u \in Ctxs
      PROVE  /\ \A i \in DOMAIN queue'[u] : \/ i \in DOMAIN queue[u] /\ queue'[u][i] = queue[u][i]
                                            \/ queue'[u][i] = m
             /\ \A i \in DOMAIN queue[u] : i \in DOMAIN queue'[u] /\ queue'[u][i] = queue[u][i]
  <2>1. queue[u] \in Seq(Msgs)
    BY <1>1
  <2>2. CASE queue'[u] = queue[u]
    BY <2>2
  <2>3. CASE queue'[u] = Append(queue[u], m)
    <3>1. /\ Len(queue[u]) \in Nat /\ DOMAIN queue[u] = 1 .. Len(queue[u])
          /\ DOMAIN queue'[u] = 1 .. Len(queue[u]) + 1
          /\ queue'[u][Len(queue[u]) + 1] = m
          /\ \A i \in 1 .. Len(queue[u]) : queue'[u][i] = queue[u][i]
      BY <2>1, <2>3, AppendProperties, LenProperties
    <3> QED BY <3>1
  <2> QED BY <2>2, <2>3
<1>3. \A e : ~Clash(m, e) /\ ~Clash(e, m)
  BY ClashIs
<1>4. QueuesDiffer'
  BY <1>2, <1>3 DEF Items, QueuesDiffer
<1>5. QueueAndTable'
  BY <1>2, <1>3 DEF Items, QueueAndTable
<1>6. TablesDiffer' /\ Entries'
  BY DEF Items, TablesDiffer, Entries
<1>7. OpenIs'
  <2> SUFFICES ASSUME NEW f \in Fds PROVE InQueue(f)' \/ InTable(f)' <=> InQueue(f) \/ InTable(f)
    BY DEF OpenIs, Items
  <2>1. InTable(f)' <=> InTable(f)
    BY DEF InTable
  <2>2. InQueue(f)' <=> InQueue(f)
    BY <1>1, <1>2 DEF InQueue
  <2> QED BY <2>1, <2>2
<1> QED BY <1>4, <1>5, <1>6, <1>7 DEF Items

(* A context closes what it has; its queue brings nothing more.              *)
LEMMA ClearItems ==
  ASSUME TypeOK, Items, NEW t \in Ctxs, CtxClose(t),
         \A i \in DOMAIN queue[t] : queue[t][i].id = 0 /\ queue[t][i].fd = NoFd,
         queue'[t] = << >>, \A u \in Ctxs : u # t => queue'[u] = queue[u],
         accepted' = accepted
  PROVE  Items'
<1>1. /\ mCnnList \in [Ctxs -> [Handles -> Cnns]] /\ NoFd \notin Fds /\ accepted \in Nat
      /\ \A u \in Ctxs, h \in Handles : mCnnList[u][h] \in Cnns
  BY TypesOf, FdsAssumption DEF NoFd
<1>2. /\ mCnnList'[t] = EmptyList /\ \A u \in Ctxs : u # t => mCnnList'[u] = mCnnList[u]
      /\ \A h \in Handles : mCnnList'[t][h] = NoCnn
  BY <1>1 DEF CtxClose, EmptyList
<1>3. \A u \in Ctxs : \A i \in DOMAIN queue'[u] : u # t
  BY EmptySeq
<1>4. NoCnn.id = 0 /\ NoCnn.fd = NoFd /\ \A e : ~Clash(NoCnn, e) /\ ~Clash(e, NoCnn)
  BY ClashIs DEF NoCnn
<1>5. QueuesDiffer'
  BY <1>3 DEF Items, QueuesDiffer
<1>6. QueueAndTable'
  BY <1>2, <1>3, <1>4 DEF Items, QueueAndTable
<1>7. TablesDiffer'
  BY <1>2, <1>4 DEF Items, TablesDiffer
<1>8. OpenIs'
  <2> SUFFICES ASSUME NEW f \in Fds PROVE f \in open' <=> InQueue(f)' \/ InTable(f)'
    BY DEF OpenIs
  <2>1. f \in open' <=> f \in open /\ f \notin FdsOf(t)
    BY DEF CtxClose
  <2>2. f \in FdsOf(t) <=> \E h \in Handles : mCnnList[t][h].fd = f
    <3>1. \A h \in Handles : mCnnList[t][h].fd = f => mCnnList[t][h].id # 0
      BY <1>1, <1>4 DEF Items, Entries
    <3> QED BY <3>1 DEF FdsOf, Live
  <2>3. InQueue(f)' <=> InQueue(f)
    BY <1>1, <1>3 DEF InQueue
  <2>4. InTable(f)' <=> \E u \in Ctxs : u # t /\ \E h \in Handles : mCnnList[u][h].fd = f
    BY <1>1, <1>2, <1>4 DEF InTable
  <2>5. InQueue(f) => f \notin FdsOf(t)
    BY <1>1, <2>2 DEF InQueue, Items, QueueAndTable, Clash
  <2>6. ASSUME NEW u \in Ctxs, u # t, NEW h \in Handles, mCnnList[u][h].fd = f
        PROVE  f \notin FdsOf(t)
    BY <1>1, <2>2, <2>6 DEF Items, TablesDiffer, Clash
  <2>7. f \in open <=> InQueue(f) \/ (\E u \in Ctxs : u # t /\ \E h \in Handles : mCnnList[u][h].fd = f)
                                  \/ f \in FdsOf(t)
    BY <2>2 DEF Items, OpenIs, InTable
  <2> QED BY <2>1, <2>3, <2>4, <2>5, <2>6, <2>7
<1>9. Entries'
  BY <1>1, <1>2, <1>4 DEF Items, Entries
<1> QED BY <1>5, <1>6, <1>7, <1>8, <1>9 DEF Items

(* A connection's entry changes, or loses its descriptor, which is closed.   *)
LEMMA EntryItems ==
  ASSUME TypeOK, Items, NEW t \in Ctxs, NEW h \in Handles, NEW k,
         mCnnList' = [mCnnList EXCEPT ![t][h] = k],
         k = NoCnn \/ (k.id = mCnnList[t][h].id /\ k.id # 0),
         \/ k.fd = mCnnList[t][h].fd /\ open' = open
         \/ k.fd = NoFd /\ open' = open \ {mCnnList[t][h].fd},
         UNCHANGED <<queue, accepted>>
  PROVE  Items'
<1> DEFINE old == mCnnList[t][h]
<1>1. /\ mCnnList \in [Ctxs -> [Handles -> Cnns]] /\ NoFd \notin Fds /\ accepted \in Nat
      /\ \A u \in Ctxs, g \in Handles : mCnnList[u][g] \in Cnns
  BY TypesOf, FdsAssumption DEF NoFd
<1>2. /\ mCnnList'[t][h] = k
      /\ \A u \in Ctxs, g \in Handles : ~(u = t /\ g = h) => mCnnList'[u][g] = mCnnList[u][g]
  BY <1>1
<1>3. NoCnn.id = 0 /\ NoCnn.fd = NoFd
  BY DEF NoCnn
<1>4. (k.id = old.id \/ k.id = 0) /\ (k.fd = old.fd \/ k.fd = NoFd)
  BY <1>3
<1>5. \A e : (Clash(k, e) => Clash(old, e)) /\ (Clash(e, k) => Clash(e, old))
  BY <1>4 DEF Clash
<1>6. QueuesDiffer'
  BY DEF Items, QueuesDiffer
<1>7. QueueAndTable'
  BY <1>2, <1>5 DEF Items, QueueAndTable
<1>8. TablesDiffer'
  <2> SUFFICES ASSUME NEW u \in Ctxs, NEW v \in Ctxs, NEW g \in Handles, NEW i \in Handles,
                      Clash(mCnnList'[u][g], mCnnList'[v][i])
               PROVE  u = v /\ g = i
    BY DEF TablesDiffer
  <2>1. Clash(mCnnList[u][g], mCnnList[v][i])
    BY <1>2, <1>5
  <2> QED BY <2>1 DEF Items, TablesDiffer
<1>9. OpenIs'
  <2> SUFFICES ASSUME NEW f \in Fds PROVE f \in open' <=> InQueue(f)' \/ InTable(f)'
    BY DEF OpenIs
  <2>1. InQueue(f)' <=> InQueue(f)
    BY DEF InQueue
  <2>2. f \in open <=> InQueue(f) \/ InTable(f)
    BY DEF Items, OpenIs
  <2>3. CASE k.fd = old.fd /\ open' = open
    <3>1. InTable(f)' <=> InTable(f)
      BY <1>2, <2>3 DEF InTable
    <3> QED BY <2>1, <2>2, <2>3, <3>1
  <2>4. CASE k.fd = NoFd /\ open' = open \ {old.fd}
    <3>1. CASE f = old.fd
      <4>1. ~InQueue(f)
        BY <1>1, <3>1 DEF InQueue, Items, QueueAndTable, Clash
      <4>2. ~InTable(f)'
        <5> SUFFICES ASSUME NEW u \in Ctxs, NEW g \in Handles, mCnnList'[u][g].fd = f PROVE FALSE
          BY DEF InTable
        <5>1. ~(u = t /\ g = h) /\ mCnnList[u][g].fd = f
          BY <1>1, <1>2, <2>4
        <5> QED BY <1>1, <3>1, <5>1 DEF Items, TablesDiffer, Clash
      <4> QED BY <2>1, <2>4, <3>1, <4>1, <4>2
    <3>2. CASE f # old.fd
      <4>1. InTable(f)' <=> InTable(f)
        BY <1>1, <1>2, <2>4, <3>2 DEF InTable
      <4> QED BY <2>1, <2>2, <2>4, <3>2, <4>1
    <3> QED BY <3>1, <3>2
  <2> QED BY <2>3, <2>4
<1>10. Entries'
  BY <1>1, <1>2, <1>3 DEF Items, Entries
<1> QED BY <1>6, <1>7, <1>8, <1>9, <1>10 DEF Items

-----------------------------------------------------------------------------
(* The fates: what the listeners were told and how connections ended.        *)

LEMMA FatesSame ==
  ASSUME Fates, UNCHANGED <<queue, mCnnList, told, ended, accepted>>
  PROVE  Fates'
BY DEF Fates, Fate, Queued, Held

LEMMA AcceptFates ==
  ASSUME TypeOK, Fates, NEW t \in Ctxs, NEW m, m.id = accepted + 1,
         queue' = [queue EXCEPT ![t] = Append(queue[t], m)],
         UNCHANGED <<mCnnList, told, ended>>, accepted' = accepted + 1
  PROVE  Fates'
<1>1. queue \in [Ctxs -> Seq(Msgs)] /\ Len(queue[t]) \in Nat /\ accepted \in Nat
  BY TypesOf
<1>2. /\ \A u \in Ctxs : u # t => queue'[u] = queue[u]
      /\ DOMAIN queue'[t] = 1 .. Len(queue[t]) + 1 /\ DOMAIN queue[t] = 1 .. Len(queue[t])
      /\ queue'[t][Len(queue[t]) + 1] = m
      /\ \A i \in 1 .. Len(queue[t]) : queue'[t][i] = queue[t][i]
  <2>1. queue'[t] = Append(queue[t], m) /\ queue[t] \in Seq(Msgs)
    BY <1>1
  <2> QED BY <1>1, <2>1, AppendProperties, LenProperties
<1>3. ASSUME NEW c \in Ids PROVE Queued(c)' <=> Queued(c) \/ c = accepted + 1
  <2>1. \A u \in Ctxs : \A i \in DOMAIN queue[u] : i \in DOMAIN queue'[u] /\ queue'[u][i] = queue[u][i]
    BY <1>1, <1>2
  <2>2. \A u \in Ctxs : \A i \in DOMAIN queue'[u] :
          \/ i \in DOMAIN queue[u] /\ queue'[u][i] = queue[u][i]
          \/ queue'[u][i] = m
    BY <1>1, <1>2
  <2>3. \E i \in DOMAIN queue'[t] : queue'[t][i] = m
    <3>1. Len(queue[t]) + 1 \in DOMAIN queue'[t]
      BY <1>1, <1>2
    <3> QED BY <1>2, <3>1
  <2>4. Queued(c) \/ c = accepted + 1 => Queued(c)'
    BY <2>1, <2>3 DEF Queued
  <2>5. Queued(c)' => Queued(c) \/ c = accepted + 1
    BY <2>2 DEF Queued
  <2> QED BY <2>4, <2>5
<1>4. ASSUME NEW c \in Ids PROVE Fate(c)'
  <2>1. Fate(c) /\ c \in Nat
    BY DEF Fates, Ids
  <2>2. Held(c)' <=> Held(c)
    BY DEF Held
  <2> QED BY <1>1, <1>3, <2>1, <2>2 DEF Fate
<1> QED BY <1>4 DEF Fates

LEMMA SendFates ==
  ASSUME TypeOK, Fates, NEW m, m.id = 0,
         \A u \in Ctxs : queue'[u] \in {queue[u], Append(queue[u], m)},
         UNCHANGED <<mCnnList, told, ended, accepted>>
  PROVE  Fates'
<1>1. ASSUME NEW u \in Ctxs
      PROVE  /\ \A i \in DOMAIN queue'[u] : \/ i \in DOMAIN queue[u] /\ queue'[u][i] = queue[u][i]
                                            \/ queue'[u][i] = m
             /\ \A i \in DOMAIN queue[u] : i \in DOMAIN queue'[u] /\ queue'[u][i] = queue[u][i]
  <2>1. queue[u] \in Seq(Msgs)
    BY TypesOf
  <2>2. CASE queue'[u] = queue[u]
    BY <2>2
  <2>3. CASE queue'[u] = Append(queue[u], m)
    <3>1. /\ Len(queue[u]) \in Nat /\ DOMAIN queue[u] = 1 .. Len(queue[u])
          /\ DOMAIN queue'[u] = 1 .. Len(queue[u]) + 1
          /\ queue'[u][Len(queue[u]) + 1] = m
          /\ \A i \in 1 .. Len(queue[u]) : queue'[u][i] = queue[u][i]
      BY <2>1, <2>3, AppendProperties, LenProperties
    <3> QED BY <3>1
  <2> QED BY <2>2, <2>3
<1>2. ASSUME NEW c \in Ids PROVE Queued(c)' <=> Queued(c)
  <2>1. c # 0
    BY DEF Ids
  <2> QED BY <1>1, <2>1 DEF Queued
<1>3. ASSUME NEW c \in Ids PROVE Fate(c)'
  BY <1>2 DEF Fates, Fate, Held
<1> QED BY <1>3 DEF Fates

(* newCnn(): the listener is told of it, and only now.                       *)
LEMMA NewFates ==
  ASSUME TypeOK, Items, Fates, NEW t \in Ctxs, NEW h \in Handles, queue[t] # << >>,
         Head(queue[t]).id \in Ids, Head(queue[t]).id <= accepted, Spare(mCnnList[t][h]),
         queue' = [queue EXCEPT ![t] = Tail(queue[t])],
         mCnnList' = [mCnnList EXCEPT ![t][h] = Opened(mCnnList[t][h], Head(queue[t]).id, Head(queue[t]).fd)],
         told' = [told EXCEPT ![Head(queue[t]).id] = Append(told[Head(queue[t]).id], "NEW")],
         UNCHANGED <<accepted, ended>>
  PROVE  Fates'
<1> DEFINE m == queue[t][1]
           k == Opened(mCnnList[t][h], m.id, m.fd)
<1>1. /\ queue \in [Ctxs -> Seq(Msgs)] /\ Len(queue[t]) \in Nat \ {0}
      /\ mCnnList \in [Ctxs -> [Handles -> Cnns]] /\ Head(queue[t]) = m
      /\ 1 \in DOMAIN queue[t] /\ 1 \in Int /\ accepted \in Nat
  BY TypesOf, EmptySeq
<1>2. \A u \in Ctxs : u # t => queue'[u] = queue[u]
  BY <1>1
<1>3. /\ DOMAIN queue'[t] = 1 .. Len(queue[t]) - 1 /\ DOMAIN queue[t] = 1 .. Len(queue[t])
      /\ \A i \in 1 .. Len(queue[t]) - 1 : queue'[t][i] = queue[t][i + 1]
  <2>1. queue'[t] = Tail(queue[t]) /\ queue[t] \in Seq(Msgs)
    BY <1>1
  <2> QED BY <1>1, <2>1, HeadTailProperties, LenProperties
<1>4. /\ mCnnList'[t][h] = k /\ k.id = m.id /\ k.id # 0 /\ k.timer
      /\ \A u \in Ctxs, g \in Handles : ~(u = t /\ g = h) => mCnnList'[u][g] = mCnnList[u][g]
  <2>1. mCnnList[t][h] \in Cnns
    BY <1>1
  <2>2. k.id = m.id /\ k.timer
    BY <2>1, OpenedIs
  <2> HIDE DEF k
  <2> QED BY <1>1, <2>2 DEF Ids, k
<1>5. m.id \in Ids /\ m.id <= accepted /\ Queued(m.id)
  BY <1>1 DEF Queued
<1>6. /\ told'[m.id] = <<"NEW">> /\ \A c \in Ids : c # m.id => told'[c] = told[c]
      /\ ended[m.id] = "no"
  <2>1. told[m.id] = << >> /\ ended[m.id] = "no"
    BY <1>5 DEF Fates, Fate
  <2>2. told \in [Ids -> Seq({"NEW", "CLOSE"})] /\ Append(<< >>, "NEW") = <<"NEW">>
    BY DEF TypeOK
  <2> QED BY <1>1, <1>5, <2>1, <2>2
<1>7. ASSUME NEW c \in Ids PROVE Queued(c)' <=> Queued(c) /\ c # m.id
  <2>1. ASSUME Queued(c)' PROVE Queued(c) /\ c # m.id
    <3>0. PICK u \in Ctxs : \E i \in DOMAIN queue'[u] : queue'[u][i].id = c
      BY <2>1 DEF Queued
    <3>1. PICK i \in DOMAIN queue'[u] : queue'[u][i].id = c
      BY <3>0
    <3>2. \E j \in DOMAIN queue[u] : queue[u][j].id = c /\ ~(u = t /\ j = 1)
      BY <1>1, <1>2, <1>3, <3>1
    <3>3. c # m.id
      BY <1>1, <1>4, <3>2 DEF Items, QueuesDiffer, Clash
    <3> QED BY <3>2, <3>3 DEF Queued
  <2>2. ASSUME Queued(c), c # m.id PROVE Queued(c)'
    <3>0. PICK u \in Ctxs : \E i \in DOMAIN queue[u] : queue[u][i].id = c
      BY <2>2 DEF Queued
    <3>1. PICK i \in DOMAIN queue[u] : queue[u][i].id = c
      BY <3>0
    <3>2. CASE u # t
      BY <1>2, <3>1, <3>2 DEF Queued
    <3>3. CASE u = t
      <4>1. i - 1 \in DOMAIN queue'[t] /\ queue'[t][i - 1] = queue[t][i]
        BY <1>1, <1>3, <2>2, <3>1, <3>3
      <4> QED BY <3>1, <3>3, <4>1 DEF Queued
    <3> QED BY <3>2, <3>3
  <2> QED BY <2>1, <2>2
<1>8. ASSUME NEW c \in Ids, c = m.id \/ (Held(c) /\ ended[c] = "no") PROVE Held(c)'
  <2>1. mCnnList[t][h].id = c => ended[c] # "no"
    BY DEF Fates, FateOf, Spare, Ids
  <2>2. Held(c) /\ ended[c] = "no" => Held(c)'
    BY <1>4, <2>1 DEF Held
  <2>3. c = m.id => Held(c)'
    BY <1>4 DEF Held
  <2> QED BY <1>8, <2>2, <2>3
<1> HIDE DEF m, k
<1>9. ASSUME NEW c \in Ids PROVE Fate(c)'
  <2>1. Fate(c) /\ c \in Nat
    BY DEF Fates, Ids
  <2>2. CASE c = m.id
    <3>1. ~Queued(c)' /\ Held(c)' /\ c <= accepted' /\ ~(c > accepted')
      BY <1>1, <1>5, <1>7, <1>8, <2>1, <2>2
    <3>2. told'[c] = <<"NEW">> /\ ended'[c] = "no"
      BY <1>6, <2>2
    <3> QED BY <3>1, <3>2 DEF Fate
  <2>3. CASE c # m.id
    BY <1>6, <1>7, <1>8, <2>1, <2>3 DEF Fate
  <2> QED BY <2>2, <2>3
<1>10. ASSUME NEW u \in Ctxs, NEW g \in Handles, mCnnList'[u][g].id # 0
       PROVE  FateOf(mCnnList'[u][g], ended'[mCnnList'[u][g].id])
  <2>1. CASE u = t /\ g = h
    <3>1. mCnnList'[u][g] = k /\ ended'[k.id] = "no"
      BY <1>4, <1>6, <2>1
    <3> QED BY <1>4, <3>1 DEF FateOf
  <2>2. CASE ~(u = t /\ g = h)
    BY <1>4, <1>10, <2>2 DEF Fates
  <2> QED BY <2>1, <2>2
<1> QED BY <1>9, <1>10 DEF Fates

LEMMA DirectFates ==
  ASSUME TypeOK, Fates, NEW t \in Ctxs, NEW h \in Handles, NEW fd, accepted + 1 \in Ids,
         \A u \in Ctxs : \A i \in DOMAIN queue[u] : queue[u][i].id <= accepted,
         Spare(mCnnList[t][h]),
         mCnnList' = [mCnnList EXCEPT ![t][h] = Opened(mCnnList[t][h], accepted + 1, fd)],
         told' = [told EXCEPT ![accepted + 1] = Append(told[accepted + 1], "NEW")],
         accepted' = accepted + 1, UNCHANGED <<queue, ended>>
  PROVE  Fates'
<1>1. mCnnList \in [Ctxs -> [Handles -> Cnns]] /\ accepted \in Nat
  BY TypesOf
<1> DEFINE k == Opened(mCnnList[t][h], accepted + 1, fd)
<1>2. /\ mCnnList'[t][h] = k /\ k.id = accepted + 1 /\ k.timer
      /\ \A u \in Ctxs, g \in Handles : ~(u = t /\ g = h) => mCnnList'[u][g] = mCnnList[u][g]
  <2>1. mCnnList[t][h] \in Cnns
    BY <1>1
  <2>2. k.id = accepted + 1 /\ k.timer
    BY <2>1, OpenedIs
  <2> HIDE DEF k
  <2> QED BY <1>1, <2>2 DEF k
<1> HIDE DEF k
<1>3. /\ told'[accepted + 1] = <<"NEW">> /\ \A c \in Ids : c # accepted + 1 => told'[c] = told[c]
      /\ ended[accepted + 1] = "no"
  <2>1. told[accepted + 1] = << >> /\ ended[accepted + 1] = "no"
    BY <1>1 DEF Fates, Fate
  <2>2. told \in [Ids -> Seq({"NEW", "CLOSE"})] /\ Append(<< >>, "NEW") = <<"NEW">>
    BY DEF TypeOK
  <2> QED BY <2>1, <2>2
<1>4. \A c \in Ids : Queued(c)' <=> Queued(c)
  BY DEF Queued
<1>5. ~Queued(accepted + 1)
  <2>1. \A u \in Ctxs : \A i \in DOMAIN queue[u] : queue[u][i].id # accepted + 1
    BY <1>1
  <2> QED BY <2>1 DEF Queued
<1>6. ASSUME NEW c \in Ids, c = accepted + 1 \/ (Held(c) /\ ended[c] = "no") PROVE Held(c)'
  <2>1. mCnnList[t][h].id = c => ended[c] # "no"
    BY DEF Fates, FateOf, Spare, Ids
  <2>2. Held(c) /\ ended[c] = "no" => Held(c)'
    BY <1>2, <2>1 DEF Held
  <2>3. c = accepted + 1 => Held(c)'
    BY <1>2 DEF Held
  <2> QED BY <1>6, <2>2, <2>3
<1>7. ASSUME NEW c \in Ids PROVE Fate(c)'
  <2>1. Fate(c) /\ c \in Nat
    BY DEF Fates, Ids
  <2>2. CASE c = accepted + 1
    <3>1. ~Queued(c)' /\ Held(c)' /\ c <= accepted' /\ ~(c > accepted')
      BY <1>1, <1>4, <1>5, <1>6, <2>1, <2>2
    <3>2. told'[c] = <<"NEW">> /\ ended'[c] = "no"
      BY <1>3, <2>2
    <3> QED BY <3>1, <3>2 DEF Fate
  <2>3. CASE c # accepted + 1
    BY <1>1, <1>3, <1>4, <1>6, <2>1, <2>3 DEF Fate
  <2> QED BY <2>2, <2>3
<1>8. ASSUME NEW u \in Ctxs, NEW g \in Handles, mCnnList'[u][g].id # 0
      PROVE  FateOf(mCnnList'[u][g], ended'[mCnnList'[u][g].id])
  <2>1. CASE u = t /\ g = h
    <3>1. mCnnList'[u][g] = k /\ ended'[k.id] = "no"
      BY <1>2, <1>3, <2>1
    <3> QED BY <1>2, <3>1 DEF FateOf
  <2>2. CASE ~(u = t /\ g = h)
    BY <1>2, <1>8, <2>2 DEF Fates
  <2> QED BY <2>1, <2>2
<1> QED BY <1>7, <1>8 DEF Fates

(* A connection whose descriptor, timer or posted message is still there has *)
(* not ended, and its listener was told of it.                               *)
LEMMA EntryIs ==
  ASSUME TypeOK, Items, Fates, NEW t \in Ctxs, NEW h \in Handles,
         mCnnList[t][h].fd # NoFd \/ mCnnList[t][h].timer \/ mCnnList[t][h].msg
  PROVE  LET c == mCnnList[t][h].id IN
         /\ c \in Ids /\ c # 0 /\ c <= accepted /\ ended[c] = "no" /\ ~Queued(c) /\ told[c] = <<"NEW">>
<1> DEFINE k == mCnnList[t][h]
           c == k.id
<1>1. k \in Cnns /\ k # NoCnn /\ ~(Spare(k) /\ ~k.msg)
  BY TypesOf DEF NoCnn, Spare
<1>2. c \in Ids /\ c # 0 /\ c <= accepted
  BY <1>1 DEF Items, Entries, Cnns
<1>3. ended[c] = "no"
  BY <1>1, <1>2 DEF Fates, FateOf
<1>4. ~Queued(c)
  <2>1. \A u \in Ctxs : \A i \in DOMAIN queue[u] : queue[u][i].id # c
    BY <1>2 DEF Items, QueueAndTable, Clash
  <2> QED BY <2>1 DEF Queued
<1>5. told[c] = <<"NEW">>
  <2>1. Fate(c)
    BY <1>2 DEF Fates
  <2> QED BY <1>2, <1>3, <1>4, <2>1 DEF Fate
<1> QED BY <1>2, <1>3, <1>4, <1>5

LEMMA ToldLast == <<"NEW", "CLOSE">> = Append(<<"NEW">>, "CLOSE")
OBVIOUS

(* The connection ends and leaves the table.                                 *)
LEMMA FreedFates ==
  ASSUME TypeOK, Items, Fates, NEW t \in Ctxs, NEW h \in Handles, NEW how \in {"peer", "timeout"},
         mCnnList[t][h].fd # NoFd \/ mCnnList[t][h].timer,
         mCnnList' = [mCnnList EXCEPT ![t][h] = NoCnn],
         ended' = Ending({mCnnList[t][h].id}, how),
         told' = IF how = "peer"
                 THEN [told EXCEPT ![mCnnList[t][h].id] = Append(told[mCnnList[t][h].id], "CLOSE")]
                 ELSE told,
         UNCHANGED <<queue, accepted>>
  PROVE  Fates'
<1> DEFINE d == mCnnList[t][h].id
<1>1. d \in Ids /\ d # 0 /\ d <= accepted /\ ended[d] = "no" /\ ~Queued(d) /\ told[d] = <<"NEW">>
  BY EntryIs
<1>2. /\ mCnnList'[t][h] = NoCnn /\ NoCnn.id = 0
      /\ \A u \in Ctxs, g \in Handles : ~(u = t /\ g = h) => mCnnList'[u][g] = mCnnList[u][g]
  BY TypesOf DEF NoCnn
<1>3. ended'[d] = how /\ \A c \in Ids : c # d => ended'[c] = ended[c]
  BY <1>1 DEF Ending
<1>4. /\ told'[d] = IF how = "peer" THEN <<"NEW", "CLOSE">> ELSE <<"NEW">>
      /\ \A c \in Ids : c # d => told'[c] = told[c]
  <2>1. told \in [Ids -> Seq({"NEW", "CLOSE"})]
    BY DEF TypeOK
  <2>2. Append(<<"NEW">>, "CLOSE") = <<"NEW", "CLOSE">>
    BY ToldLast
  <2> QED BY <1>1, <2>1, <2>2
<1>5. ASSUME NEW c \in Ids PROVE /\ Queued(c)' <=> Queued(c)
                                 /\ c # d /\ Held(c) => Held(c)'
  <2>1. Queued(c)' <=> Queued(c)
    BY DEF Queued
  <2>2. c # d /\ Held(c) => Held(c)'
    BY <1>2 DEF Held
  <2> QED BY <2>1, <2>2
<1>6. ASSUME NEW u \in Ctxs, NEW g \in Handles, ~(u = t /\ g = h), mCnnList[u][g].id # 0
      PROVE  mCnnList[u][g].id # d /\ mCnnList[u][g].id \in Ids
  <2>1. mCnnList[u][g].id # d
    BY <1>1, <1>6 DEF Items, TablesDiffer, Clash
  <2> QED BY <1>6, <2>1, TypesOf DEF Cnns
<1> HIDE DEF d
<1>7. ASSUME NEW c \in Ids PROVE Fate(c)'
  <2>1. Fate(c) /\ c \in Nat /\ accepted \in Nat
    BY TypesOf DEF Fates, Ids
  <2>2. CASE c = d
    <3>1. ~(c > accepted') /\ ~Queued(c)' /\ c <= accepted'
      BY <1>1, <1>5, <2>1, <2>2
    <3>2. ended'[c] = how /\ told'[c] = IF how = "peer" THEN <<"NEW", "CLOSE">> ELSE <<"NEW">>
      BY <1>3, <1>4, <2>2
    <3> QED BY <3>1, <3>2 DEF Fate
  <2>3. CASE c # d
    BY <1>3, <1>4, <1>5, <2>1, <2>3 DEF Fate
  <2> QED BY <2>2, <2>3
<1>8. ASSUME NEW u \in Ctxs, NEW g \in Handles, mCnnList'[u][g].id # 0
      PROVE  FateOf(mCnnList'[u][g], ended'[mCnnList'[u][g].id])
  <2>1. ~(u = t /\ g = h) /\ mCnnList'[u][g] = mCnnList[u][g]
    BY <1>2, <1>8
  <2>2. ended'[mCnnList[u][g].id] = ended[mCnnList[u][g].id]
    BY <1>3, <1>6, <1>8, <2>1
  <2> QED BY <1>8, <2>1, <2>2 DEF Fates
<1> QED BY <1>7, <1>8 DEF Fates

(* LM_DISCONNECT: it ends and stays in the table, closed.                    *)
LEMMA ClosedFates ==
  ASSUME TypeOK, Items, Fates, NEW t \in Ctxs, NEW h \in Handles, mCnnList[t][h].msg,
         mCnnList' = [mCnnList EXCEPT ![t][h] = ClosedCnn(mCnnList[t][h])],
         ended' = Ending({mCnnList[t][h].id}, "message"),
         UNCHANGED <<queue, accepted, told>>
  PROVE  Fates'
<1> DEFINE d == mCnnList[t][h].id
<1>1. d \in Ids /\ d # 0 /\ d <= accepted /\ ended[d] = "no" /\ ~Queued(d) /\ told[d] = <<"NEW">>
  BY EntryIs
<1> DEFINE k == ClosedCnn(mCnnList[t][h])
<1>2. /\ mCnnList'[t][h] = k /\ k.id = d /\ Spare(k) /\ ~k.msg
      /\ \A u \in Ctxs, g \in Handles : ~(u = t /\ g = h) => mCnnList'[u][g] = mCnnList[u][g]
  <2>1. k.id = d /\ Spare(k) /\ ~k.msg
    BY TypesOf, ClosedIs
  <2> HIDE DEF k
  <2> QED BY <2>1, TypesOf DEF k
<1> HIDE DEF k
<1>3. ended'[d] = "message" /\ \A c \in Ids : c # d => ended'[c] = ended[c]
  BY <1>1 DEF Ending
<1>5. ASSUME NEW c \in Ids PROVE /\ Queued(c)' <=> Queued(c)
                                 /\ Held(c) => Held(c)'
  <2>1. Queued(c)' <=> Queued(c)
    BY DEF Queued
  <2>2. Held(c) => Held(c)'
    BY <1>2 DEF Held
  <2> QED BY <2>1, <2>2
<1>6. ASSUME NEW u \in Ctxs, NEW g \in Handles, ~(u = t /\ g = h), mCnnList[u][g].id # 0
      PROVE  mCnnList[u][g].id # d /\ mCnnList[u][g].id \in Ids
  <2>1. mCnnList[u][g].id # d
    BY <1>1, <1>6 DEF Items, TablesDiffer, Clash
  <2> QED BY <1>6, <2>1, TypesOf DEF Cnns
<1> HIDE DEF d
<1>7. ASSUME NEW c \in Ids PROVE Fate(c)'
  <2>1. Fate(c) /\ c \in Nat /\ accepted \in Nat
    BY TypesOf DEF Fates, Ids
  <2>2. CASE c = d
    <3>1. ~(c > accepted') /\ ~Queued(c)' /\ c <= accepted'
      BY <1>1, <1>5, <2>1, <2>2
    <3>2. ended'[c] = "message" /\ told'[c] = <<"NEW">>
      BY <1>1, <1>3, <2>2
    <3> QED BY <3>1, <3>2 DEF Fate
  <2>3. CASE c # d
    BY <1>3, <1>5, <2>1, <2>3 DEF Fate
  <2> QED BY <2>2, <2>3
<1>8. ASSUME NEW u \in Ctxs, NEW g \in Handles, mCnnList'[u][g].id # 0
      PROVE  FateOf(mCnnList'[u][g], ended'[mCnnList'[u][g].id])
  <2>1. CASE u = t /\ g = h
    BY <1>2, <1>3, <2>1 DEF FateOf
  <2>2. CASE ~(u = t /\ g = h)
    <3>1. mCnnList'[u][g] = mCnnList[u][g]
      BY <1>2, <2>2
    <3>2. ended'[mCnnList[u][g].id] = ended[mCnnList[u][g].id]
      BY <1>3, <1>6, <1>8, <2>2, <3>1
    <3> QED BY <1>8, <3>1, <3>2 DEF Fates
  <2> QED BY <2>1, <2>2
<1> QED BY <1>7, <1>8 DEF Fates

(* Flags of an entry change.                                                 *)
LEMMA FlagFates ==
  ASSUME TypeOK, Items, Fates, NEW t \in Ctxs, NEW h \in Handles, NEW k,
         mCnnList[t][h].fd # NoFd \/ mCnnList[t][h].timer, k.id = mCnnList[t][h].id,
         k.timer = mCnnList[t][h].timer,
         mCnnList' = [mCnnList EXCEPT ![t][h] = k],
         UNCHANGED <<queue, accepted, told, ended>>
  PROVE  Fates'
<1>1. /\ mCnnList'[t][h] = k
      /\ \A u \in Ctxs, g \in Handles : ~(u = t /\ g = h) => mCnnList'[u][g] = mCnnList[u][g]
  BY TypesOf
<1>2. ended[k.id] = "no" /\ k.timer
  <2>1. ended[k.id] = "no" /\ k.id # 0
    BY EntryIs
  <2> QED BY <2>1 DEF Fates, FateOf
<1>3. ASSUME NEW c \in Ids PROVE Fate(c)'
  <2>1. (Queued(c)' <=> Queued(c)) /\ Fate(c)
    BY DEF Queued, Fates
  <2>2. Held(c)' <=> Held(c)
    BY <1>1 DEF Held
  <2> QED BY <2>1, <2>2 DEF Fate
<1>4. ASSUME NEW u \in Ctxs, NEW g \in Handles, mCnnList'[u][g].id # 0
      PROVE  FateOf(mCnnList'[u][g], ended'[mCnnList'[u][g].id])
  BY <1>1, <1>2, <1>4 DEF Fates, FateOf
<1> QED BY <1>3, <1>4 DEF Fates

(* close() of a context ends what it has.                                    *)
LEMMA ClearFates ==
  ASSUME TypeOK, Items, Fates, NEW t \in Ctxs, CtxClose(t),
         \A i \in DOMAIN queue[t] : queue[t][i].id = 0,
         queue'[t] = << >>, \A u \in Ctxs : u # t => queue'[u] = queue[u],
         accepted' = accepted
  PROVE  Fates'
<1> DEFINE here(c) == \E h \in Handles : mCnnList[t][h].id = c
<1>1. /\ mCnnList'[t] = EmptyList /\ \A u \in Ctxs : u # t => mCnnList'[u] = mCnnList[u]
      /\ \A h \in Handles : mCnnList'[t][h].id = 0
  BY TypesOf DEF CtxClose, EmptyList, NoCnn
<1>2. told' = told
  BY DEF CtxClose
<1>3. ASSUME NEW c \in Ids
      PROVE  ended'[c] = IF here(c) /\ ended[c] = "no" THEN "server" ELSE ended[c]
  <2>1. c # 0
    BY DEF Ids
  <2> QED BY <2>1 DEF CtxClose, Ending, Live
<1>4. ASSUME NEW c \in Ids PROVE Queued(c)' <=> Queued(c)
  <2>1. \A i \in DOMAIN queue[t] : queue[t][i].id # c
    BY DEF Ids
  <2>2. \A u \in Ctxs : \A i \in DOMAIN queue'[u] : u # t
    BY EmptySeq
  <2> QED BY <2>1, <2>2 DEF Queued
<1>5. ASSUME NEW c \in Ids, Held(c) PROVE here(c) \/ Held(c)'
  BY <1>1, <1>5 DEF Held
<1>6. ASSUME NEW c \in Ids, here(c) PROVE ~Queued(c)
  <2>1. PICK h \in Handles : mCnnList[t][h].id = c
    BY <1>6
  <2>2. \A u \in Ctxs : \A i \in DOMAIN queue[u] : queue[u][i].id # c
    BY <2>1 DEF Items, QueueAndTable, Clash, Ids
  <2> QED BY <2>2 DEF Queued
<1>7. ASSUME NEW u \in Ctxs, NEW g \in Handles, u # t, mCnnList[u][g].id # 0
      PROVE  ~here(mCnnList[u][g].id) /\ mCnnList[u][g].id \in Ids
  <2>1. ~here(mCnnList[u][g].id)
    BY <1>7 DEF Items, TablesDiffer, Clash
  <2> QED BY <1>7, <2>1, TypesOf DEF Cnns
<1>8. ASSUME NEW c \in Ids, here(c) PROVE c <= accepted
  BY <1>8 DEF Items, Entries
<1> HIDE DEF here
<1>9. ASSUME NEW c \in Ids PROVE Fate(c)'
  <2>1. Fate(c) /\ c \in Nat /\ accepted \in Nat
    BY TypesOf DEF Fates, Ids
  <2>2. CASE here(c)
    <3>1. ~(c > accepted') /\ ~Queued(c)' /\ c <= accepted'
      BY <1>4, <1>6, <1>8, <2>1, <2>2
    <3>2. ended'[c] # "no" /\ (ended'[c] = "peer" <=> ended[c] = "peer") /\ told'[c] = told[c]
      BY <1>2, <1>3, <2>2
    <3> QED BY <1>6, <2>1, <2>2, <3>1, <3>2 DEF Fate
  <2>3. CASE ~here(c)
    <3>1. ended'[c] = ended[c] /\ told'[c] = told[c]
      BY <1>2, <1>3, <2>3
    <3> QED BY <1>4, <1>5, <2>1, <2>3, <3>1 DEF Fate
  <2> QED BY <2>2, <2>3
<1>10. ASSUME NEW u \in Ctxs, NEW g \in Handles, mCnnList'[u][g].id # 0
       PROVE  FateOf(mCnnList'[u][g], ended'[mCnnList'[u][g].id])
  <2>1. u # t /\ mCnnList'[u][g] = mCnnList[u][g]
    BY <1>1, <1>10
  <2>2. ended'[mCnnList[u][g].id] = ended[mCnnList[u][g].id]
    BY <1>3, <1>7, <1>10, <2>1
  <2> QED BY <1>10, <2>1, <2>2 DEF Fates
<1> QED BY <1>9, <1>10 DEF Fates

-----------------------------------------------------------------------------
(* The handles: those that the queued connections will get.                  *)

LEMMA Wraps ==
  ASSUME NEW n \in Nat, n > 0
  PROVE  /\ \A x \in 0 .. n - 1 : x % n = x
         /\ \A x \in n .. 2 * n - 1 : x % n = x - n
OBVIOUS

(* newCnn() takes the handle that comes first, and the others stay theirs.   *)
LEMMA HandlesCome ==
  ASSUME NEW s \in Handles
  PROVE  /\ NextHandle(s) = (s % (HandleMod - 1)) + 1
         /\ NextHandle(s) = ((s + 0) % (HandleMod - 1)) + 1
         /\ \A i \in 0 .. HandleMod - 2 : ((s + i) % (HandleMod - 1)) + 1 \in Handles
         /\ \A i \in 1 .. HandleMod - 2 :
              /\ ((s + i) % (HandleMod - 1)) + 1 # NextHandle(s)
              /\ ((NextHandle(s) + (i - 1)) % (HandleMod - 1)) + 1 = ((s + i) % (HandleMod - 1)) + 1
<1> DEFINE n == HandleMod - 1
<1>1. n \in Nat /\ n > 0 /\ s \in 0 .. n /\ HandleMod = n + 1 /\ Handles = 0 .. n
  BY HandleModAssumption DEF Handles
<1>2. /\ \A x \in 0 .. n - 1 : x % n = x
      /\ \A x \in n .. 2 * n - 1 : x % n = x - n
  BY <1>1, Wraps
<1>3. NextHandle(s) = IF s = n THEN 1 ELSE s + 1
  <2>1. CASE s = n
    <3>1. (s + 1) % HandleMod = 0
      BY <1>1, <2>1
    <3> QED BY <2>1, <3>1 DEF NextHandle
  <2>2. CASE s # n
    <3>1. s + 1 \in 1 .. HandleMod - 1
      BY <1>1, <2>2
    <3>2. (s + 1) % HandleMod = s + 1
      BY <1>1, <3>1
    <3> QED BY <1>1, <2>2, <3>2 DEF NextHandle
  <2> QED BY <2>1, <2>2
<1> HIDE DEF n
<1>4. s % n = IF s = n THEN 0 ELSE s
  <2>1. s = n => s \in n .. 2 * n - 1
    BY <1>1
  <2>2. s # n => s \in 0 .. n - 1
    BY <1>1
  <2> QED BY <1>1, <1>2, <2>1, <2>2
<1>5. ASSUME NEW i \in 0 .. n - 1
      PROVE  (s + i) % n = IF s + i < n THEN s + i ELSE s + i - n
  <2>1. CASE s + i < n
    <3>1. s + i \in 0 .. n - 1
      BY <1>1, <2>1
    <3>2. (s + i) % n = s + i
      BY <1>2, <3>1
    <3> QED BY <2>1, <3>2
  <2>2. CASE ~(s + i < n)
    <3>1. s + i \in n .. 2 * n - 1
      BY <1>1, <2>2
    <3>2. (s + i) % n = s + i - n
      BY <1>1, <1>2, <3>1
    <3> QED BY <2>2, <3>2
  <2> QED BY <2>1, <2>2
<1>6. ASSUME NEW i \in 0 .. n - 1 PROVE (s + i) % n \in 0 .. n - 1
  BY <1>1, <1>5
<1>7. ASSUME NEW i \in 1 .. n - 1
      PROVE  /\ ((s + i) % n) + 1 # NextHandle(s)
             /\ ((NextHandle(s) + (i - 1)) % n) + 1 = ((s + i) % n) + 1
  <2>1. (s + i) % n = IF s + i < n THEN s + i ELSE s + i - n
    BY <1>1, <1>5
  <2>2. ((s + i) % n) + 1 # NextHandle(s)
    BY <1>1, <1>3, <2>1
  <2>3. CASE s = n
    <3>1. NextHandle(s) + (i - 1) = i /\ i \in 0 .. n - 1
      BY <1>1, <1>3, <2>3
    <3>2. (NextHandle(s) + (i - 1)) % n = i
      BY <1>2, <3>1
    <3>3. (s + i) % n = i
      BY <1>1, <2>1, <2>3
    <3> QED BY <2>2, <3>2, <3>3
  <2>4. CASE s # n
    <3>1. NextHandle(s) + (i - 1) = s + i
      BY <1>1, <1>3, <2>4
    <3> QED BY <2>2, <3>1
  <2> QED BY <2>3, <2>4
<1>8. s + 0 = s /\ 0 .. HandleMod - 2 = 0 .. n - 1 /\ 1 .. HandleMod - 2 = 1 .. n - 1
  BY <1>1
<1>9. NextHandle(s) = (s % n) + 1
  BY <1>1, <1>3, <1>4
<1>10. NextHandle(s) = ((s + 0) % n) + 1
  BY <1>8, <1>9
<1>11. \A i \in 0 .. n - 1 : ((s + i) % n) + 1 \in Handles
  BY <1>1, <1>6
<1> QED BY <1>7, <1>8, <1>9, <1>10, <1>11 DEF n

LEMMA SeedsOf ==
  ASSUME TypeOK
  PROVE  /\ mHandleSeed \in [Ctxs -> Handles] /\ HandleMod \in Nat /\ HandleMod > 1
         /\ \A t \in Ctxs : mHandleSeed[t] \in Handles /\ mHandleSeed[t] \in Nat
<1>1. mHandleSeed \in [Ctxs -> Handles]
  BY DEF TypeOK
<1>2. HandleMod \in Nat /\ HandleMod > 1 /\ \A h \in Handles : h \in Nat
  BY HandleModAssumption DEF Handles
<1> QED BY <1>1, <1>2

LEMMA NewsOf ==
  ASSUME TypeOK, Queues
  PROVE  \A t \in Ctxs : News(t) \in Nat /\ Len(queue[t]) \in Nat
<1> SUFFICES ASSUME NEW t \in Ctxs PROVE News(t) \in Nat /\ Len(queue[t]) \in Nat
  OBVIOUS
<1>1. Len(queue[t]) \in Nat
  BY TypesOf
<1>2. News(t) \in 0 .. Len(queue[t])
  BY MessageIs
<1> QED BY <1>1, <1>2

(* Nothing new is on its way.                                                *)
LEMMA RoomKept ==
  ASSUME TypeOK, Queues, Room, mHandleSeed' = mHandleSeed,
         \A t \in Ctxs : /\ News(t)' <= News(t) /\ News(t)' \in Nat
                         /\ \A h \in Handles : Spare(mCnnList[t][h]) => Spare(mCnnList'[t][h])
  PROVE  Room'
<1> SUFFICES ASSUME NEW t \in Ctxs
             PROVE  /\ News(t)' < HandleMod
                    /\ \A i \in 1 .. News(t)' : Spare(mCnnList'[t][Coming(t, i)'])
  BY DEF Room
<1>1. News(t) \in Nat /\ mHandleSeed[t] \in Handles /\ HandleMod \in Nat
  BY NewsOf, SeedsOf
<1>2. News(t)' < HandleMod
  BY <1>1 DEF Room
<1>3. ASSUME NEW i \in 1 .. News(t)' PROVE Spare(mCnnList'[t][Coming(t, i)'])
  <2>1. Coming(t, i)' = Coming(t, i)
    BY DEF Coming
  <2>2. i \in 1 .. News(t) /\ i - 1 \in 0 .. HandleMod - 2
    BY <1>1, <1>2
  <2>3. Coming(t, i) \in Handles
    BY <1>1, <2>2, HandlesCome DEF Coming
  <2> QED BY <2>1, <2>2, <2>3 DEF Room
<1> QED BY <1>2, <1>3

(* A connection comes to the end of a queue; the guard of Accept keeps its   *)
(* handle spare.                                                             *)
LEMMA RoomAccept ==
  ASSUME TypeOK, Queues, Room, NEW t \in Ctxs, NEW m, main = "run",
         queue' = [queue EXCEPT ![t] = Append(queue[t], m)],
         Len(queue[t]) < HandleMod - 1, Spare(mCnnList[t][ComingHandle(t)]),
         UNCHANGED <<mHandleSeed, mCnnList, main, next, task>>
  PROVE  Room'
<1>1. queue \in [Ctxs -> Seq(Msgs)] /\ Len(queue[t]) \in Nat /\ HandleMod \in Nat
      /\ mHandleSeed[t] \in Int
  BY TypesOf, SeedsOf
<1>2. \A u \in Ctxs : News(u) = Len(queue[u]) /\ News(u)' = Len(queue'[u])
  BY DEF News, Closing
<1>3. queue'[t] = Append(queue[t], m) /\ \A u \in Ctxs : u # t => queue'[u] = queue[u]
  BY <1>1
<1>4. Len(queue'[t]) = Len(queue[t]) + 1
  <2>1. queue[t] \in Seq(Msgs)
    BY <1>1
  <2> QED BY <1>3, <2>1, AppendProperties
<1>5. ASSUME NEW u \in Ctxs
      PROVE  /\ News(u)' < HandleMod
             /\ \A i \in 1 .. News(u)' : Spare(mCnnList'[u][Coming(u, i)'])
  <2>1. \A i : Coming(u, i)' = Coming(u, i)
    BY DEF Coming
  <2>2. CASE u # t
    BY <1>2, <1>3, <2>1, <2>2 DEF Room
  <2>3. CASE u = t
    <3>1. News(u)' < HandleMod
      BY <1>1, <1>2, <1>4, <2>3
    <3>2. ASSUME NEW i \in 1 .. News(u)' PROVE Spare(mCnnList[t][Coming(t, i)])
      <4>1. CASE i = Len(queue[t]) + 1
        <5>1. i - 1 = Len(queue[t])
          BY <1>1, <4>1
        <5>2. Coming(t, i) = ComingHandle(t)
          BY <5>1 DEF Coming, ComingHandle
        <5> QED BY <5>2
      <4>2. CASE i # Len(queue[t]) + 1
        <5>1. i \in 1 .. News(t)
          BY <1>1, <1>2, <1>4, <2>3, <4>2
        <5> QED BY <5>1 DEF Room
      <4> QED BY <4>1, <4>2
    <3> QED BY <2>1, <2>3, <3>1, <3>2
  <2> QED BY <2>2, <2>3
<1> QED BY <1>5 DEF Room

(* newCnn() takes the first of them.                                         *)
LEMMA RoomNew ==
  ASSUME TypeOK, Queues, Room, NEW t \in Ctxs, NEW k, News(t) >= 1,
         mHandleSeed' = [mHandleSeed EXCEPT ![t] = NextHandle(mHandleSeed[t])],
         mCnnList' = [mCnnList EXCEPT ![t][NextHandle(mHandleSeed[t])] = k],
         News(t)' = News(t) - 1, \A u \in Ctxs : u # t => News(u)' = News(u)
  PROVE  Room'
<1> DEFINE s == mHandleSeed[t]
           n == HandleMod - 1
<1>1. /\ HandleMod \in Nat /\ s \in Handles /\ \A u \in Ctxs : News(u) \in Nat
      /\ mHandleSeed \in [Ctxs -> Handles] /\ mCnnList \in [Ctxs -> [Handles -> Cnns]]
  BY NewsOf, SeedsOf, TypesOf
<1>2. ASSUME NEW u \in Ctxs, u # t
      PROVE  /\ News(u)' < HandleMod
             /\ \A i \in 1 .. News(u)' : Spare(mCnnList'[u][Coming(u, i)'])
  <2>1. mHandleSeed'[u] = mHandleSeed[u] /\ mCnnList'[u] = mCnnList[u]
    BY <1>1, <1>2
  <2>2. \A i : Coming(u, i)' = Coming(u, i)
    BY <2>1 DEF Coming
  <2> QED BY <1>2, <2>1, <2>2 DEF Room
<1>3. News(t)' < HandleMod /\ News(t) < HandleMod
  BY <1>1 DEF Room
<1>4. ASSUME NEW i \in 1 .. News(t)' PROVE Spare(mCnnList'[t][Coming(t, i)'])
  <2>1. i + 1 \in 1 .. News(t) /\ i \in 1 .. HandleMod - 2 /\ (i + 1) - 1 = i /\ i \in 0 .. HandleMod - 2
    BY <1>1, <1>3
  <2>2. /\ ((s + i) % n) + 1 # NextHandle(s) /\ ((s + i) % n) + 1 \in Handles
        /\ ((NextHandle(s) + (i - 1)) % n) + 1 = ((s + i) % n) + 1
    BY <1>1, <2>1, HandlesCome
  <2>3. mHandleSeed'[t] = NextHandle(s)
    BY <1>1
  <2>4. Coming(t, i)' = Coming(t, i + 1) /\ Coming(t, i + 1) # NextHandle(s)
        /\ Coming(t, i + 1) \in Handles
    BY <2>1, <2>2, <2>3 DEF Coming
  <2>5. Spare(mCnnList[t][Coming(t, i + 1)])
    BY <2>1 DEF Room
  <2> HIDE DEF s
  <2>6. mCnnList'[t][Coming(t, i + 1)] = mCnnList[t][Coming(t, i + 1)]
    BY <1>1, <2>4 DEF s
  <2> QED BY <2>4, <2>5, <2>6
<1> QED BY <1>2, <1>3, <1>4 DEF Room

-----------------------------------------------------------------------------
(* The steps.  Those that leave the tasks and the queues alone.              *)

LEMMA ControlFrame ==
  ASSUME UNCHANGED <<main, next, mTaskNum, task, queue>>
  PROVE  /\ CloseMsg' = CloseMsg
         /\ \A t \in Ctxs : /\ Idle(t)' <=> Idle(t)
                            /\ Closing(t)' <=> Closing(t)
                            /\ News(t)' = News(t)
                            /\ TaskIs(t)' <=> TaskIs(t)
<1>1. CloseMsg' = CloseMsg
  BY DEF CloseMsg, Msg
<1>2. ASSUME NEW t \in Ctxs
      PROVE  /\ Idle(t)' <=> Idle(t)
             /\ Closing(t)' <=> Closing(t)
             /\ News(t)' = News(t)
             /\ TaskIs(t)' <=> TaskIs(t)
  <2>1. Closing(t)' <=> Closing(t)
    BY DEF Closing
  <2>2. Idle(t)' <=> Idle(t)
    BY DEF Idle, Running
  <2>3. TaskIs(t)' <=> TaskIs(t)
    BY DEF TaskIs
  <2>4. News(t)' = News(t)
    BY <2>1 DEF News
  <2> QED BY <2>1, <2>2, <2>3, <2>4
<1> QED BY <1>1, <1>2

LEMMA ControlSame ==
  ASSUME Control, UNCHANGED <<main, next, mTaskNum, task, queue, accepted>>,
         \A t \in Ctxs : Idle(t) => mCnnList'[t] = mCnnList[t]
  PROVE  Control'
<1>1. Phases'
  BY ControlFrame DEF Control, Phases
<1>2. Queues'
  BY ControlFrame DEF Control, Queues
<1>3. Cleared'
  BY ControlFrame DEF Control, Cleared
<1> QED BY <1>1, <1>2, <1>3 DEF Control

(* An entry of a context that runs changes, and nothing that ended is undone.*)
LEMMA EntryStep ==
  ASSUME KInv, TypeOK', NEW t \in Ctxs, NEW h \in Handles, NEW k, mCnnList[t][h] # NoCnn,
         Spare(mCnnList[t][h]) => Spare(k), mCnnList' = [mCnnList EXCEPT ![t][h] = k],
         UNCHANGED <<main, next, mTaskNum, task, queue, mHandleSeed, accepted, before>>,
         \A c \in Ids : ended[c] # "no" => ended'[c] = ended[c],
         Items', Fates'
  PROVE  KInv'
<1>1. /\ \A u \in Ctxs : u # t => mCnnList'[u] = mCnnList[u]
      /\ \A u \in Ctxs, g \in Handles : Spare(mCnnList[u][g]) => Spare(mCnnList'[u][g])
  BY TypesOf DEF KInv
<1>2. ~Idle(t)
  <2>1. mCnnList[t] # EmptyList
    BY DEF EmptyList
  <2> QED BY <2>1 DEF KInv, Control, Cleared
<1>3. Control'
  BY <1>1, <1>2, ControlSame DEF KInv
<1>4. Room'
  <2>1. TypeOK /\ Queues /\ Room
    BY DEF KInv, Control
  <2>2. \A u \in Ctxs : News(u)' = News(u)
    BY ControlFrame
  <2>3. \A u \in Ctxs : News(u)' <= News(u) /\ News(u)' \in Nat
    BY <2>1, <2>2, NewsOf
  <2> QED BY <1>1, <2>1, <2>3, RoomKept
<1>5. Ends'
  <2>1. before \subseteq Ids
    BY DEF KInv, TypeOK
  <2> QED BY <2>1 DEF KInv, Ends
<1> QED BY <1>3, <1>4, <1>5 DEF KInv

LEMMA EndingKeeps ==
  ASSUME NEW ids, NEW how, ended' = Ending(ids, how)
  PROVE  \A c \in Ids : ended[c] # "no" => ended'[c] = ended[c]
BY DEF Ending

LEMMA FreedStep ==
  ASSUME KInv, TypeOK', NEW t \in Ctxs, NEW h \in Handles, NEW how \in {"peer", "timeout"},
         mCnnList[t][h].fd # NoFd \/ mCnnList[t][h].timer, Freed(t, h, how),
         told' = IF how = "peer"
                 THEN [told EXCEPT ![mCnnList[t][h].id] = Append(told[mCnnList[t][h].id], "CLOSE")]
                 ELSE told
  PROVE  KInv'
<1> DEFINE d == mCnnList[t][h].id
<1>1. /\ mCnnList' = [mCnnList EXCEPT ![t][h] = NoCnn] /\ ended' = Ending({d}, how)
      /\ open' = open \ {mCnnList[t][h].fd}
      /\ UNCHANGED <<main, next, mTaskNum, task, queue, mHandleSeed, accepted, before>>
  BY DEF Freed
<1>2. TypeOK /\ Items /\ Fates
  BY DEF KInv
<1>3. mCnnList[t][h] # NoCnn /\ NoCnn.fd = NoFd /\ Spare(NoCnn)
  BY DEF NoCnn, Spare
<1>4. Items'
  BY <1>1, <1>2, <1>3, EntryItems
<1>5. Fates'
  BY <1>1, <1>2, FreedFates
<1>6. \A c \in Ids : ended[c] # "no" => ended'[c] = ended[c]
  BY <1>1, EndingKeeps
<1> QED BY <1>1, <1>3, <1>4, <1>5, <1>6, EntryStep

LEMMA FlagStep ==
  ASSUME KInv, TypeOK', NEW t \in Ctxs, NEW h \in Handles, NEW k,
         mCnnList[t][h].fd # NoFd \/ mCnnList[t][h].timer,
         k.id = mCnnList[t][h].id, k.fd = mCnnList[t][h].fd, k.timer = mCnnList[t][h].timer,
         mCnnList' = [mCnnList EXCEPT ![t][h] = k],
         UNCHANGED <<main, next, mTaskNum, task, queue, mHandleSeed, open, accepted, told, ended, before>>
  PROVE  KInv'
<1>1. TypeOK /\ Items /\ Fates
  BY DEF KInv
<1>2. mCnnList[t][h] # NoCnn /\ (Spare(mCnnList[t][h]) => Spare(k))
  BY DEF NoCnn, Spare
<1>3. k.id # 0
  BY <1>1, EntryIs
<1>4. Items'
  BY <1>1, <1>3, EntryItems
<1>5. Fates'
  BY <1>1, FlagFates
<1> QED BY <1>2, <1>4, <1>5, EntryStep

LEMMA StepConnection ==
  ASSUME KInv, TypeOK', NEW t \in Ctxs, NEW h \in Handles,
         \/ Disconnected(t, h) \/ Received(t, h) \/ TimerTick(t, h) \/ PostCloseConnection(t, h)
         \/ LmDisconnect(t, h)
  PROVE  KInv'
<1> DEFINE k == mCnnList[t][h]
<1>1. CASE Disconnected(t, h)
  <2>1. k.fd # NoFd /\ Freed(t, h, "peer") /\ told' = [told EXCEPT ![k.id] = Append(told[k.id], "CLOSE")]
    BY <1>1 DEF Disconnected
  <2> QED BY <2>1, FreedStep
<1>2. CASE Received(t, h) \/ PostCloseConnection(t, h)
  <2>1. k.fd # NoFd
        /\ UNCHANGED <<main, next, mTaskNum, task, queue, mHandleSeed, open, accepted, told, ended, before>>
    BY <1>2 DEF Received, PostCloseConnection
  <2>2. \/ mCnnList' = [mCnnList EXCEPT ![t][h] = [k EXCEPT !.upd = TRUE]]
        \/ mCnnList' = [mCnnList EXCEPT ![t][h] = [k EXCEPT !.msg = TRUE]]
    BY <1>2 DEF Received, PostCloseConnection
  <2>3. k \in Cnns
    BY TypesOf DEF KInv
  <2>4. /\ [k EXCEPT !.upd = TRUE].id = k.id /\ [k EXCEPT !.upd = TRUE].fd = k.fd
        /\ [k EXCEPT !.upd = TRUE].timer = k.timer
        /\ [k EXCEPT !.msg = TRUE].id = k.id /\ [k EXCEPT !.msg = TRUE].fd = k.fd
        /\ [k EXCEPT !.msg = TRUE].timer = k.timer
    BY <2>3 DEF Cnns
  <2> HIDE DEF k
  <2>5. PICK e : mCnnList' = [mCnnList EXCEPT ![t][h] = e] /\ e.id = k.id /\ e.fd = k.fd /\ e.timer = k.timer
    BY <2>2, <2>4
  <2> QED BY <2>1, <2>5, FlagStep DEF k
<1>3. CASE TimerTick(t, h)
  <2>1. k.timer
    BY <1>3 DEF TimerTick
  <2>2. CASE k.upd
    <3>1. UNCHANGED <<main, next, mTaskNum, task, queue, mHandleSeed, open, accepted, told, ended, before>>
      BY <1>3, <2>2 DEF TimerTick
    <3>2. mCnnList' = [mCnnList EXCEPT ![t][h] = [k EXCEPT !.upd = FALSE]]
      BY <1>3, <2>2 DEF TimerTick
    <3>3. k \in Cnns
      BY TypesOf DEF KInv
    <3>4. /\ [k EXCEPT !.upd = FALSE].id = k.id /\ [k EXCEPT !.upd = FALSE].fd = k.fd
          /\ [k EXCEPT !.upd = FALSE].timer = k.timer
      BY <3>3 DEF Cnns
    <3> HIDE DEF k
    <3>5. PICK e : mCnnList' = [mCnnList EXCEPT ![t][h] = e] /\ e.id = k.id /\ e.fd = k.fd /\ e.timer = k.timer
      BY <3>2, <3>4
    <3> QED BY <2>1, <3>1, <3>5, FlagStep DEF k
  <2>3. CASE ~k.upd
    <3>1. Freed(t, h, "timeout") /\ told' = told
      BY <1>3, <2>3 DEF TimerTick
    <3> QED BY <2>1, <3>1, FreedStep
  <2> QED BY <2>2, <2>3
<1>4. CASE LmDisconnect(t, h)
  <2>1. /\ k.msg /\ open' = open \ {k.fd} /\ ended' = Ending({k.id}, "message")
        /\ mCnnList' = [mCnnList EXCEPT ![t][h] = ClosedCnn(k)]
        /\ UNCHANGED <<main, next, mTaskNum, task, queue, mHandleSeed, accepted, told, before>>
    BY <1>4 DEF LmDisconnect
  <2>2. TypeOK /\ Items /\ Fates
    BY DEF KInv
  <2>3. k # NoCnn /\ ClosedCnn(k).id = k.id /\ ClosedCnn(k).fd = NoFd /\ Spare(ClosedCnn(k))
    BY <2>1, <2>2, TypesOf, ClosedIs DEF NoCnn
  <2>4. k.id # 0
    BY <2>1, <2>2, EntryIs
  <2>5. Items'
    BY <2>1, <2>2, <2>3, <2>4, EntryItems
  <2>6. Fates'
    BY <2>1, <2>2, ClosedFates
  <2>7. \A c \in Ids : ended[c] # "no" => ended'[c] = ended[c]
    BY <2>1, EndingKeeps
  <2> QED BY <2>1, <2>3, <2>5, <2>6, <2>7, EntryStep
<1> QED BY <1>1, <1>2, <1>3, <1>4

-----------------------------------------------------------------------------
(* Those after which, or before which, the server has no connection.         *)

LEMMA NoTasks ==
  ASSUME TypeOK, Control, mTaskNum = 0
  PROVE  \A t \in Ctxs : /\ task[t] = "none" /\ queue[t] = << >> /\ ~Closing(t) /\ News(t) = 0
                         /\ t # 0 => mCnnList[t] = EmptyList
<1> SUFFICES ASSUME NEW t \in Ctxs
             PROVE  /\ task[t] = "none" /\ queue[t] = << >> /\ ~Closing(t) /\ News(t) = 0
                    /\ t # 0 => mCnnList[t] = EmptyList
  OBVIOUS
<1>1. t \in Nat /\ next \in Nat
  BY TypesOf
<1>2. task[t] = "none"
  <2>1. main \in {"new", "run", "sendall", "waitall", "exit"}
    BY DEF TypeOK
  <2>2. TaskIs(t)
    BY DEF Control, Phases
  <2> QED BY <1>1, <2>1, <2>2 DEF TaskIs
<1>3. queue[t] = << >> /\ ~Closing(t)
  BY <1>2 DEF Control, Queues, Closing
<1>4. News(t) = 0
  BY <1>3, EmptySeq DEF News
<1>5. t # 0 => Idle(t)
  BY DEF Idle, Running
<1> QED BY <1>2, <1>3, <1>4, <1>5 DEF Control, Cleared

LEMMA NothingLeft ==
  ASSUME TypeOK, Control, main = "new" \/ (main \in {"sendall", "exit"} /\ next = mTaskNum)
  PROVE  \A t \in Ctxs : /\ queue[t] = << >> /\ mCnnList[t] = EmptyList
                         /\ main # "sendall" => task[t] = "none"
<1> SUFFICES ASSUME NEW t \in Ctxs
             PROVE  /\ queue[t] = << >> /\ mCnnList[t] = EmptyList
                    /\ main # "sendall" => task[t] = "none"
  OBVIOUS
<1>1. t \in Nat /\ next \in Nat /\ mTaskNum \in Nat
  BY TypesOf
<1>2. TaskIs(t)
  BY DEF Control, Phases
<1>3. main # "sendall" => task[t] = "none"
  BY <1>1, <1>2 DEF TaskIs
<1>4. Idle(t)
  BY <1>1, <1>2 DEF TaskIs, Idle, Running
<1> QED BY <1>3, <1>4 DEF Control, Cleared

LEMMA EmptyStep ==
  ASSUME TypeOK', Phases', Items', Fates',
         \A t \in Ctxs : queue'[t] = << >> /\ mCnnList'[t] = EmptyList /\ ~Closing(t)',
         before' \subseteq 1 .. accepted'
  PROVE  KInv'
<1>1. \A t \in Ctxs : News(t)' = 0
  BY EmptySeq DEF News
<1>2. Control'
  <2>1. Queues'
    BY <1>1 DEF Queues
  <2>2. Cleared'
    BY DEF Cleared
  <2> QED BY <2>1, <2>2 DEF Control
<1>3. Room'
  BY <1>1, HandleModAssumption DEF Room
<1>4. ASSUME NEW c \in 1 .. accepted' PROVE ended'[c] # "no"
  <2>1. c \in Ids /\ c <= accepted'
    BY MaxAssumption DEF TypeOK, Ids
  <2>2. ~Queued(c)'
    <3>1. \A t \in Ctxs : \A i \in DOMAIN queue'[t] : FALSE
      BY EmptySeq
    <3> QED BY <3>1 DEF Queued
  <2>3. ~Held(c)'
    <3>1. \A t \in Ctxs, h \in Handles : mCnnList'[t][h].id = 0
      BY DEF EmptyList, NoCnn
    <3> QED BY <2>1, <3>1 DEF Held, Ids
  <2>4. Fate(c)'
    BY <2>1 DEF Fates
  <2> QED BY <2>1, <2>2, <2>3, <2>4 DEF Fate
<1>5. Ends'
  BY <1>4 DEF Ends
<1> QED BY <1>2, <1>3, <1>5 DEF KInv

LEMMA StepStart ==
  ASSUME KInv, TypeOK', NEW n \in TaskNums, Start(n)
  PROVE  KInv'
<1>1. /\ main = "new" /\ main' = "run" /\ mTaskNum' = n
      /\ task' = [t \in Ctxs |-> IF t < n THEN "up" ELSE "none"]
      /\ UNCHANGED <<queue, mCnnList, open, accepted, told, ended, before>>
  BY DEF Start
<1>2. TypeOK /\ Control /\ Items /\ Fates /\ before \subseteq 1 .. accepted
  BY DEF KInv, Ends
<1>3. Phases'
  BY <1>1 DEF Phases, TaskIs
<1>4. Items' /\ Fates'
  BY <1>1, <1>2, ItemsSame, FatesSame
<1>5. \A t \in Ctxs : queue'[t] = << >> /\ mCnnList'[t] = EmptyList /\ ~Closing(t)'
  BY <1>1, <1>2, NothingLeft DEF Closing
<1> QED BY <1>1, <1>2, <1>3, <1>4, <1>5, EmptyStep

LEMMA StepReturns ==
  ASSUME KInv, TypeOK', CloseAllReturns \/ CloseReturns
  PROVE  KInv'
<1>1. /\ main \in {"sendall", "exit"} /\ next = mTaskNum
      /\ main' = IF main = "sendall" THEN "run" ELSE "new"
      /\ UNCHANGED <<next, mTaskNum, task, queue, mCnnList, open, accepted, told, ended, before>>
  BY DEF CloseAllReturns, CloseReturns
<1>2. TypeOK /\ Control /\ Items /\ Fates /\ before \subseteq 1 .. accepted
  BY DEF KInv, Ends
<1>3. \A t \in Ctxs : /\ queue[t] = << >> /\ mCnnList[t] = EmptyList
                      /\ main # "sendall" => task[t] = "none"
  BY <1>1, <1>2, NothingLeft
<1>4. Phases'
  BY <1>1, <1>2, <1>3 DEF Control, Phases, TaskIs
<1>5. Items' /\ Fates'
  BY <1>1, <1>2, ItemsSame, FatesSame
<1>6. \A t \in Ctxs : queue'[t] = << >> /\ mCnnList'[t] = EmptyList /\ ~Closing(t)'
  BY <1>1, <1>3 DEF Closing
<1> QED BY <1>1, <1>2, <1>4, <1>5, <1>6, EmptyStep

(* closeAllConnections() and close() of a server without tasks.              *)
LEMMA DirectClose ==
  ASSUME KInv, TypeOK', mTaskNum = 0, mTaskNum' = 0, main' \in {"run", "exit"}, next' = 0, CtxClose(0),
         \A t \in Ctxs : queue'[t] = queue[t],
         UNCHANGED <<task, accepted>>, before' = 1 .. accepted
  PROVE  KInv'
<1>1. TypeOK /\ Control /\ Items /\ Fates
  BY DEF KInv
<1>2. \A t \in Ctxs : /\ task[t] = "none" /\ queue[t] = << >> /\ t \in Nat
                      /\ t # 0 => mCnnList[t] = EmptyList
  BY <1>1, NoTasks, TypesOf
<1>3. Phases'
  BY <1>2 DEF Phases, TaskIs
<1>4. 0 \in Ctxs /\ \A i \in DOMAIN queue[0] : queue[0][i].id = 0 /\ queue[0][i].fd = NoFd
  BY <1>2, ZeroIsCtx, EmptySeq
<1>5. queue'[0] = << >> /\ \A u \in Ctxs : u # 0 => queue'[u] = queue[u]
  BY <1>2, <1>4
<1>6. Items'
  BY <1>1, <1>4, <1>5, ClearItems
<1>7. Fates'
  BY <1>1, <1>4, <1>5, ClearFates
<1>8. \A t \in Ctxs : mCnnList'[t] = EmptyList
  <2>1. mCnnList \in [Ctxs -> [Handles -> Cnns]]
    BY <1>1, TypesOf
  <2> QED BY <1>2, <2>1 DEF CtxClose
<1>9. \A t \in Ctxs : ~Closing(t)'
  BY <1>2 DEF Closing
<1> QED BY <1>2, <1>3, <1>6, <1>7, <1>8, <1>9, EmptyStep

-----------------------------------------------------------------------------
(* closeAllConnections() and close() with tasks.                             *)

LEMMA StepCloseAll ==
  ASSUME KInv, TypeOK', CloseAllConnections
  PROVE  KInv'
<1>1. /\ main = "run" /\ next' = 0 /\ before' = 1 .. accepted
      /\ UNCHANGED <<mTaskNum, task, queue, mHandleSeed, accepted>>
  BY DEF CloseAllConnections
<1>2. TypeOK /\ Control /\ Queues /\ Room /\ Items /\ Fates
  BY DEF KInv, Control
<1>3. CASE mTaskNum = 0
  <2>1. CtxClose(0) /\ main' = "run"
    BY <1>1, <1>3 DEF CloseAllConnections
  <2> QED BY <1>1, <1>3, <2>1, DirectClose
<1>4. CASE mTaskNum # 0
  <2>1. main' = "sendall" /\ UNCHANGED <<mCnnList, open, told, ended>>
    BY <1>4 DEF CloseAllConnections
  <2>2. /\ \A t \in Ctxs : /\ ~Closing(t) /\ ~Closing(t)' /\ News(t)' = News(t)
                           /\ Idle(t)' => Idle(t)
    <3> SUFFICES ASSUME NEW t \in Ctxs
                 PROVE  ~Closing(t) /\ ~Closing(t)' /\ News(t)' = News(t) /\ (Idle(t)' => Idle(t))
      OBVIOUS
    <3>1. t \in Nat /\ ~Closing(t) /\ ~Closing(t)'
      BY <1>1, <1>2, <2>1, TypesOf DEF Closing
    <3>2. News(t)' = News(t)
      BY <1>1, <3>1 DEF News
    <3>3. Idle(t)' => Idle(t)
      BY <1>1, <1>4, <3>1 DEF Idle, Running
    <3> QED BY <3>1, <3>2, <3>3
  <2>3. Phases'
    <3>1. mTaskNum \in Nat
      BY <1>2, TypesOf
    <3> QED BY <1>1, <1>2, <2>1, <3>1 DEF Control, Phases, TaskIs
  <2>4. Queues'
    BY <1>1, <1>2, <2>2 DEF Queues
  <2>5. Cleared'
    BY <1>1, <1>2, <2>1, <2>2 DEF Control, Cleared
  <2>6. Items' /\ Fates'
    BY <1>1, <1>2, <2>1, ItemsSame, FatesSame
  <2>7. Room'
    <3>1. \A t \in Ctxs : News(t)' <= News(t) /\ News(t)' \in Nat
      BY <1>2, <2>2, NewsOf
    <3> QED BY <1>1, <1>2, <2>1, <3>1, RoomKept
  <2>8. Ends'
    BY <1>1, <2>1 DEF Ends
  <2> QED BY <2>3, <2>4, <2>5, <2>6, <2>7, <2>8 DEF KInv, Control
<1> QED BY <1>3, <1>4

(* The messages of a queue that gets one more at its end.                    *)
LEMMA QueueGets ==
  ASSUME TypeOK, NEW t \in Ctxs, NEW m, queue'[t] = Append(queue[t], m)
  PROVE  /\ Len(queue[t]) \in Nat /\ Len(queue'[t]) = Len(queue[t]) + 1
         /\ queue'[t][Len(queue'[t])] = m
         /\ \A i \in 1 .. Len(queue[t]) : queue'[t][i] = queue[t][i]
<1>1. queue[t] \in Seq(Msgs)
  BY TypesOf
<1> QED BY <1>1, AppendProperties, LenProperties

LEMMA StepSend ==
  ASSUME KInv, TypeOK', SendCloseAll
  PROVE  KInv'
<1> DEFINE m == Msg("UM_CLOSE_ALLCNN", 0, NoFd)
<1>1. /\ main = "sendall" /\ main' = "waitall" /\ next < mTaskNum
      /\ queue' = [queue EXCEPT ![next] = Append(queue[next], m)]
      /\ UNCHANGED <<next, mTaskNum, task, mHandleSeed, mCnnList, open, accepted, told, ended, before>>
  BY DEF SendCloseAll
<1>2. TypeOK /\ Control /\ Queues /\ Phases /\ Room /\ Items /\ Fates
  BY DEF KInv, Control
<1>3. /\ next \in Ctxs /\ next \in Nat /\ mTaskNum \in Nat /\ queue \in [Ctxs -> Seq(Msgs)]
      /\ \A t \in Ctxs : t \in Nat
  <2>1. next \in Nat /\ mTaskNum \in TaskNums \cup {0}
    BY <1>2 DEF TypeOK
  <2>2. mTaskNum \in Nat /\ queue \in [Ctxs -> Seq(Msgs)] /\ \A t \in Ctxs : t \in Nat
    BY <1>2, TypesOf
  <2>3. next \in 0 .. mTaskNum - 1
    BY <1>1, <2>1, <2>2
  <2> QED BY <2>1, <2>2, <2>3, CtxOf
<1>4. m.id = 0 /\ m.fd = NoFd /\ CloseMsg' = m
  BY <1>1 DEF Msg, CloseMsg
<1> HIDE DEF m
<1>5. queue'[next] = Append(queue[next], m) /\ \A t \in Ctxs : t # next => queue'[t] = queue[t]
  BY <1>1, <1>3
<1>6. task[next] = "up"
  BY <1>1, <1>2, <1>3 DEF Phases, TaskIs
<1>7. /\ Len(queue[next]) \in Nat /\ Len(queue'[next]) = Len(queue[next]) + 1
      /\ queue'[next][Len(queue'[next])] = m
      /\ \A i \in 1 .. Len(queue[next]) : queue'[next][i] = queue[next][i]
  BY <1>2, <1>3, <1>5, QueueGets
<1>8. \A t \in Ctxs : /\ ~Closing(t) /\ (Closing(t)' <=> t = next)
                      /\ (Idle(t)' <=> Idle(t))
  BY <1>1, <1>6 DEF Closing, Idle, Running
<1>9. \A t \in Ctxs : News(t) = Len(queue[t]) /\ News(t)' = News(t)
  <2>1. \A t \in Ctxs : News(t) = Len(queue[t])
    BY <1>8 DEF News
  <2>2. \A t \in Ctxs : t = next => News(t)' = Len(queue[t])
    BY <1>3, <1>7, <1>8 DEF News
  <2>3. \A t \in Ctxs : t # next => News(t)' = Len(queue[t])
    BY <1>5, <1>8 DEF News
  <2> QED BY <2>1, <2>2, <2>3
<1>10. Phases'
  BY <1>1, <1>2 DEF Phases, TaskIs
<1>11. Queues'
  <2> SUFFICES ASSUME NEW t \in Ctxs
               PROVE  /\ task'[t] # "up" => queue'[t] = << >>
                      /\ Closing(t)' => Len(queue'[t]) > 0 /\ queue'[t][Len(queue'[t])] = CloseMsg'
                      /\ \A i \in 1 .. News(t)' :
                           queue'[t][i].msgid = "UM_NEWCNN" /\ queue'[t][i].id \in i .. accepted'
    BY DEF Queues
  <2>1. CASE t = next
    <3>1. Len(queue'[t]) > 0 /\ queue'[t][Len(queue'[t])] = CloseMsg'
      BY <1>4, <1>7, <2>1
    <3>2. \A i \in 1 .. News(t)' : queue'[t][i] = queue[t][i] /\ i \in 1 .. News(t)
      BY <1>7, <1>9, <2>1
    <3> QED BY <1>1, <1>2, <1>6, <2>1, <3>1, <3>2 DEF Queues
  <2>2. CASE t # next
    <3>1. queue'[t] = queue[t] /\ ~Closing(t)' /\ News(t)' = News(t)
      BY <1>5, <1>8, <1>9, <2>2
    <3> QED BY <1>1, <1>2, <3>1 DEF Queues
  <2> QED BY <2>1, <2>2
<1>12. Cleared'
  <2>1. ~Idle(next)
    BY <1>1, <1>3, <1>6 DEF Idle, Running
  <2> QED BY <1>1, <1>2, <1>5, <1>8, <2>1 DEF Control, Cleared
<1>13. Items' /\ Fates'
  <2>1. \A u \in Ctxs : queue'[u] \in {queue[u], Append(queue[u], m)}
    BY <1>5
  <2>2. Items'
    BY <1>1, <1>2, <1>4, <2>1, SendItems
  <2>3. Fates'
    BY <1>1, <1>2, <1>4, <2>1, SendFates
  <2> QED BY <2>2, <2>3
<1>14. Room'
  <2>1. \A t \in Ctxs : News(t)' <= News(t) /\ News(t)' \in Nat
    BY <1>2, <1>9, NewsOf
  <2> QED BY <1>1, <1>2, <2>1, RoomKept
<1>15. Ends'
  BY <1>1 DEF KInv, Ends
<1> QED BY <1>10, <1>11, <1>12, <1>13, <1>14, <1>15 DEF KInv, Control

LEMMA StepClose ==
  ASSUME KInv, TypeOK', Close
  PROVE  KInv'
<1> DEFINE m == Msg("EDM_CLOSE", 0, NoFd)
<1>1. /\ main = "run" /\ main' = "exit" /\ next' = 0 /\ before' = 1 .. accepted
      /\ queue' = [t \in Ctxs |-> IF task[t] = "up" THEN Append(queue[t], m) ELSE queue[t]]
      /\ UNCHANGED <<mTaskNum, task, mHandleSeed, accepted>>
  BY DEF Close
<1>2. TypeOK /\ Control /\ Queues /\ Phases /\ Room /\ Items /\ Fates
  BY DEF KInv, Control
<1>3. CASE mTaskNum = 0
  <2>1. CtxClose(0)
    BY <1>3 DEF Close
  <2>2. \A t \in Ctxs : queue'[t] = queue[t]
    BY <1>1, <1>2, <1>3, NoTasks
  <2> QED BY <1>1, <1>3, <2>1, <2>2, DirectClose
<1>4. CASE mTaskNum # 0
  <2>1. UNCHANGED <<mCnnList, open, told, ended>>
    BY <1>4 DEF Close
  <2>2. m.id = 0 /\ m.fd = NoFd /\ CloseMsg' = m
    BY <1>1 DEF Msg, CloseMsg
  <2>3. mTaskNum \in Nat /\ \A t \in Ctxs : t \in Nat
    BY <1>2, TypesOf
  <2> HIDE DEF m
  <2>4. \A t \in Ctxs : /\ task[t] = "up" => queue'[t] = Append(queue[t], m)
                        /\ task[t] # "up" => queue'[t] = queue[t]
    BY <1>1
  <2>5. \A t \in Ctxs : task[t] = "up" =>
          /\ Len(queue[t]) \in Nat /\ Len(queue'[t]) = Len(queue[t]) + 1
          /\ queue'[t][Len(queue'[t])] = m
          /\ \A i \in 1 .. Len(queue[t]) : queue'[t][i] = queue[t][i]
    BY <1>2, <2>4, QueueGets
  <2>6. \A t \in Ctxs : /\ ~Closing(t) /\ (Closing(t)' <=> task[t] = "up")
                        /\ Idle(t)' <=> task[t] # "up"
                        /\ Idle(t) <=> task[t] # "up"
    BY <1>1, <1>4 DEF Closing, Idle, Running
  <2>7. \A t \in Ctxs : News(t) = Len(queue[t]) /\ News(t)' = News(t)
    BY <2>4, <2>5, <2>6 DEF News
  <2>8. Phases'
    BY <1>1, <1>2, <2>3 DEF Phases, TaskIs
  <2>9. Queues'
    <3> SUFFICES ASSUME NEW t \in Ctxs
                 PROVE  /\ task'[t] # "up" => queue'[t] = << >>
                        /\ Closing(t)' => Len(queue'[t]) > 0 /\ queue'[t][Len(queue'[t])] = CloseMsg'
                        /\ \A i \in 1 .. News(t)' :
                             queue'[t][i].msgid = "UM_NEWCNN" /\ queue'[t][i].id \in i .. accepted'
      BY DEF Queues
    <3>1. CASE task[t] = "up"
      <4>1. Len(queue'[t]) > 0 /\ queue'[t][Len(queue'[t])] = CloseMsg'
        BY <2>2, <2>5, <3>1
      <4>2. \A i \in 1 .. News(t)' : queue'[t][i] = queue[t][i] /\ i \in 1 .. News(t)
        BY <2>5, <2>7, <3>1
      <4> QED BY <1>1, <1>2, <3>1, <4>1, <4>2 DEF Queues
    <3>2. CASE task[t] # "up"
      <4>1. queue'[t] = queue[t] /\ ~Closing(t)' /\ News(t)' = News(t)
        BY <2>4, <2>6, <2>7, <3>2
      <4> QED BY <1>1, <1>2, <4>1 DEF Queues
    <3> QED BY <3>1, <3>2
  <2>10. Cleared'
    BY <1>2, <2>1, <2>4, <2>6 DEF Control, Cleared
  <2>11. Items' /\ Fates'
    <3>1. \A u \in Ctxs : queue'[u] \in {queue[u], Append(queue[u], m)}
      BY <2>4
    <3>2. Items'
      BY <1>1, <1>2, <2>1, <2>2, <3>1, SendItems
    <3>3. Fates'
      BY <1>1, <1>2, <2>1, <2>2, <3>1, SendFates
    <3> QED BY <3>2, <3>3
  <2>12. Room'
    <3>1. \A t \in Ctxs : News(t)' <= News(t) /\ News(t)' \in Nat
      BY <1>2, <2>7, NewsOf
    <3> QED BY <1>1, <1>2, <2>1, <3>1, RoomKept
  <2>13. Ends'
    BY <1>1 DEF Ends
  <2> QED BY <2>8, <2>9, <2>10, <2>11, <2>12, <2>13 DEF KInv, Control
<1> QED BY <1>3, <1>4

LEMMA StepWait ==
  ASSUME KInv, TypeOK', WaitTask
  PROVE  KInv'
<1>1. /\ main = "exit" /\ next < mTaskNum /\ task[next] = "exited" /\ next' = next + 1
      /\ task' = [task EXCEPT ![next] = "none"] /\ queue' = [queue EXCEPT ![next] = << >>]
      /\ UNCHANGED <<main, mTaskNum, mHandleSeed, mCnnList, open, accepted, told, ended, before>>
  BY DEF WaitTask
<1>2. TypeOK /\ Control /\ Queues /\ Phases /\ Room /\ Items /\ Fates
  BY DEF KInv, Control
<1>3. /\ next \in Nat /\ mTaskNum \in Nat /\ queue \in [Ctxs -> Seq(Msgs)]
      /\ \A t \in Ctxs : t \in Nat
  BY <1>2, TypesOf
<1>4. task \in [Ctxs -> {"none", "up", "exited"}]
  BY <1>2 DEF TypeOK
<1>5. next \in Ctxs
  <2>1. next \in 0 .. mTaskNum - 1 /\ mTaskNum \in TaskNums \cup {0}
    BY <1>1, <1>2, <1>3 DEF TypeOK
  <2> QED BY <2>1, CtxOf
<1>6. queue' = queue
  <2>1. queue[next] = << >>
    BY <1>1, <1>2, <1>5 DEF Queues
  <2> QED BY <1>1, <1>3, <2>1
<1>7. task'[next] = "none" /\ \A t \in Ctxs : t # next => task'[t] = task[t]
  BY <1>1, <1>4, <1>5
<1>8. \A t \in Ctxs : /\ Closing(t)' <=> Closing(t)
                      /\ Idle(t)' <=> Idle(t)
  <2>1. \A t \in Ctxs : task'[t] = "up" <=> task[t] = "up"
    BY <1>1, <1>7
  <2>2. mTaskNum # 0
    BY <1>1, <1>3
  <2> QED BY <1>1, <2>1, <2>2 DEF Closing, Idle, Running
<1>9. (\A t \in Ctxs : News(t)' = News(t)) /\ CloseMsg' = CloseMsg
  BY <1>1, <1>6, <1>8 DEF News, CloseMsg, Msg
<1>10. Phases'
  <2>1. next' <= mTaskNum'
    BY <1>1, <1>3
  <2>2. ASSUME NEW t \in Ctxs PROVE TaskIs(t)'
    <3>1. CASE t = next
      BY <1>1, <1>3, <1>7, <3>1 DEF TaskIs
    <3>2. CASE t # next
      <4>1. next + 1 <= t <=> next <= t
        BY <1>3, <3>2
      <4> QED BY <1>1, <1>2, <1>7, <3>2, <4>1 DEF Phases, TaskIs
    <3> QED BY <3>1, <3>2
  <2> QED BY <1>1, <2>1, <2>2 DEF Phases
<1>11. Queues'
  <2>1. \A t \in Ctxs : task'[t] # "up" => task[t] # "up"
    BY <1>1, <1>7
  <2> QED BY <1>1, <1>2, <1>6, <1>8, <1>9, <2>1 DEF Queues
<1>12. Cleared'
  BY <1>1, <1>2, <1>6, <1>8 DEF Control, Cleared
<1>13. Items' /\ Fates'
  BY <1>1, <1>2, <1>6, ItemsSame, FatesSame
<1>14. Room'
  <2>1. \A t \in Ctxs : News(t)' <= News(t) /\ News(t)' \in Nat
    BY <1>2, <1>9, NewsOf
  <2> QED BY <1>1, <1>2, <2>1, RoomKept
<1>15. Ends'
  BY <1>1 DEF KInv, Ends
<1> QED BY <1>10, <1>11, <1>12, <1>13, <1>14, <1>15 DEF KInv, Control

-----------------------------------------------------------------------------
(* The steps of a task.                                                      *)

(* A message that brings no connection is the last one of its queue.         *)
LEMMA LastMessage ==
  ASSUME TypeOK, Queues, NEW t \in Ctxs, queue[t] # << >>, Head(queue[t]).msgid # "UM_NEWCNN"
  PROVE  /\ Closing(t) /\ News(t) = 0 /\ Tail(queue[t]) = << >> /\ Head(queue[t]) = CloseMsg
         /\ \A i \in DOMAIN queue[t] : queue[t][i].id = 0 /\ queue[t][i].fd = NoFd
<1>1. /\ queue[t] \in Seq(Msgs) /\ Len(queue[t]) \in Nat /\ Len(queue[t]) > 0
      /\ DOMAIN queue[t] = 1 .. Len(queue[t]) /\ Head(queue[t]) = queue[t][1]
  <2>1. queue[t] \in Seq(Msgs)
    BY TypesOf
  <2> QED BY <2>1, EmptySeq
<1>2. /\ News(t) \in Nat
      /\ ~(1 \in 1 .. News(t))
  <2>1. News(t) \in Nat
    BY NewsOf
  <2>2. 1 \in 1 .. News(t) => queue[t][1].msgid = "UM_NEWCNN"
    BY DEF Queues
  <2> QED BY <1>1, <2>1, <2>2
<1>3. News(t) = 0
  BY <1>2
<1>4. Closing(t)
  BY <1>1, <1>3 DEF News
<1>5. Len(queue[t]) = 1
  BY <1>1, <1>3, <1>4 DEF News
<1>6. Tail(queue[t]) = << >>
  <2>1. Tail(queue[t]) \in Seq(Msgs) /\ Len(Tail(queue[t])) = 0
    BY <1>1, <1>5, HeadTailProperties
  <2> QED BY <2>1, EmptySeq
<1>7. queue[t][1] = CloseMsg
  BY <1>4, <1>5 DEF Queues
<1>8. CloseMsg.id = 0 /\ CloseMsg.fd = NoFd
  BY DEF CloseMsg, Msg
<1> QED BY <1>1, <1>3, <1>4, <1>5, <1>6, <1>7, <1>8

LEMMA StepTaskCloses ==
  ASSUME KInv, TypeOK', NEW t \in Ctxs, TaskCloseAll(t) \/ TaskExit(t)
  PROVE  KInv'
<1>1. /\ task[t] = "up" /\ queue[t] # << >>
      /\ Head(queue[t]).msgid = IF TaskExit(t) THEN "EDM_CLOSE" ELSE "UM_CLOSE_ALLCNN"
      /\ queue' = [queue EXCEPT ![t] = Tail(queue[t])] /\ CtxClose(t)
      /\ UNCHANGED <<mTaskNum, mHandleSeed, accepted, before>>
  BY DEF TaskCloseAll, TaskExit, TaskMsg
<1>2. TypeOK /\ Control /\ Queues /\ Phases /\ Room /\ Items /\ Fates
  BY DEF KInv, Control
<1>3. /\ Closing(t) /\ News(t) = 0 /\ Tail(queue[t]) = << >> /\ Head(queue[t]) = CloseMsg
      /\ \A i \in DOMAIN queue[t] : queue[t][i].id = 0 /\ queue[t][i].fd = NoFd
  BY <1>1, <1>2, LastMessage
<1>4. \/ main = "exit" /\ TaskExit(t)
      \/ main = "waitall" /\ t = next /\ TaskCloseAll(t)
  BY <1>1, <1>3 DEF CloseMsg, Msg, Closing
<1>5. /\ next \in Nat /\ mTaskNum \in Nat /\ queue \in [Ctxs -> Seq(Msgs)]
      /\ mCnnList \in [Ctxs -> [Handles -> Cnns]] /\ \A u \in Ctxs : u \in Nat
  BY <1>2, TypesOf
<1>6. task \in [Ctxs -> {"none", "up", "exited"}]
  BY <1>2 DEF TypeOK
<1>7. queue'[t] = << >> /\ \A u \in Ctxs : u # t => queue'[u] = queue[u]
  BY <1>1, <1>3, <1>5
<1>8. /\ mCnnList'[t] = EmptyList /\ \A u \in Ctxs : u # t => mCnnList'[u] = mCnnList[u]
  BY <1>1, <1>5 DEF CtxClose
<1>9. Items' /\ Fates'
  <2>1. Items'
    BY <1>1, <1>2, <1>3, <1>7, ClearItems
  <2>2. Fates'
    BY <1>1, <1>2, <1>3, <1>7, ClearFates
  <2> QED BY <2>1, <2>2
<1>10. /\ \A u \in Ctxs : u # t => /\ Closing(u)' <=> Closing(u)
                                   /\ Idle(u)' => Idle(u)
                                   /\ task'[u] = task[u]
       /\ ~Closing(t)' /\ Phases' /\ main' \notin {"run", "new"}
       /\ main = "exit" => CloseMsg' = CloseMsg
  <2>1. CASE main = "exit" /\ TaskExit(t)
    <3>1. main' = "exit" /\ next' = next /\ task' = [task EXCEPT ![t] = "exited"]
      BY <2>1 DEF TaskExit
    <3>2. task'[t] = "exited" /\ \A u \in Ctxs : u # t => task'[u] = task[u]
      BY <1>6, <3>1
    <3>3. mTaskNum # 0
      BY <1>1, <1>2, NoTasks
    <3>4. Phases'
      BY <1>1, <1>2, <2>1, <3>1, <3>2 DEF Phases, TaskIs
    <3>5. CloseMsg' = CloseMsg
      BY <2>1, <3>1 DEF CloseMsg, Msg
    <3>6. \A u \in Ctxs : u # t => (Closing(u)' <=> Closing(u)) /\ (Idle(u)' => Idle(u))
      BY <1>1, <2>1, <3>1, <3>2, <3>3 DEF Closing, Idle, Running
    <3>7. ~Closing(t)'
      BY <3>2 DEF Closing
    <3> QED BY <3>1, <3>2, <3>4, <3>5, <3>6, <3>7
  <2>2. CASE main = "waitall" /\ t = next /\ TaskCloseAll(t)
    <3>1. main' = "sendall" /\ next' = next + 1 /\ task' = task
      BY <2>2 DEF TaskCloseAll
    <3>2. next < mTaskNum /\ next' <= mTaskNum'
      BY <1>1, <1>2, <1>5, <2>2, <3>1 DEF Phases
    <3>3. Phases'
      BY <1>1, <1>2, <2>2, <3>1, <3>2 DEF Phases, TaskIs
    <3>4. \A u \in Ctxs : ~Closing(u)' /\ (u # t => ~Closing(u))
      BY <2>2, <3>1 DEF Closing
    <3>5. \A u \in Ctxs : u # t => (Idle(u)' => Idle(u))
      <4>1. \A u \in Ctxs : u # t /\ u < next + 1 => u < next
        BY <1>5, <2>2
      <4> QED BY <1>1, <2>2, <3>1, <4>1 DEF Idle, Running
    <3> QED BY <2>2, <3>1, <3>3, <3>4, <3>5
  <2> QED BY <1>4, <2>1, <2>2
<1>11. /\ News(t)' = 0 /\ \A u \in Ctxs : u # t => News(u)' = News(u)
       /\ \A u \in Ctxs : u # t /\ Closing(u) => CloseMsg' = CloseMsg
  <2>1. News(t)' = 0
    BY <1>7, <1>10, EmptySeq DEF News
  <2>2. \A u \in Ctxs : u # t => News(u)' = News(u)
    BY <1>7, <1>10 DEF News
  <2>3. ASSUME NEW u \in Ctxs, u # t, Closing(u) PROVE main = "exit"
    BY <1>4, <2>3 DEF Closing
  <2> QED BY <1>10, <2>1, <2>2, <2>3
<1>12. Queues'
  <2> SUFFICES ASSUME NEW u \in Ctxs
               PROVE  /\ task'[u] # "up" => queue'[u] = << >>
                      /\ Closing(u)' => Len(queue'[u]) > 0 /\ queue'[u][Len(queue'[u])] = CloseMsg'
                      /\ \A i \in 1 .. News(u)' :
                           queue'[u][i].msgid = "UM_NEWCNN" /\ queue'[u][i].id \in i .. accepted'
    BY DEF Queues
  <2>1. CASE u = t
    BY <1>7, <1>10, <1>11, <2>1
  <2>2. CASE u # t
    <3>1. /\ queue'[u] = queue[u] /\ (Closing(u)' <=> Closing(u)) /\ News(u)' = News(u)
          /\ task'[u] = task[u]
      BY <1>7, <1>10, <1>11, <2>2
    <3> QED BY <1>1, <1>2, <1>11, <2>2, <3>1 DEF Queues
  <2> QED BY <2>1, <2>2
<1>13. Cleared'
  BY <1>2, <1>7, <1>8, <1>10 DEF Control, Cleared
<1>14. Room'
  <2>1. \A u \in Ctxs : News(u)' <= News(u) /\ News(u)' \in Nat
    BY <1>2, <1>3, <1>11, NewsOf
  <2>2. \A u \in Ctxs, h \in Handles : Spare(mCnnList[u][h]) => Spare(mCnnList'[u][h])
    BY <1>8 DEF EmptyList, NoCnn, Spare
  <2> QED BY <1>1, <1>2, <2>1, <2>2, RoomKept
<1>15. Ends'
  BY <1>1, <1>10 DEF KInv, Ends
<1> QED BY <1>9, <1>10, <1>12, <1>13, <1>14, <1>15 DEF KInv, Control

(* The task's next connection gets the handle that was kept for it.          *)
LEMMA StepTaskNew ==
  ASSUME KInv, TypeOK', NEW t \in Ctxs, TaskNewCnn(t)
  PROVE  KInv'
<1> DEFINE m == Head(queue[t])
           h == NextHandle(mHandleSeed[t])
<1>1. /\ task[t] = "up" /\ queue[t] # << >> /\ m.msgid = "UM_NEWCNN"
      /\ queue' = [queue EXCEPT ![t] = Tail(queue[t])] /\ NewCnn(t, m.id, m.fd)
      /\ UNCHANGED <<main, next, mTaskNum, task, open, accepted, before>>
  BY DEF TaskNewCnn, TaskMsg
<1>2. TypeOK /\ Control /\ Queues /\ Phases /\ Cleared /\ Room /\ Items /\ Fates
  BY DEF KInv, Control
<1>3. /\ queue \in [Ctxs -> Seq(Msgs)] /\ mCnnList \in [Ctxs -> [Handles -> Cnns]]
      /\ queue[t] \in Seq(Msgs) /\ Len(queue[t]) \in Nat /\ Len(queue[t]) > 0 /\ accepted \in 0 .. MaxAccept
      /\ DOMAIN queue[t] = 1 .. Len(queue[t]) /\ m = queue[t][1] /\ 1 \in DOMAIN queue[t]
  <2>1. queue \in [Ctxs -> Seq(Msgs)] /\ mCnnList \in [Ctxs -> [Handles -> Cnns]]
    BY <1>2, TypesOf
  <2>2. accepted \in 0 .. MaxAccept
    BY <1>2 DEF TypeOK
  <2>3. queue[t] \in Seq(Msgs)
    BY <2>1
  <2> QED BY <1>1, <2>1, <2>2, <2>3, EmptySeq
<1>4. News(t) \in Nat /\ News(t) >= 1 /\ m.id \in 1 .. accepted
  <2>1. News(t) \in Nat
    BY <1>2, NewsOf
  <2>2. 1 <= News(t) /\ m.id \in 1 .. accepted
    BY <1>1, <1>2, <1>3, MessageIs
  <2> QED BY <2>1, <2>2
<1>5. m.id \in Ids /\ m.id # 0 /\ m.id <= accepted
  BY <1>3, <1>4, MaxAssumption DEF Ids
<1>6. h \in Handles /\ Spare(mCnnList[t][h])
  <2>1. mHandleSeed[t] \in Handles
    BY <1>2, SeedsOf
  <2>2. h \in Handles
    BY <2>1, HandleType
  <2>3. h = Coming(t, 1)
    <3>1. h = ((mHandleSeed[t] + 0) % (HandleMod - 1)) + 1 /\ 1 - 1 = 0
      BY <2>1, HandlesCome
    <3> QED BY <3>1 DEF Coming
  <2>4. 1 \in 1 .. News(t)
    BY <1>4
  <2> QED BY <1>2, <2>2, <2>3, <2>4 DEF Room
<1>7. /\ mHandleSeed' = [mHandleSeed EXCEPT ![t] = h]
      /\ mCnnList' = [mCnnList EXCEPT ![t][h] = Opened(mCnnList[t][h], m.id, m.fd)]
      /\ told' = [told EXCEPT ![m.id] = Append(told[m.id], "NEW")] /\ ended' = ended
  <2>1. mCnnList[t][h].fd = NoFd
    BY <1>6 DEF Spare
  <2> QED BY <1>1, <2>1 DEF NewCnn
<1> HIDE DEF m, h
<1>8. Items'
  BY <1>1, <1>2, <1>5, <1>6, <1>7, NewItems DEF m
<1>9. Fates'
  BY <1>1, <1>2, <1>5, <1>6, <1>7, NewFates DEF m
<1>10. /\ queue'[t] = Tail(queue[t]) /\ Len(queue'[t]) = Len(queue[t]) - 1
       /\ \A i \in 1 .. Len(queue[t]) - 1 : queue'[t][i] = queue[t][i + 1]
       /\ \A u \in Ctxs : u # t => queue'[u] = queue[u]
  <2>1. queue'[t] = Tail(queue[t]) /\ \A u \in Ctxs : u # t => queue'[u] = queue[u]
    BY <1>1, <1>3
  <2> QED BY <1>1, <1>3, <2>1, HeadTailProperties
<1>11. /\ CloseMsg' = CloseMsg
       /\ \A u \in Ctxs : /\ Closing(u)' <=> Closing(u)
                          /\ Idle(u)' <=> Idle(u)
                          /\ TaskIs(u)' <=> TaskIs(u)
  BY <1>1 DEF CloseMsg, Msg, Closing, Idle, Running, TaskIs
<1>12. News(t)' = News(t) - 1 /\ \A u \in Ctxs : u # t => News(u)' = News(u)
  BY <1>3, <1>10, <1>11 DEF News
<1>13. Phases'
  BY <1>1, <1>2, <1>11 DEF Phases
<1>14. Queues'
  <2> SUFFICES ASSUME NEW u \in Ctxs
               PROVE  /\ task'[u] # "up" => queue'[u] = << >>
                      /\ Closing(u)' => Len(queue'[u]) > 0 /\ queue'[u][Len(queue'[u])] = CloseMsg'
                      /\ \A i \in 1 .. News(u)' :
                           queue'[u][i].msgid = "UM_NEWCNN" /\ queue'[u][i].id \in i .. accepted'
    BY DEF Queues
  <2>1. CASE u # t
    <3>1. queue'[u] = queue[u] /\ (Closing(u)' <=> Closing(u)) /\ News(u)' = News(u)
      BY <1>10, <1>11, <1>12, <2>1
    <3> QED BY <1>1, <1>2, <1>11, <3>1 DEF Queues
  <2>2. CASE u = t
    <3>1. ASSUME Closing(t) PROVE Len(queue'[t]) > 0 /\ queue'[t][Len(queue'[t])] = CloseMsg'
      <4>1. News(t) = Len(queue[t]) - 1 /\ queue[t][Len(queue[t])] = CloseMsg
        BY <1>2, <3>1 DEF News, Queues
      <4>2. Len(queue'[t]) > 0 /\ Len(queue'[t]) \in 1 .. Len(queue[t]) - 1
            /\ Len(queue'[t]) + 1 = Len(queue[t])
        BY <1>3, <1>4, <1>10, <4>1
      <4> QED BY <1>10, <1>11, <4>1, <4>2
    <3>2. ASSUME NEW i \in 1 .. News(t)'
          PROVE  queue'[t][i].msgid = "UM_NEWCNN" /\ queue'[t][i].id \in i .. accepted'
      <4>1. i + 1 \in 1 .. News(t) /\ News(t) <= Len(queue[t]) /\ i \in Nat
        <5>1. News(t) <= Len(queue[t])
          BY <1>3 DEF News
        <5> QED BY <1>4, <1>12, <5>1
      <4>2. queue'[t][i] = queue[t][i + 1]
        BY <1>3, <1>4, <1>10, <4>1
      <4>3. queue[t][i + 1].msgid = "UM_NEWCNN" /\ queue[t][i + 1].id \in i + 1 .. accepted
        BY <1>2, <4>1 DEF Queues
      <4>4. accepted \in Nat
        BY <1>3, MaxAssumption
      <4>5. \A c \in i + 1 .. accepted : c \in i .. accepted
        BY <4>1, <4>4
      <4> QED BY <1>1, <4>2, <4>3, <4>5
    <3> QED BY <1>1, <1>11, <2>2, <3>1, <3>2
  <2> QED BY <2>1, <2>2
<1>15. Cleared'
  <2>1. ~Idle(t)
    BY <1>1, <1>2 DEF Cleared
  <2>2. \A u \in Ctxs : u # t => mCnnList'[u] = mCnnList[u]
    BY <1>3, <1>7
  <2> QED BY <1>2, <1>10, <1>11, <2>1, <2>2 DEF Cleared
<1>16. Room'
  BY <1>2, <1>4, <1>7, <1>12, RoomNew DEF h
<1>17. Ends'
  BY <1>1, <1>7 DEF KInv, Ends
<1> QED BY <1>8, <1>9, <1>13, <1>14, <1>15, <1>16, <1>17 DEF KInv, Control

-----------------------------------------------------------------------------
(* A connection is accepted.                                                 *)

(* A connection for a task goes to the end of its queue.                     *)
LEMMA AcceptQueued ==
  ASSUME KInv, TypeOK', NEW t \in Ctxs, NEW fd \in (Fds \ open) \cup {NoFd},
         main = "run", mTaskNum > 0, task[t] = "up", accepted < MaxAccept,
         Len(queue[t]) < HandleMod - 1, Spare(mCnnList[t][ComingHandle(t)]),
         accepted' = accepted + 1, open' = open \cup ({fd} \ {NoFd}),
         queue' = [queue EXCEPT ![t] = Append(queue[t], Msg("UM_NEWCNN", accepted + 1, fd))],
         UNCHANGED <<main, next, mTaskNum, task, before, mHandleSeed, mCnnList, told, ended>>
  PROVE  KInv'
<1> DEFINE m == Msg("UM_NEWCNN", accepted + 1, fd)
<1>1. /\ fd \in (Fds \ open) \cup {NoFd} /\ t \in Ctxs
      /\ accepted' = accepted + 1 /\ open' = open \cup ({fd} \ {NoFd})
      /\ UNCHANGED <<main, next, mTaskNum, task, before>>
  OBVIOUS
<1>2. TypeOK /\ Control /\ Queues /\ Phases /\ Cleared /\ Room /\ Items /\ Fates
  BY DEF KInv, Control
<1>3. /\ queue \in [Ctxs -> Seq(Msgs)] /\ mCnnList \in [Ctxs -> [Handles -> Cnns]]
      /\ mTaskNum \in Nat /\ accepted \in Nat /\ next \in Nat
  BY <1>2, TypesOf
<1>4. ~Idle(t) /\ \A u \in Ctxs : u \in Nat
  BY <1>2, TypesOf DEF Idle, Running
<1>5. \A u \in Ctxs : \A i \in DOMAIN queue[u] : queue[u][i].id <= accepted
  BY <1>2, <1>3, MessageIs
<1>6. /\ \A u \in Ctxs : /\ ~Closing(u) /\ ~Closing(u)'
                         /\ Idle(u)' <=> Idle(u)
                         /\ TaskIs(u)' <=> TaskIs(u)
      /\ Phases'
  <2>1. \A u \in Ctxs : /\ ~Closing(u) /\ ~Closing(u)'
                        /\ Idle(u)' <=> Idle(u)
                        /\ TaskIs(u)' <=> TaskIs(u)
    BY <1>1 DEF Closing, Idle, Running, TaskIs
  <2> QED BY <1>1, <1>2, <2>1 DEF Phases
<1>7. queue' = [queue EXCEPT ![t] = Append(queue[t], m)]
  OBVIOUS
<1>8. m.id = accepted + 1 /\ m.msgid = "UM_NEWCNN"
  BY DEF Msg
<1>9. Items'
  BY <1>1, <1>2, <1>5, AcceptItems
<1> HIDE DEF m
<1>10. Fates'
  BY <1>1, <1>2, <1>7, <1>8, AcceptFates
<1>11. Room'
  BY <1>1, <1>2, <1>7, RoomAccept
<1>12. queue'[t] = Append(queue[t], m) /\ \A u \in Ctxs : u # t => queue'[u] = queue[u]
  BY <1>3, <1>7
<1>13. /\ Len(queue[t]) \in Nat /\ Len(queue'[t]) = Len(queue[t]) + 1
      /\ queue'[t][Len(queue'[t])] = m
      /\ \A i \in 1 .. Len(queue[t]) : queue'[t][i] = queue[t][i]
  BY <1>2, <1>12, QueueGets
<1>14. \A u \in Ctxs : News(u) = Len(queue[u]) /\ News(u)' = Len(queue'[u])
  BY <1>6 DEF News
<1>15. Queues'
  <2>1. ASSUME NEW u \in Ctxs, u # t
        PROVE  /\ task'[u] # "up" => queue'[u] = << >>
               /\ \A i \in 1 .. News(u)' :
                    queue'[u][i].msgid = "UM_NEWCNN" /\ queue'[u][i].id \in i .. accepted'
    <3>1. queue'[u] = queue[u] /\ News(u)' = News(u) /\ task' = task
      BY <1>1, <1>12, <1>14, <2>1
    <3>2. \A i \in 1 .. News(u) : queue[u][i].msgid = "UM_NEWCNN" /\ queue[u][i].id \in i .. accepted
      BY <1>2 DEF Queues
    <3>3. \A i \in Int : \A c \in i .. accepted : c \in i .. accepted'
      BY <1>1, <1>3
    <3>4. task[u] # "up" => queue[u] = << >>
      BY <1>2 DEF Queues
    <3>5. \A i \in 1 .. News(u) : queue[u][i].id \in i .. accepted'
      BY <3>2, <3>3
    <3> QED BY <3>1, <3>2, <3>4, <3>5
  <2>2. ASSUME NEW i \in 1 .. News(t)'
        PROVE  queue'[t][i].msgid = "UM_NEWCNN" /\ queue'[t][i].id \in i .. accepted'
    <3>1. CASE i = Len(queue[t]) + 1
      <4>1. queue'[t][i] = m
        BY <1>13, <3>1
      <4>2. Len(queue[t]) <= accepted
        <5>1. CASE Len(queue[t]) = 0
          BY <1>3, <5>1
        <5>2. CASE Len(queue[t]) # 0
          <6>1. Len(queue[t]) \in 1 .. News(t)
            BY <1>13, <1>14, <5>2
          <6>2. queue[t][Len(queue[t])].id \in Len(queue[t]) .. accepted
            BY <1>2, <6>1 DEF Queues
          <6> QED BY <1>3, <1>13, <6>2
        <5> QED BY <5>1, <5>2
      <4> QED BY <1>1, <1>3, <1>8, <1>13, <3>1, <4>1, <4>2
    <3>2. CASE i # Len(queue[t]) + 1
      <4>1. i \in 1 .. Len(queue[t]) /\ i \in 1 .. News(t) /\ i \in Int
        BY <1>13, <1>14, <3>2
      <4>2. queue'[t][i] = queue[t][i] /\ queue[t][i].msgid = "UM_NEWCNN" /\ queue[t][i].id \in i .. accepted
        <5>1. queue[t][i].msgid = "UM_NEWCNN" /\ queue[t][i].id \in i .. accepted
          BY <1>2, <4>1 DEF Queues
        <5>2. queue'[t][i] = queue[t][i]
          BY <1>13, <4>1
        <5> QED BY <5>1, <5>2
      <4> QED BY <1>1, <1>3, <4>1, <4>2
    <3> QED BY <3>1, <3>2
  <2>3. task'[t] = "up"
    BY <1>1
  <2> QED BY <1>6, <2>1, <2>2, <2>3 DEF Queues
<1>16. Cleared'
  BY <1>2, <1>4, <1>6, <1>12 DEF Cleared
<1>17. Ends'
  BY <1>1, <1>3 DEF KInv, Ends
<1> QED BY <1>6, <1>9, <1>10, <1>11, <1>15, <1>16, <1>17 DEF KInv, Control

LEMMA StepAccept ==
  ASSUME ~WrapOntoEntry, KInv, TypeOK', NEW fd \in Fds \cup {NoFd}, Accept(fd)
  PROVE  KInv'
<1> DEFINE t == IF mTaskNum = 0 THEN 0 ELSE mJobOrder % mTaskNum
           m == Msg("UM_NEWCNN", accepted + 1, fd)
<1>1. /\ main = "run" /\ accepted < MaxAccept /\ fd \in (Fds \ open) \cup {NoFd}
      /\ Len(queue[t]) < HandleMod - 1 /\ Spare(mCnnList[t][ComingHandle(t)])
      /\ accepted' = accepted + 1 /\ open' = open \cup ({fd} \ {NoFd})
      /\ UNCHANGED <<main, next, mTaskNum, task, before>>
  BY DEF Accept
<1>2. TypeOK /\ Control /\ Queues /\ Phases /\ Cleared /\ Room /\ Items /\ Fates
  BY DEF KInv, Control
<1>3. /\ queue \in [Ctxs -> Seq(Msgs)] /\ mCnnList \in [Ctxs -> [Handles -> Cnns]]
      /\ mTaskNum \in Nat /\ accepted \in Nat /\ accepted + 1 \in Ids /\ next \in Nat
      /\ \A u \in Ctxs : u \in Nat
  BY <1>1, <1>2, TypesOf, MaxAssumption DEF Ids
<1>4. t \in Ctxs /\ (mTaskNum > 0 => t < mTaskNum)
  <2>1. mTaskNum \in TaskNums \cup {0} /\ mJobOrder \in Nat
    BY <1>2 DEF TypeOK
  <2>2. CASE mTaskNum = 0
    BY <2>2, ZeroIsCtx
  <2>3. CASE mTaskNum # 0
    <3>1. t \in 0 .. mTaskNum - 1
      BY <1>3, <2>1, <2>3
    <3> QED BY <1>3, <2>1, <3>1, CtxOf
  <2> QED BY <2>2, <2>3
<1>5. \A u \in Ctxs : \A i \in DOMAIN queue[u] : queue[u][i].id <= accepted
  BY <1>2, <1>3, MessageIs
<1>6. /\ \A u \in Ctxs : /\ ~Closing(u) /\ ~Closing(u)'
                         /\ Idle(u)' <=> Idle(u)
                         /\ TaskIs(u)' <=> TaskIs(u)
      /\ Phases'
  <2>1. \A u \in Ctxs : /\ ~Closing(u) /\ ~Closing(u)'
                        /\ Idle(u)' <=> Idle(u)
                        /\ TaskIs(u)' <=> TaskIs(u)
    BY <1>1 DEF Closing, Idle, Running, TaskIs
  <2> QED BY <1>1, <1>2, <2>1 DEF Phases
<1>7. CASE mTaskNum > 0
  <2>1. queue' = [queue EXCEPT ![t] = Append(queue[t], m)]
        /\ UNCHANGED <<mHandleSeed, mCnnList, told, ended>>
    BY <1>7 DEF Accept
  <2>2. task[t] = "up"
    BY <1>1, <1>2, <1>4, <1>7 DEF Phases, TaskIs
  <2> HIDE DEF t
  <2> QED BY <1>1, <1>4, <1>7, <2>1, <2>2, AcceptQueued
<1>8. CASE ~(mTaskNum > 0)
  <2> DEFINE h == NextHandle(mHandleSeed[0])
  <2>1. t = 0 /\ NewCnn(0, accepted + 1, fd) /\ UNCHANGED queue /\ 0 \in Ctxs /\ mTaskNum = 0
    BY <1>3, <1>8, ZeroIsCtx DEF Accept
  <2>2. \A u \in Ctxs : queue[u] = << >> /\ News(u) = 0 /\ task[u] = "none"
    BY <1>2, <2>1, NoTasks
  <2>3. h \in Handles /\ Spare(mCnnList[0][h])
    <3>1. mHandleSeed[0] \in Handles
      BY <1>2, <2>1, SeedsOf
    <3>2. Len(queue[0]) = 0
      BY <2>1, <2>2
    <3>3. h = ComingHandle(0) /\ h \in Handles
      BY <3>1, <3>2, HandlesCome, HandleType DEF ComingHandle
    <3> QED BY <1>1, <2>1, <3>3
  <2>4. /\ mCnnList' = [mCnnList EXCEPT ![0][h] = Opened(mCnnList[0][h], accepted + 1, fd)]
        /\ told' = [told EXCEPT ![accepted + 1] = Append(told[accepted + 1], "NEW")] /\ ended' = ended
    <3>1. mCnnList[0][h].fd = NoFd
      BY <2>3 DEF Spare
    <3> QED BY <2>1, <3>1 DEF NewCnn
  <2> HIDE DEF h
  <2>5. Items'
    BY <1>1, <1>2, <1>5, <2>1, <2>3, <2>4, DirectItems
  <2>6. Fates'
    BY <1>1, <1>2, <1>3, <1>5, <2>1, <2>3, <2>4, DirectFates
  <2>7. \A u \in Ctxs : News(u)' = 0
    BY <1>6, <2>1, <2>2, EmptySeq DEF News
  <2>8. Room'
    BY <2>7, HandleModAssumption DEF Room
  <2>9. Queues'
    BY <1>1, <1>6, <2>1, <2>2, <2>7 DEF Queues
  <2>10. Cleared'
    <3>1. ~Idle(0)
      BY <1>1, <2>1 DEF Idle, Running
    <3>2. \A u \in Ctxs : u # 0 => mCnnList'[u] = mCnnList[u]
      BY <1>3, <2>4
    <3> QED BY <1>2, <1>6, <2>1, <3>1, <3>2 DEF Cleared
  <2>11. Ends'
    BY <1>1, <1>3, <2>4 DEF KInv, Ends
  <2> QED BY <1>6, <2>5, <2>6, <2>8, <2>9, <2>10, <2>11 DEF KInv, Control
<1> QED BY <1>7, <1>8

-----------------------------------------------------------------------------
LEMMA KInit == Init => KInv
<1> SUFFICES ASSUME Init PROVE KInv
  OBVIOUS
<1>1. TypeOK
  <2>1. mHandleSeed \in [Ctxs -> Handles]
    BY HandleModAssumption DEF Init, Handles
  <2>2. mCnnList \in [Ctxs -> [Handles -> Cnns]]
    BY EmptyCnns DEF Init
  <2> QED BY <2>1, <2>2, MaxAssumption DEF Init, TypeOK, Cnns
<1>2. /\ main = "new" /\ accepted = 0 /\ before = {} /\ open = {}
      /\ \A t \in Ctxs : task[t] = "none" /\ queue[t] = << >> /\ mCnnList[t] = EmptyList
      /\ \A c \in Ids : told[c] = << >> /\ ended[c] = "no"
  BY DEF Init
<1>3. \A t \in Ctxs : ~Closing(t) /\ News(t) = 0 /\ DOMAIN queue[t] = {}
  <2>1. \A t \in Ctxs : ~Closing(t)
    BY <1>2 DEF Closing
  <2>2. \A t \in Ctxs : Len(queue[t]) = 0 /\ DOMAIN queue[t] = {}
    BY <1>2
  <2> QED BY <2>1, <2>2 DEF News
<1>4. /\ NoCnn.id = 0 /\ NoCnn.fd = NoFd /\ NoFd \notin Fds
      /\ \A t \in Ctxs, h \in Handles : mCnnList[t][h] = NoCnn
  <2>1. NoCnn.id = 0 /\ NoCnn.fd = NoFd
    BY DEF NoCnn
  <2>2. NoFd \notin Fds
    BY FdsAssumption DEF NoFd
  <2>3. \A h \in Handles : EmptyList[h] = NoCnn
    BY DEF EmptyList
  <2> QED BY <1>2, <2>1, <2>2, <2>3
<1>5. Control
  <2>1. Phases
    BY <1>2 DEF Phases, TaskIs
  <2>2. Queues
    BY <1>2, <1>3 DEF Queues
  <2>3. Cleared
    BY <1>2 DEF Cleared
  <2> QED BY <2>1, <2>2, <2>3 DEF Control
<1>6. Items
  <2>1. QueuesDiffer /\ QueueAndTable
    BY <1>3 DEF QueuesDiffer, QueueAndTable
  <2>2. TablesDiffer
    BY <1>4 DEF TablesDiffer, Clash
  <2>3. OpenIs
    BY <1>2, <1>3, <1>4 DEF OpenIs, InQueue, InTable
  <2>4. Entries
    BY <1>2, <1>4 DEF Entries
  <2> QED BY <2>1, <2>2, <2>3, <2>4 DEF Items
<1>7. Fates
  <2>1. \A c \in Ids : c > accepted
    BY <1>2 DEF Ids
  <2>2. \A c \in Ids : Fate(c)
    BY <1>2, <2>1 DEF Fate, Ids
  <2> QED BY <1>4, <2>2 DEF Fates
<1>8. Room /\ Ends
  BY <1>2, <1>3, HandleModAssumption DEF Room, Ends
<1> QED BY <1>1, <1>5, <1>6, <1>7, <1>8 DEF KInv

LEMMA KStep ==
  ASSUME ~WrapOntoEntry, KInv, [Next]_vars
  PROVE  KInv'
<1>1. TypeOK'
  BY TypeStep DEF KInv
<1>2. ASSUME NEW n \in TaskNums, Start(n) PROVE KInv'
  BY <1>1, <1>2, StepStart
<1>3. ASSUME NEW fd \in Fds \cup {NoFd}, Accept(fd) PROVE KInv'
  BY <1>1, <1>3, StepAccept
<1>4. CASE CloseAllConnections
  BY <1>1, <1>4, StepCloseAll
<1>5. CASE Close
  BY <1>1, <1>5, StepClose
<1>6. CASE SendCloseAll
  BY <1>1, <1>6, StepSend
<1>7. CASE CloseAllReturns \/ CloseReturns
  BY <1>1, <1>7, StepReturns
<1>8. CASE WaitTask
  BY <1>1, <1>8, StepWait
<1>9. ASSUME NEW t \in Ctxs, TaskNewCnn(t) PROVE KInv'
  BY <1>1, <1>9, StepTaskNew
<1>10. ASSUME NEW t \in Ctxs, TaskCloseAll(t) \/ TaskExit(t) PROVE KInv'
  BY <1>1, <1>10, StepTaskCloses
<1>11. ASSUME NEW t \in Ctxs, NEW h \in Handles,
              \/ Disconnected(t, h) \/ Received(t, h) \/ TimerTick(t, h) \/ PostCloseConnection(t, h)
              \/ LmDisconnect(t, h)
       PROVE  KInv'
  BY <1>1, <1>11, StepConnection
<1>12. CASE UNCHANGED vars
  <2>1. /\ UNCHANGED <<main, next, mTaskNum, task, queue, accepted, mHandleSeed, mCnnList, open, told,
                       ended, before>>
    BY <1>12 DEF vars
  <2>2. TypeOK /\ Control /\ Queues /\ Room /\ Items /\ Fates
    BY DEF KInv, Control
  <2>3. Control'
    BY <2>1, <2>2, ControlSame
  <2>4. Items' /\ Fates'
    BY <2>1, <2>2, ItemsSame, FatesSame
  <2>5. Room'
    <3>1. \A t \in Ctxs : News(t)' = News(t)
      BY <2>1, ControlFrame
    <3>2. \A t \in Ctxs : News(t)' <= News(t) /\ News(t)' \in Nat
      BY <2>2, <3>1, NewsOf
    <3> QED BY <2>1, <2>2, <3>2, RoomKept
  <2>6. Ends'
    BY <2>1 DEF KInv, Ends
  <2> QED BY <1>1, <2>3, <2>4, <2>5, <2>6 DEF KInv
<1> QED BY <1>2, <1>3, <1>4, <1>5, <1>6, <1>7, <1>8, <1>9, <1>10, <1>11, <1>12
        DEF Next, MainStep, TaskStep

THEOREM KInvHolds == ASSUME ~WrapOntoEntry PROVE Spec => []KInv
<1>1. KInv /\ [Next]_vars => KInv'
  BY KStep
<1> QED BY <1>1, KInit, PTL DEF Spec

(* When closeAllConnections() or close() has returned, every connection      *)
(* accepted before the call has ended, those still in a task's queue         *)
(* included, and after close() nothing is open and no task is left.          *)
THEOREM CloseEndsAll == ASSUME ~WrapOntoEntry PROVE Spec => []CloseIsComplete
<1>1. KInv => CloseIsComplete
  <2> SUFFICES ASSUME KInv PROVE CloseIsComplete
    OBVIOUS
  <2>1. main \in {"run", "new"} => \A c \in before : ended[c] # "no"
    BY DEF KInv, Ends
  <2>2. ASSUME main = "new"
        PROVE  open = {} /\ \A t \in Ctxs : task[t] = "none" /\ queue[t] = << >>
    <3>1. TypeOK /\ Control /\ Items
      BY DEF KInv
    <3>2. \A t \in Ctxs : queue[t] = << >> /\ mCnnList[t] = EmptyList /\ task[t] = "none"
      BY <2>2, <3>1, NothingLeft
    <3>3. ASSUME NEW fd \in Fds PROVE ~InQueue(fd) /\ ~InTable(fd)
      <4>1. \A t \in Ctxs : DOMAIN queue[t] = {}
        BY <3>2
      <4>2. ~InQueue(fd)
        BY <4>1 DEF InQueue
      <4>3. NoCnn.fd = NoFd /\ fd # NoFd
        BY FdsAssumption DEF NoCnn, NoFd
      <4>4. \A t \in Ctxs, h \in Handles : mCnnList[t][h] = NoCnn
        BY <3>2 DEF EmptyList
      <4>5. ~InTable(fd)
        BY <4>3, <4>4 DEF InTable
      <4> QED BY <4>2, <4>5
    <3>4. open \subseteq Fds
      BY <3>1 DEF TypeOK
    <3>5. open = {}
      BY <3>1, <3>3, <3>4 DEF Items, OpenIs
    <3> QED BY <3>2, <3>5
  <2> QED BY <2>1, <2>2 DEF CloseIsComplete
<1> QED BY <1>1, KInvHolds, PTL

(* Every connection is accounted for: its listener is told of it once, when  *)
(* its context has it, and of its end when, and only when, the peer ended it;*)
(* one that is served has one entry, with a timer; one that was ended by the *)
(* peer, the timer or the server has none, and one that its own message      *)
(* ended leaves a spare one at most.                                         *)
THEOREM EachEndAccounted == ASSUME ~WrapOntoEntry PROVE Spec => []EndsAccounted
<1>1. KInv => EndsAccounted
  <2> DEFINE k(e) == mCnnList[e[1]][e[2]]
  <2> SUFFICES ASSUME KInv, NEW c \in 1 .. accepted
               PROVE  /\ told[c] = IF Queued(c) THEN << >>
                                   ELSE IF ended[c] = "peer" THEN <<"NEW", "CLOSE">> ELSE <<"NEW">>
                      /\ Queued(c) \/ ended[c] \in {"peer", "timeout", "server"} => EntriesOf(c) = {}
                      /\ ended[c] = "no" /\ ~Queued(c) =>
                           \E e \in EntriesOf(c) : EntriesOf(c) = {e} /\ k(e).timer
                      /\ ended[c] = "message" => \A e \in EntriesOf(c) : EntriesOf(c) = {e} /\ Spare(k(e))
    BY DEF EndsAccounted
  <2>1. accepted \in 0 .. MaxAccept
    BY DEF KInv, TypeOK
  <2>2. c \in Ids /\ c <= accepted /\ c # 0
    BY <2>1, MaxAssumption DEF Ids
  <2>3. Fate(c)
    BY <2>2 DEF KInv, Fates
  <2>4. \A e \in EntriesOf(c) : e[1] \in Ctxs /\ e[2] \in Handles /\ e = <<e[1], e[2]>> /\ k(e).id = c
    BY DEF EntriesOf
  <2> HIDE DEF k
  <2>5. ASSUME NEW e \in EntriesOf(c) PROVE ~Queued(c) /\ FateOf(k(e), ended[c])
    <3>1. mCnnList[e[1]][e[2]].id = c
      BY <2>4 DEF k
    <3>2. \A u \in Ctxs : \A i \in DOMAIN queue[u] : queue[u][i].id # c
      BY <2>2, <2>4, <3>1 DEF KInv, Items, QueueAndTable, Clash
    <3>3. FateOf(k(e), ended[c])
      BY <2>2, <2>4, <3>1 DEF KInv, Fates, k
    <3> QED BY <3>2, <3>3 DEF Queued
  <2>6. ASSUME NEW e \in EntriesOf(c) PROVE EntriesOf(c) = {e}
    <3> SUFFICES ASSUME NEW d \in EntriesOf(c) PROVE d = e
      OBVIOUS
    <3>1. mCnnList[d[1]][d[2]].id = c /\ mCnnList[e[1]][e[2]].id = c
      BY <2>4 DEF k
    <3>2. d[1] = e[1] /\ d[2] = e[2]
      BY <2>2, <2>4, <3>1 DEF KInv, Items, TablesDiffer, Clash
    <3> QED BY <2>4, <3>2
  <2>7. told[c] = IF Queued(c) THEN << >> ELSE IF ended[c] = "peer" THEN <<"NEW", "CLOSE">> ELSE <<"NEW">>
    BY <2>2, <2>3 DEF Fate
  <2>8. Queued(c) \/ ended[c] \in {"peer", "timeout", "server"} => EntriesOf(c) = {}
    BY <2>5 DEF FateOf
  <2>9. ASSUME ended[c] = "no", ~Queued(c)
        PROVE  \E e \in EntriesOf(c) : EntriesOf(c) = {e} /\ k(e).timer
    <3>1. PICK t \in Ctxs : \E h \in Handles : mCnnList[t][h].id = c
      BY <2>2, <2>3, <2>9 DEF Fate, Held
    <3>2. PICK h \in Handles : mCnnList[t][h].id = c
      BY <3>1
    <3>3. <<t, h>> \in EntriesOf(c)
      BY <3>2 DEF EntriesOf
    <3>4. k(<<t, h>>).timer
      BY <2>5, <2>9, <3>3 DEF FateOf
    <3> QED BY <2>6, <3>3, <3>4
  <2>10. ASSUME ended[c] = "message", NEW e \in EntriesOf(c) PROVE EntriesOf(c) = {e} /\ Spare(k(e))
    BY <2>5, <2>6, <2>10 DEF FateOf
  <2> QED BY <2>7, <2>8, <2>9, <2>10
<1> QED BY <1>1, KInvHolds, PTL

(* At most one place holds a descriptor, and then exactly one element of the *)
(* set counts it.                                                            *)
LEMMA OneOrNone ==
  ASSUME NEW S, \A a, b \in S : a = b
  PROVE  IsFiniteSet(S) /\ Cardinality(S) = IF S = {} THEN 0 ELSE 1
<1>1. CASE S = {}
  BY <1>1, FS_EmptySet
<1>2. CASE S # {}
  <2>1. PICK a \in S : TRUE
    BY <1>2
  <2>2. S = {a}
    BY <2>1
  <2> QED BY <1>2, <2>2, FS_Singleton
<1> QED BY <1>1, <1>2

(* No descriptor is lost or shared: an open one is in one place, a task's    *)
(* queue or a connection, and a closed one in none.                          *)
THEOREM DescriptorInOnePlace == ASSUME ~WrapOntoEntry PROVE Spec => []DescriptorsHeld
<1>1. KInv => DescriptorsHeld
  <2> SUFFICES ASSUME KInv, NEW fd \in Fds
               PROVE  Cardinality(QueuedFd(fd)) + Cardinality(HeldFd(fd)) = IF fd \in open THEN 1 ELSE 0
    BY DEF DescriptorsHeld
  <2>1. TypeOK /\ Control /\ Queues /\ Items
    BY DEF KInv, Control
  <2>2. fd # NoFd
    BY FdsAssumption DEF NoFd
  <2>3. Clash([id |-> 0, fd |-> fd], [id |-> 0, fd |-> fd]) /\ \A a, b : a.fd = fd /\ b.fd = fd => Clash(a, b)
    BY <2>2 DEF Clash
  <2>4. \A p, q \in QueuedFd(fd) : p = q
    <3> SUFFICES ASSUME NEW p \in QueuedFd(fd), NEW q \in QueuedFd(fd) PROVE p = q
      OBVIOUS
    <3>1. /\ p \in Ctxs \X (1 .. MaxAccept) /\ p[2] \in DOMAIN queue[p[1]] /\ queue[p[1]][p[2]].fd = fd
          /\ q \in Ctxs \X (1 .. MaxAccept) /\ q[2] \in DOMAIN queue[q[1]] /\ queue[q[1]][q[2]].fd = fd
      BY DEF QueuedFd
    <3>2. p[1] = q[1] /\ p[2] = q[2]
      BY <2>1, <2>3, <3>1 DEF Items, QueuesDiffer
    <3> QED BY <3>1, <3>2
  <2>5. \A p, q \in HeldFd(fd) : p = q
    <3> SUFFICES ASSUME NEW p \in HeldFd(fd), NEW q \in HeldFd(fd) PROVE p = q
      OBVIOUS
    <3>1. /\ p \in Ctxs \X Handles /\ mCnnList[p[1]][p[2]].fd = fd
          /\ q \in Ctxs \X Handles /\ mCnnList[q[1]][q[2]].fd = fd
      BY DEF HeldFd
    <3>2. p[1] = q[1] /\ p[2] = q[2]
      BY <2>1, <2>3, <3>1 DEF Items, TablesDiffer
    <3> QED BY <3>1, <3>2
  <2>6. QueuedFd(fd) # {} <=> InQueue(fd)
    <3>1. QueuedFd(fd) # {} => InQueue(fd)
      BY DEF QueuedFd, InQueue
    <3>2. ASSUME InQueue(fd) PROVE QueuedFd(fd) # {}
      <4>1. PICK t \in Ctxs : \E i \in DOMAIN queue[t] : queue[t][i].fd = fd
        BY <3>2 DEF InQueue
      <4>2. PICK i \in DOMAIN queue[t] : queue[t][i].fd = fd
        BY <4>1
      <4>3. i \in 1 .. accepted
        <5>1. accepted \in Nat /\ Len(queue[t]) \in Nat /\ DOMAIN queue[t] = 1 .. Len(queue[t])
          BY <2>1, TypesOf
        <5>2. queue[t][i].id \in i .. accepted
          BY <2>1, <2>2, <4>2, MessageIs
        <5> QED BY <5>1, <5>2
      <4>4. i \in 1 .. MaxAccept
        BY <2>1, <4>3, MaxAssumption DEF TypeOK
      <4>5. <<t, i>> \in QueuedFd(fd)
        BY <4>2, <4>4 DEF QueuedFd
      <4> QED BY <4>5
    <3> QED BY <3>1, <3>2
  <2>7. HeldFd(fd) # {} <=> InTable(fd)
    <3>1. HeldFd(fd) # {} => InTable(fd)
      BY DEF HeldFd, InTable
    <3>2. ASSUME NEW t \in Ctxs, NEW h \in Handles, mCnnList[t][h].fd = fd PROVE <<t, h>> \in HeldFd(fd)
      BY <3>2 DEF HeldFd
    <3> QED BY <3>1, <3>2 DEF InTable
  <2>8. ~(InQueue(fd) /\ InTable(fd))
    BY <2>1, <2>3 DEF InQueue, InTable, Items, QueueAndTable
  <2>9. fd \in open <=> InQueue(fd) \/ InTable(fd)
    BY <2>1 DEF Items, OpenIs
  <2>10. /\ Cardinality(QueuedFd(fd)) = IF QueuedFd(fd) = {} THEN 0 ELSE 1
         /\ Cardinality(HeldFd(fd)) = IF HeldFd(fd) = {} THEN 0 ELSE 1
    BY <2>4, <2>5, OneOrNone
  <2> QED BY <2>6, <2>7, <2>8, <2>9, <2>10
<1> QED BY <1>1, KInvHolds, PTL
=============================================================================
