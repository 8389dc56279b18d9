-------------------------- MODULE RestServerProofs --------------------------
(***************************************************************************)
(* RestServer (server-4.c): the database query and the stray accept in     *)
(* front of every read take nothing away from what EpollServer guarantees. *)
(* Its inductive invariant holds here too, strengthened by what is true    *)
(* while a handler is on its way into recv; and with the two provisos of   *)
(* EchoServiceProofs the server is still an EchoService, whatever the      *)
(* database does and whoever is accepted without being registered.         *)
(***************************************************************************)
EXTENDS RestServer, EchoServiceProofs

(* On the way from an event to its recv the descriptor stays readable: a   *)
(* client can add to what there is to read, and nobody else reads it.      *)
BeforeRecv ==
    pc \in {"db", "accept"} =>
        /\ cur # LISTEN
        /\ interest[cur] = {"IN"}
        /\ ~InBatch(cur)
        /\ Readable(peer[cur])

RestInv == IInv /\ BeforeRecv

LEMMA OnTheWay ==
    ASSUME RestInv, pc \in {"db", "accept"}
    PROVE  /\ cur \in Fds /\ cur # LISTEN /\ ~InBatch(cur)
           /\ interest[cur] = {"IN"} /\ Readable(peer[cur])
           /\ peer[cur] # NoClient /\ peer[cur] \in Clients
           /\ cnt = 0 /\ pc \notin HandlerLabels
PROOF
<1>1. cur \in Fds /\ cur # LISTEN /\ ~InBatch(cur) /\ interest[cur] = {"IN"} /\ Readable(peer[cur])
  BY DEF RestInv, BeforeRecv, IInv, StateTypeOK, LoopTypeOK, Watched
<1>2. peer[cur] # NoClient
  BY <1>1 DEF RestInv, IInv, RegistrationInv
<1>3. peer[cur] \in Clients
  BY <1>1, <1>2 DEF RestInv, IInv, StateTypeOK, KernelTypeOK
<1>4. cnt = 0 /\ pc \notin HandlerLabels
  BY DEF RestInv, IInv, LoopInv, HandlerLabels
<1>5. QED
  BY <1>1, <1>2, <1>3, <1>4

-----------------------------------------------------------------------------
(* RestInv is inductive.                                                   *)

LEMMA RestHandleInInv ==
    ASSUME RestInv, NEW e \in batch, RestHandleIn(e)
    PROVE  RestInv'
PROOF
<1>1. /\ pc = "dispatch" /\ pc' = "db" /\ cur = LISTEN /\ cnt = 0
      /\ batch' = batch \ {e} /\ cur' = e.fd /\ e.fd # LISTEN /\ "IN" \in e.ev
      /\ UNCHANGED <<kernel, cnt, buffers>>
  BY DEF RestInv, IInv, LoopInv, HandlerLabels, RestHandleIn, Enter, Take
<1>2. IInv
  BY DEF RestInv
<1>3. e.fd \in Fds /\ peer[e.fd] # NoClient
  BY <1>1, <1>2, BatchFacts
<1>4. interest[e.fd] \in {{"IN"}, {"OUT"}}
  BY <1>1, <1>2, <1>3 DEF IInv, RegistrationInv, LoopInv
<1>5. interest[e.fd] = {"IN"} /\ Readable(peer[e.fd])
  <2>1. e.ev \cap {"IN", "OUT"} \subseteq interest[e.fd] /\ Readable(peer[e.fd])
    BY <1>1, <1>2 DEF IInv, LoopInv
  <2>2. QED
    BY <1>1, <1>4, <2>1
<1>6. UNCHANGED <<peer, interest, phase, wrote, taken, echoed, data_len>>
  BY <1>1 DEF kernel, buffers
<1>7. StateTypeOK'
  BY <1>1, <1>2, <1>3
  DEF IInv, StateTypeOK, KernelTypeOK, LoopTypeOK, BuffersTypeOK, Watched, kernel, buffers
<1>8. RegistrationInv'
  BY <1>1, <1>2, RegistrationFrame DEF IInv, kernel
<1>9. ~InBatch(cur)'
  BY <1>1, <1>2 DEF IInv, LoopInv, InBatch
<1>10. LoopInv'
  BY <1>1, <1>2, <1>6 DEF IInv, LoopInv, HandlerLabels, Readable, Unread
<1>11. BytesInv'
  <2>1. \A fd \in Fds : interest[fd] = {"OUT"} => data_len[fd] > 0 /\ Owes(fd, data_len[fd])
    BY <1>1, <1>2, KernelAssumption DEF IInv, BytesInv
  <2>2. QED
    BY <1>1, <1>2, <1>6, <2>1 DEF IInv, BytesInv, Owes
<1>12. NoIdleHandler'
  BY <1>1 DEF NoIdleHandler
<1>13. NoLostWakeup'
  <2>1. \A fd \in Fds : Attended(fd) => Attended(fd)'
    BY <1>1, KernelAssumption DEF Attended, InBatch, kernel
  <2>2. \A fd \in Fds : peer'[fd] # NoClient /\ Due(fd)' => peer[fd] # NoClient /\ Due(fd)
    BY <1>1 DEF kernel, Due, Readable, Writable, Unread, Room
  <2>3. QED
    BY <1>2, <1>8, <2>1, <2>2, WakeupStep DEF IInv
<1>14. BeforeRecv'
  BY <1>1, <1>5, <1>6, <1>9 DEF BeforeRecv, Readable, Unread
<1>15. QED
  BY <1>7, <1>8, <1>10, <1>11, <1>12, <1>13, <1>14 DEF RestInv, IInv

(* The steps on the way that touch nothing but pc.                         *)
LEMMA PassOnInv ==
    ASSUME RestInv, MysqlDoit \/ MysqlDoitFails \/ AcceptNothing
    PROVE  RestInv'
PROOF
<1>1. /\ pc \in {"db", "accept"} /\ pc' \in {"accept", "recv", "exit"}
      /\ UNCHANGED <<kernel, batch, cur, cnt, buffers>>
  BY DEF MysqlDoit, MysqlDoitFails, AcceptNothing
<1>2. /\ cur \in Fds /\ cur # LISTEN /\ ~InBatch(cur)
      /\ interest[cur] = {"IN"} /\ Readable(peer[cur])
      /\ peer[cur] # NoClient /\ peer[cur] \in Clients /\ cnt = 0
  BY <1>1, OnTheWay
<1>3. IInv
  BY DEF RestInv
<1>4. UNCHANGED <<peer, interest, phase, wrote, taken, echoed, data_len>>
  BY <1>1 DEF kernel, buffers
<1>5. KernelTypeOK' /\ RegistrationInv' /\ NoLostWakeup'
  BY <1>1, <1>3, KernelFrame
<1>6. StateTypeOK'
  BY <1>1, <1>3, <1>5 DEF IInv, StateTypeOK, LoopTypeOK, BuffersTypeOK, buffers
<1>7. InBatch(cur)' = InBatch(cur) /\ Readable(peer[cur])' = Readable(peer[cur])
  BY <1>1, <1>4 DEF InBatch, Readable, Unread
<1>8. LoopInv'
  BY <1>1, <1>2, <1>3, <1>4, <1>7 DEF IInv, LoopInv, HandlerLabels, Readable, Unread
<1>9. BytesInv'
  <2>1. Owes(cur, cnt)'
    <3>1. Len(echoed[peer[cur]]) <= taken[peer[cur]]
      BY <1>2, <1>3 DEF IInv, BytesInv
    <3>2. Len(echoed[peer[cur]]) \in Nat /\ taken[peer[cur]] \in Nat
      BY <1>2, <1>3 DEF IInv, StateTypeOK, KernelTypeOK
    <3>3. QED
      BY <1>1, <1>2, <1>4, <3>1, <3>2 DEF Owes
  <2>2. QED
    BY <1>1, <1>3, <1>4, <2>1 DEF IInv, BytesInv, Owes
<1>10. NoIdleHandler'
  BY <1>1, <1>2, <1>7 DEF NoIdleHandler
<1>11. BeforeRecv'
  BY <1>1, <1>2, <1>4, <1>7 DEF BeforeRecv
<1>12. QED
  BY <1>5, <1>6, <1>8, <1>9, <1>10, <1>11 DEF RestInv, IInv

(* The stray accept: a connection gets a descriptor that is not registered *)
(* for anything, so that nothing about it can be missed.                   *)
LEMMA AcceptUnusedInv ==
    ASSUME RestInv, AcceptUnused
    PROVE  RestInv'
PROOF
<1>1. /\ pc = "accept" /\ pc' = "recv"
      /\ UNCHANGED <<phase, wrote, taken, echoed, drained, epoll, batch, cur, cnt, buffers>>
  BY DEF AcceptUnused
<1>2. PICK c \in backlog, fd \in Fds : Accept(c, fd)
  BY DEF AcceptUnused
<1>3. peer[fd] = NoClient /\ backlog' = backlog \ {c} /\ peer' = [peer EXCEPT ![fd] = c]
  BY <1>2 DEF Accept, IsLowestFree, IsFree
<1>4. /\ cur \in Fds /\ cur # LISTEN /\ ~InBatch(cur)
      /\ interest[cur] = {"IN"} /\ Readable(peer[cur])
      /\ peer[cur] # NoClient /\ peer[cur] \in Clients /\ cnt = 0
  BY <1>1, OnTheWay
<1>5. IInv
  BY DEF RestInv
<1>6. c \in Clients /\ c # NoClient /\ Connected(c) /\ interest[fd] = {}
  BY <1>3, <1>5, KernelAssumption DEF IInv, StateTypeOK, KernelTypeOK, RegistrationInv
<1>7. \A g \in Fds : IF g = fd THEN peer'[g] = c ELSE peer'[g] = peer[g]
  BY <1>3, <1>5 DEF IInv, StateTypeOK, KernelTypeOK
<1>8. fd # cur /\ peer'[cur] = peer[cur]
  BY <1>3, <1>4, <1>7
<1>9. UNCHANGED <<interest, ready, data_len>>
  BY <1>1 DEF epoll, buffers
<1>10. StateTypeOK'
  BY <1>1, <1>3, <1>5, <1>6
  DEF IInv, StateTypeOK, KernelTypeOK, LoopTypeOK, BuffersTypeOK, epoll, buffers
<1>11. RegistrationInv'
  <2>1. \A g \in Fds : peer[g] # c
    BY <1>6, <1>5 DEF IInv, RegistrationInv
  <2>2. QED
    BY <1>1, <1>3, <1>5, <1>6, <1>7, <1>9, <2>1 DEF IInv, RegistrationInv, Connected
<1>12. LoopInv'
  <2>1. \A e \in batch : e.fd # LISTEN => e.fd \in Fds /\ e.fd # fd
    BY <1>3, <1>5, BatchFacts
  <2>2. InBatch(cur)' = InBatch(cur)
    BY <1>1 DEF InBatch
  <2>3. QED
    BY <1>1, <1>4, <1>5, <1>7, <1>8, <1>9, <2>1, <2>2
    DEF IInv, LoopInv, HandlerLabels, Readable, Unread
<1>13. BytesInv'
  <2>1. Owes(cur, cnt)'
    <3>1. Len(echoed[peer[cur]]) <= taken[peer[cur]]
      BY <1>4, <1>5 DEF IInv, BytesInv
    <3>2. Len(echoed[peer[cur]]) \in Nat /\ taken[peer[cur]] \in Nat
      BY <1>4, <1>5 DEF IInv, StateTypeOK, KernelTypeOK
    <3>3. QED
      BY <1>1, <1>4, <1>8, <3>1, <3>2 DEF Owes
  <2>2. \A g \in Fds : interest[g] = {"OUT"} => g # fd
    BY <1>6
  <2>3. QED
    BY <1>1, <1>5, <1>7, <1>9, <2>1, <2>2 DEF IInv, BytesInv, Owes
<1>14. NoIdleHandler'
  BY <1>1, <1>4, <1>8 DEF NoIdleHandler, Readable, Unread
<1>15. NoLostWakeup'
  <2>1. ASSUME NEW g \in Fds, Due(g)'
        PROVE  Due(g) /\ g # fd
    BY <1>1, <1>6, <1>7, <1>9, <2>1 DEF Due, Readable, Writable, Unread, Room
  <2>2. \A g \in Fds : Attended(g)' = Attended(g)
    BY <1>1, <1>9 DEF Attended, InBatch
  <2>3. QED
    BY <1>5, <1>7, <1>11, <2>1, <2>2, WakeupStep DEF IInv
<1>16. BeforeRecv'
  BY <1>1 DEF BeforeRecv
<1>17. QED
  BY <1>10, <1>11, <1>12, <1>13, <1>14, <1>15, <1>16 DEF RestInv, IInv

LEMMA RestEnvironmentInv ==
    ASSUME RestInv, Environment
    PROVE  RestInv'
PROOF
<1>1. PICK c \in Clients : ClientStep(c) /\ UNCHANGED <<process, buffers>>
  BY DEF Environment
<1>2. IInv'
  BY EnvironmentInv DEF RestInv
<1>3. UNCHANGED <<peer, interest, pc, cur, batch>>
  BY <1>1 DEF ClientStep, Connect, ClientWrite, ClientRead, ClientShutdown, ClientReset, process
<1>4. \A d \in Clients : Readable(d) => Readable(d)'
  <2>1. IInv
    BY DEF RestInv
  <2>2. \A d \in Clients : wrote[d] \in Nat /\ taken[d] \in Nat
    BY <2>1 DEF IInv, StateTypeOK, KernelTypeOK
  <2>3. CASE Connect(c) \/ ClientRead(c) \/ ClientShutdown(c) \/ ClientReset(c)
    BY <2>1, <2>3
    DEF Connect, ClientRead, ClientShutdown, ClientReset, Readable, Unread, IInv, StateTypeOK,
        KernelTypeOK
  <2>4. CASE ClientWrite(c)
    BY <2>1, <2>2, <2>4 DEF ClientWrite, Readable, Unread, IInv, StateTypeOK, KernelTypeOK
  <2>5. QED
    BY <1>1, <2>3, <2>4 DEF ClientStep
<1>5. BeforeRecv'
  <2>1. SUFFICES ASSUME pc \in {"db", "accept"} PROVE BeforeRecv'
    BY <1>3 DEF BeforeRecv
  <2>2. /\ cur # LISTEN /\ ~InBatch(cur) /\ interest[cur] = {"IN"}
        /\ Readable(peer[cur]) /\ peer[cur] \in Clients
    BY <2>1, OnTheWay
  <2>3. Readable(peer[cur])'
    BY <1>3, <1>4, <2>2
  <2>4. QED
    BY <1>3, <2>2, <2>3 DEF BeforeRecv, InBatch
<1>6. QED
  BY <1>2, <1>5 DEF RestInv

(* The loop and the handlers of server-3.c do not lead into the query.     *)
LEMMA SharedInv ==
    ASSUME RestInv, \/ EpollWait \/ EpollWaitFails \/ Handler
                    \/ \E e \in batch : HandleListen(e) \/ HandleListenFails(e) \/ HandleOut(e)
    PROVE  RestInv'
PROOF
<1>1. IInv'
  BY EpollWaitInv, ExitInv, HandlerInv, HandleListenInv, EnterInv DEF RestInv
<1>2. pc' \notin {"db", "accept"}
  BY DEF Handler, EpollWait, EpollWaitFails, HandleListen, HandleListenFails, HandleOut, Enter,
         RecvSome, RecvEnds, RearmOut, SendSome, SendFails, RearmIn, CloseClient, Leave, LoopLabel
<1>3. QED
  BY <1>1, <1>2 DEF RestInv, BeforeRecv

LEMMA RestNextInv ==
    ASSUME RestInv, [RestNext]_vars
    PROVE  RestInv'
PROOF
<1>1. CASE \/ EpollWait \/ EpollWaitFails \/ Handler
           \/ \E e \in batch : HandleListen(e) \/ HandleListenFails(e) \/ HandleOut(e)
  BY <1>1, SharedInv
<1>2. ASSUME NEW e \in batch, RestHandleIn(e)
      PROVE  RestInv'
  BY <1>2, RestHandleInInv
<1>3. CASE MysqlDoit \/ MysqlDoitFails \/ AcceptNothing
  BY <1>3, PassOnInv
<1>4. CASE AcceptUnused
  BY <1>4, AcceptUnusedInv
<1>5. CASE Environment
  BY <1>5, RestEnvironmentInv
<1>6. CASE UNCHANGED vars
  <2>1. IInv'
    BY <1>6, StutterInv DEF RestInv
  <2>2. BeforeRecv'
    BY <1>6 DEF RestInv, BeforeRecv, vars, kernel, process, InBatch, Readable, Unread
  <2>3. QED
    BY <2>1, <2>2 DEF RestInv
<1>7. QED
  BY <1>1, <1>2, <1>3, <1>4, <1>5, <1>6
  DEF RestNext, RestProcess, RestWorking, RestDispatch, RestHandler

LEMMA InitRest == Init => RestInv
PROOF
<1>1. Init => BeforeRecv
  BY DEF Init, BeforeRecv
<1>2. QED
  BY <1>1, InitInv DEF RestInv

THEOREM RestInvariance == RestSpec => []RestInv
PROOF
<1>1. RestInv /\ [RestNext]_vars => RestInv'
  BY RestNextInv
<1>2. QED
  BY <1>1, InitRest, PTL DEF RestSpec

-----------------------------------------------------------------------------
(* What follows.                                                           *)

LEMMA RestLabelsStep ==
    ASSUME pc \in Labels \cup {"db", "accept"}, [RestNext]_vars
    PROVE  pc' \in Labels \cup {"db", "accept"}
PROOF
<1>1. CASE RestNext
  BY <1>1
  DEF Labels, RestNext, RestProcess, RestWorking, RestDispatch, RestHandler, RestHandleIn,
      MysqlDoit, MysqlDoitFails, AcceptUnused, AcceptNothing, Handler, EpollWait,
      EpollWaitFails, HandleListen, HandleListenFails, HandleOut, Enter, RecvSome, RecvEnds,
      RearmOut, SendSome, SendFails, RearmIn, CloseClient, Leave, LoopLabel, Environment, process
<1>2. CASE UNCHANGED vars
  BY <1>2 DEF vars, process
<1>3. QED
  BY <1>1, <1>2

(* Every variable has its type.                                            *)
THEOREM RestTypeCorrect == RestSpec => []RestTypeOK
PROOF
<1>1. Init => pc \in Labels \cup {"db", "accept"}
  BY DEF Init, Labels
<1>2. pc \in Labels \cup {"db", "accept"} /\ [RestNext]_vars => (pc \in Labels \cup {"db", "accept"})'
  BY RestLabelsStep
<1>3. RestInv /\ pc \in Labels \cup {"db", "accept"} => RestTypeOK
  BY DEF RestInv, IInv, RestTypeOK
<1>4. QED
  BY <1>1, <1>2, <1>3, RestInvariance, PTL DEF RestSpec

(* However long the query takes, and whatever accept returned: the first   *)
(* recv behind it finds the descriptor readable, and every send has bytes  *)
(* to send.                                                                *)
THEOREM RestHandlersAreNeeded == RestSpec => []NoIdleHandler
PROOF
<1>1. RestInv => NoIdleHandler
  BY DEF RestInv, IInv
<1>2. QED
  BY <1>1, RestInvariance, PTL

(* An edge that arrives during the query is not lost, and a connection     *)
(* that is not registered has none.                                        *)
THEOREM RestWakeupsAreKept == RestSpec => []NoLostWakeup
PROOF
<1>1. RestInv => NoLostWakeup
  BY DEF RestInv, IInv
<1>2. QED
  BY <1>1, RestInvariance, PTL

-----------------------------------------------------------------------------
(* RestServer implements EchoService.                                      *)

LEMMA RestHandleInEcho ==
    ASSUME RestInv, EchoInv, NEW e \in batch, RestHandleIn(e)
    PROVE  EchoInv'
PROOF
<1>1. /\ UNCHANGED <<phase, backlog, wrote, taken, echoed, peer, interest, cnt, data, data_len>>
      /\ pc = "dispatch" /\ pc' = "db"
  BY DEF RestHandleIn, Enter, Take, kernel, buffers
<1>2. EchoIsPrefix'
  BY <1>1 DEF EchoInv, EchoIsPrefix
<1>3. \A fd \in Fds : Settled(fd)' = Settled(fd) /\ Holds(fd, data_len[fd])' = Holds(fd, data_len[fd])
  BY <1>1 DEF Settled, Holds
<1>4. QED
  BY <1>1, <1>2, <1>3 DEF EchoInv, Busy, HandlerLabels

(* A connection that comes out of the query is as settled as it went in:   *)
(* its buffer holds the empty answer when recv begins.                     *)
LEMMA OnTheWayEcho ==
    ASSUME RestInv, EchoInv, MysqlDoit \/ MysqlDoitFails \/ AcceptUnused \/ AcceptNothing
    PROVE  EchoInv'
PROOF
<1>1. /\ pc \in {"db", "accept"} /\ pc' \in {"accept", "recv", "exit"}
      /\ UNCHANGED <<phase, wrote, taken, echoed, interest, cur, cnt, data, data_len>>
  BY DEF MysqlDoit, MysqlDoitFails, AcceptUnused, AcceptNothing, kernel, epoll, buffers
<1>2. cur \in Fds /\ interest[cur] = {"IN"} /\ peer[cur] \in Clients /\ cnt = 0
  BY <1>1, OnTheWay
<1>3. backlog' \subseteq backlog /\ \A g \in Fds : interest[g] # {} => peer'[g] = peer[g]
  <2>1. CASE AcceptUnused
    <3>1. PICK c \in backlog, fd \in Fds : Accept(c, fd)
      BY <2>1 DEF AcceptUnused
    <3>2. peer[fd] = NoClient /\ peer' = [peer EXCEPT ![fd] = c] /\ backlog' = backlog \ {c}
      BY <3>1 DEF Accept, IsLowestFree, IsFree
    <3>3. interest[fd] = {}
      BY <3>2 DEF RestInv, IInv, RegistrationInv
    <3>4. QED
      BY <3>2, <3>3 DEF RestInv, IInv, StateTypeOK, KernelTypeOK
  <2>2. CASE MysqlDoit \/ MysqlDoitFails \/ AcceptNothing
    BY <2>2 DEF MysqlDoit, MysqlDoitFails, AcceptNothing, kernel
  <2>3. QED
    BY <2>1, <2>2
<1>4. EchoIsPrefix'
  BY <1>1 DEF EchoInv, EchoIsPrefix
<1>5. \A g \in Fds : interest[g] # {} =>
          Settled(g)' = Settled(g) /\ Holds(g, data_len[g])' = Holds(g, data_len[g])
  BY <1>1, <1>3 DEF Settled, Holds
<1>6. {"IN"} # {} /\ {"OUT"} # {}
  OBVIOUS
<1>7. \A g \in Fds : /\ interest'[g] = {"IN"} => Settled(g)'
                     /\ interest'[g] = {"OUT"} => Holds(g, data_len[g])'
  BY <1>1, <1>5, <1>6 DEF EchoInv, Busy, HandlerLabels
<1>8. Holds(cur, cnt)'
  <2>1. Settled(cur) /\ taken[peer[cur]] \in Nat /\ peer'[cur] = peer[cur]
    BY <1>1, <1>2, <1>3, <1>6 DEF EchoInv, Busy, HandlerLabels, RestInv, IInv, StateTypeOK, KernelTypeOK
  <2>2. QED
    BY <1>1, <1>2, <2>1 DEF Settled, Holds
<1>9. QED
  BY <1>1, <1>2, <1>3, <1>4, <1>7, <1>8 DEF EchoInv

LEMMA RestNextEcho ==
    ASSUME AnswersAreTaken, RestInv, RestInv', EchoInv, [RestNext]_vars
    PROVE  EchoInv'
PROOF
<1>1. IInv /\ IInv'
  BY DEF RestInv
<1>2. CASE Handler \/ Environment \/ EpollWait \/ EpollWaitFails \/ UNCHANGED vars
  BY <1>1, <1>2, HandlerEcho, EnvironmentEcho, LoopEcho, StutterEcho
<1>3. ASSUME NEW e \in batch, HandleListen(e) \/ HandleListenFails(e) \/ HandleOut(e)
      PROVE  EchoInv'
  BY <1>1, <1>3, HandleListenEcho, LoopEcho, EnterEcho
<1>4. ASSUME NEW e \in batch, RestHandleIn(e)
      PROVE  EchoInv'
  BY <1>4, RestHandleInEcho
<1>5. CASE MysqlDoit \/ MysqlDoitFails \/ AcceptUnused \/ AcceptNothing
  BY <1>5, OnTheWayEcho
<1>6. QED
  BY <1>2, <1>3, <1>4, <1>5 DEF RestNext, RestProcess, RestWorking, RestDispatch, RestHandler

LEMMA RestNextAtEnd ==
    ASSUME AnswersAreTaken, RequestsAreShort, RestInv, EchoInv, EndInv, [RestNext]_vars
    PROVE  EndInv'
PROOF
<1>1. IInv
  BY DEF RestInv
<1>2. CASE Environment
  BY <1>1, <1>2, EnvironmentAtEnd
<1>3. CASE Handler
  BY <1>1, <1>3, HandlerAtEnd
<1>4. CASE RestProcess /\ ~Handler
  BY <1>4
  DEF RestProcess, RestWorking, RestDispatch, RestHandler, RestHandleIn, MysqlDoit,
      MysqlDoitFails, AcceptUnused, AcceptNothing, EpollWait, EpollWaitFails, HandleListen,
      HandleListenFails, HandleOut, Enter, LoopLabel, EndInv
<1>5. CASE UNCHANGED vars
  BY <1>5 DEF EndInv, vars, kernel, process
<1>6. QED
  BY <1>2, <1>3, <1>4, <1>5 DEF RestNext

LEMMA RestStepServes ==
    ASSUME AnswersAreTaken, RestInv, EchoInv, EndInv, [RestNext]_vars
    PROVE  [Service!Next]_(Service!vars)
PROOF
<1>1. IInv
  BY DEF RestInv
<1>2. CASE Environment
  BY <1>1, <1>2, ClientServes DEF Environment
<1>3. CASE Handler
  BY <1>1, <1>3, HandlerServes
<1>4. CASE AcceptUnused
  BY <1>1, <1>4, AcceptServes DEF AcceptUnused
<1>5. CASE MysqlDoit \/ MysqlDoitFails \/ AcceptNothing
  BY <1>5, Internal DEF MysqlDoit, MysqlDoitFails, AcceptNothing, kernel
<1>6. ASSUME NEW e \in batch, RestHandleIn(e)
      PROVE  UNCHANGED Service!vars
  BY <1>6, Internal DEF RestHandleIn, Enter, kernel
<1>7. QED
  BY <1>1, <1>2, <1>3, <1>4, <1>5, <1>6, LoopServes
  DEF RestNext, RestProcess, RestWorking, RestDispatch, RestHandler

(* The server with the database is an echo service too: the client whose   *)
(* connection the stray accept took is served by nobody, which an echo     *)
(* service may do, but it is never sent anything either, and the clients   *)
(* that are served get their own bytes.                                    *)
THEOREM RestServesEcho == AnswersAreTaken /\ RequestsAreShort /\ RestSpec => ServiceSafety
PROOF
<1> SUFFICES ASSUME AnswersAreTaken, RequestsAreShort PROVE RestSpec => Service!Spec
  BY DEF ServiceSafety
<1>1. Init => EchoInv /\ EndInv /\ Service!Init
  <2>1. Init => {c \in Clients : Accepted(c)} = {}
    BY KernelAssumption DEF Init, KernelInit, Accepted
  <2>2. QED
    BY <2>1, InitEcho DEF Init, KernelInit, Service!Init, EndInv
<1>2. RestInv /\ RestInv' /\ EchoInv /\ [RestNext]_vars => EchoInv'
  BY RestNextEcho
<1>3. RestInv /\ EchoInv /\ EndInv /\ [RestNext]_vars => EndInv'
  BY RestNextAtEnd
<1>4. RestInv /\ EchoInv /\ EndInv /\ [RestNext]_vars => [Service!Next]_(Service!vars)
  BY RestStepServes
<1>5. QED
  BY <1>1, <1>2, <1>3, <1>4, RestInvariance, PTL DEF RestSpec, Service!Spec
=============================================================================
