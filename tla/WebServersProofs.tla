-------------------------- MODULE WebServersProofs --------------------------
(***************************************************************************)
(* The servers with one buffer for all connections (server-2.c,            *)
(* bak/server-4.c, bak/server-5.c), proved for every number of clients,    *)
(* descriptors and events, every size of the buffer, whatever the faults.  *)
(* The invariant has three parts: WebInv, which is about descriptors and   *)
(* edges; OneRequest, about the buffer; MessageInv, about what the         *)
(* callbacks of the parser collect.  What lies behind data, and how far    *)
(* strlen runs there, is left open.                                        *)
(***************************************************************************)
EXTENDS WebServers, SequenceTheorems, TLAPS

HandlerLabels == {"accept", "recv", "rearmOut", "parse", "send", "rearmIn", "close"}
Connected(c)  == phase[c] \in {"open", "shut", "reset"}

StateTypeOK == KernelTypeOK /\ ProcessTypeOK(WebLabels) /\ BuffTypeOK

(* Descriptors, connections and registrations agree.                       *)
RegistrationInv ==
    /\ interest[LISTEN] = {"IN"}
    /\ \A c \in backlog : Connected(c)
    /\ \A fd \in Fds :
        /\ interest[fd] \in {{}, {"IN"}, {"OUT"}}
        /\ peer[fd] = NoClient => interest[fd] = {}
        /\ peer[fd] # NoClient => Connected(peer[fd]) /\ peer[fd] \notin backlog
        /\ \A g \in Fds : peer[fd] = peer[g] /\ peer[fd] # NoClient => fd = g

(* What the handler that runs, and the events that are left, rely on.      *)
LoopInv ==
    /\ pc \in {"start", "aio", "wait"} => batch = {}
    /\ pc \notin HandlerLabels => cur = LISTEN /\ cnt = 0
    /\ pc \in HandlerLabels => cur # LISTEN /\ peer[cur] # NoClient /\ ~InBatch(cur)
    /\ pc \in {"accept", "parse"} => cnt = 0
    /\ \A e \in batch :
        /\ \A f \in batch : f.fd = e.fd => f = e
        /\ e.fd # LISTEN =>
            interest[e.fd] # {} /\ e.ev \cap {"IN", "OUT"} \subseteq interest[e.fd]

WebInv == StateTypeOK /\ RegistrationInv /\ LoopInv /\ NoLostWakeup

LEMMA HandlerFacts ==
    ASSUME WebInv, pc \in HandlerLabels
    PROVE  /\ cur \in Fds /\ cur # LISTEN /\ ~InBatch(cur)
           /\ peer[cur] \in Clients /\ peer[cur] # NoClient /\ Connected(peer[cur])
           /\ \A fd \in Fds : fd # cur /\ peer[fd] # NoClient => peer[fd] # peer[cur]
PROOF
<1>1. cur \in Fds /\ cur # LISTEN /\ peer[cur] # NoClient /\ ~InBatch(cur)
  BY DEF WebInv, LoopInv, StateTypeOK, ProcessTypeOK, Watched
<1>2. peer[cur] \in Clients
  BY <1>1 DEF WebInv, StateTypeOK, KernelTypeOK
<1>3. QED
  BY <1>1, <1>2 DEF WebInv, RegistrationInv

LEMMA BatchFacts ==
    ASSUME WebInv, NEW e \in batch
    PROVE  /\ e \in Events
           /\ e.fd \in Watched
           /\ e.fd # LISTEN => e.fd \in Fds /\ peer[e.fd] \in Clients /\ peer[e.fd] # NoClient
PROOF
<1>1. e \in Events /\ e.fd \in Watched
  BY DEF WebInv, StateTypeOK, ProcessTypeOK, Events
<1>2. e.fd # LISTEN => e.fd \in Fds /\ peer[e.fd] # NoClient
  BY <1>1 DEF WebInv, LoopInv, RegistrationInv, Watched
<1>3. QED
  BY <1>1, <1>2 DEF WebInv, StateTypeOK, KernelTypeOK

-----------------------------------------------------------------------------
(* Edges.                                                                  *)

(* A registered descriptor has something to report if it can be read, or   *)
(* written, whichever it is armed for: the errors come with both.          *)
Due(fd) ==
    \/ interest[fd] = {"IN"} /\ Readable(peer[fd])
    \/ interest[fd] = {"OUT"} /\ Writable(peer[fd])

LEMMA ReportsDue ==
    ASSUME NEW fd \in Fds, peer[fd] # NoClient
    PROVE  /\ Reports(fd, {"IN"}) # {} <=> Readable(peer[fd])
           /\ Reports(fd, {"OUT"}) # {} <=> Writable(peer[fd])
BY KernelAssumption DEF Reports, Poll, PollConnection, Masks, Readable, Writable

LEMMA ReventsDue ==
    ASSUME RegistrationInv, NEW fd \in Fds, peer[fd] # NoClient
    PROVE  Revents(fd) # {} <=> Due(fd)
BY ReportsDue DEF RegistrationInv, Revents, Due

LEMMA ReventsDueNext ==
    ASSUME RegistrationInv', NEW fd \in Fds, peer'[fd] # NoClient
    PROVE  Revents(fd)' # {} <=> Due(fd)'
PROOF
<1>1. Reports(fd, {"IN"})' # {} <=> Readable(peer[fd])'
  BY KernelAssumption DEF Reports, Poll, PollConnection, Masks, Readable
<1>2. Reports(fd, {"OUT"})' # {} <=> Writable(peer[fd])'
  BY KernelAssumption DEF Reports, Poll, PollConnection, Masks, Writable
<1>3. QED
  BY <1>1, <1>2 DEF RegistrationInv, Revents, Due

(* No wakeup is lost in a step after which every descriptor that is due is *)
(* attended to, or was due before and has not been taken away from.        *)
LEMMA WakeupStep ==
    ASSUME NoLostWakeup, RegistrationInv, RegistrationInv',
           \A fd \in Fds : peer'[fd] # NoClient /\ Due(fd)' =>
                \/ Attended(fd)'
                \/ peer[fd] # NoClient /\ Due(fd) /\ (Attended(fd) => Attended(fd)')
    PROVE  NoLostWakeup'
BY ReventsDue, ReventsDueNext DEF NoLostWakeup

(* Steps that leave the kernel alone, and take no descriptor away from     *)
(* whoever attends to it.                                                  *)
LEMMA KernelFrame ==
    ASSUME WebInv, UNCHANGED kernel, \A fd \in Fds : Attended(fd) => Attended(fd)'
    PROVE  KernelTypeOK' /\ RegistrationInv' /\ NoLostWakeup'
PROOF
<1>1. KernelTypeOK'
  BY DEF WebInv, StateTypeOK, KernelTypeOK, kernel
<1>2. RegistrationInv'
  BY DEF WebInv, RegistrationInv, Connected, kernel
<1>3. \A fd \in Fds : peer'[fd] = peer[fd] /\ (Due(fd)' <=> Due(fd))
  BY DEF kernel, Due, Readable, Writable, Unread, Room
<1>4. QED
  BY <1>1, <1>2, <1>3, WakeupStep DEF WebInv

-----------------------------------------------------------------------------
(* The steps of main that change pc only.                                  *)

PcStep ==
    /\ UNCHANGED <<kernel, batch, cur, cnt, buffers>>
    /\ \/ pc \in {"start", "aio"} /\ pc' \in {"aio", "wait", "exit"}
       \/ pc = "wait" /\ pc' = "exit"
       \/ pc = "accept" /\ pc' = "recv"
       \/ pc = "recv" /\ pc' \in {"rearmOut", "close"}
       \/ pc = "parse" /\ pc' = "send"
       \/ pc = "send" /\ pc' \in {"rearmIn", "close"}

LEMMA PcStepInv ==
    ASSUME WebInv, PcStep
    PROVE  WebInv'
PROOF
<1>1. \A fd \in Fds : Attended(fd) => Attended(fd)'
  BY DEF PcStep, kernel, Attended, InBatch
<1>2. KernelTypeOK' /\ RegistrationInv' /\ NoLostWakeup'
  BY <1>1, KernelFrame DEF PcStep
<1>3. StateTypeOK'
  BY <1>2 DEF PcStep, WebInv, StateTypeOK, ProcessTypeOK, BuffTypeOK, buffers, WebLabels, Labels
<1>4. LoopInv'
  BY DEF PcStep, WebInv, LoopInv, HandlerLabels, kernel, InBatch
<1>5. QED
  BY <1>2, <1>3, <1>4 DEF WebInv

LEMMA PcSteps ==
    ASSUME \/ StartUp \/ Server5Start \/ AioSetUp \/ EpollWaitFails \/ RecvEnds \/ SendFails
           \/ ParseEnds \/ (AcceptStray /\ UNCHANGED kernel)
    PROVE  PcStep
BY DEF StartUp, Server5Start, AioSetUp, EpollWaitFails, RecvEnds, SendFails, ParseEnds,
       AcceptStray, PcStep

-----------------------------------------------------------------------------
(* The loop.                                                               *)

LEMMA EpollWaitInv ==
    ASSUME WebInv, EpollWait
    PROVE  WebInv'
PROOF
<1>1. PICK S \in Batches : /\ batch' = {[fd |-> fd, ev |-> Revents(fd)] : fd \in S}
                           /\ ready' = Reportable \ S
  BY DEF EpollWait
<1>2. /\ pc = "wait" /\ pc' = "dispatch" /\ cur = LISTEN /\ cnt = 0 /\ batch = {}
      /\ UNCHANGED <<sockets, interest, cur, cnt, buffers>>
  BY DEF WebInv, EpollWait, LoopInv, HandlerLabels
<1>3. S \subseteq Reportable /\ Reportable \subseteq ready /\ ready \subseteq Watched
  BY DEF Batches, Reportable, WebInv, StateTypeOK, KernelTypeOK
<1>4. \A fd \in Watched : Revents(fd) \subseteq Masks
  BY DEF Revents, Reports, Poll, PollConnection, Masks
<1>5. StateTypeOK'
  <2>1. batch' \in SUBSET Events
    BY <1>1, <1>3, <1>4 DEF Events
  <2>2. ready' \in SUBSET Watched
    BY <1>1, <1>3
  <2>3. QED
    BY <1>2, <2>1, <2>2
    DEF WebInv, StateTypeOK, KernelTypeOK, ProcessTypeOK, BuffTypeOK, sockets, buffers, WebLabels,
        Labels
<1>6. RegistrationInv'
  BY <1>2 DEF WebInv, RegistrationInv, Connected, sockets
<1>7. LoopInv'
  <2>1. ASSUME NEW e \in batch', e.fd # LISTEN
        PROVE  interest[e.fd] # {} /\ e.ev \cap {"IN", "OUT"} \subseteq interest[e.fd]
    <3>1. e.fd \in S /\ e.ev = Revents(e.fd)
      BY <1>1
    <3>2. e.fd \in Fds /\ Revents(e.fd) # {}
      BY <1>3, <2>1, <3>1 DEF Reportable, Watched
    <3>3. interest[e.fd] # {}
      BY <3>2 DEF Revents
    <3>4. Revents(e.fd) \subseteq interest[e.fd] \cup {"ERR"}
      BY DEF Revents, Reports
    <3>5. QED
      BY <3>1, <3>3, <3>4
  <2>2. \A e, f \in batch' : f.fd = e.fd => f = e
    BY <1>1
  <2>3. QED
    BY <1>2, <2>1, <2>2 DEF LoopInv, HandlerLabels
<1>8. NoLostWakeup'
  <2>1. ASSUME NEW fd \in Fds, peer'[fd] # NoClient, Due(fd)'
        PROVE  Attended(fd)'
    <3>1. peer[fd] # NoClient /\ Due(fd)
      BY <1>2, <2>1 DEF sockets, Due, Readable, Writable, Unread, Room
    <3>2. Revents(fd) # {}
      BY <3>1, ReventsDue DEF WebInv
    <3>3. fd \in ready
      BY <1>2, <3>1, <3>2, KernelAssumption DEF WebInv, NoLostWakeup, Attended, InBatch
    <3>4. fd \in Reportable
      BY <3>2, <3>3 DEF Reportable
    <3>5. CASE fd \in S
      <4>1. [fd |-> fd, ev |-> Revents(fd)] \in batch'
        BY <1>1, <3>5
      <4>2. QED
        BY <4>1 DEF Attended, InBatch
    <3>6. CASE fd \notin S
      BY <1>1, <3>4, <3>6 DEF Attended
    <3>7. QED
      BY <3>5, <3>6
  <2>2. QED
    BY <1>6, <2>1, WakeupStep DEF WebInv
<1>9. QED
  BY <1>5, <1>6, <1>7, <1>8 DEF WebInv

LEMMA HandleListenFailsInv ==
    ASSUME WebInv, NEW e \in batch, HandleListenFails(e)
    PROVE  WebInv'
PROOF
<1>1. /\ pc = "dispatch" /\ pc' = "exit" /\ e.fd = LISTEN /\ batch' = batch \ {e}
      /\ UNCHANGED <<kernel, cur, cnt, buffers>>
  BY DEF HandleListenFails, Take
<1>2. \A fd \in Fds : Attended(fd) => Attended(fd)'
  BY <1>1, KernelAssumption DEF Attended, InBatch, kernel
<1>3. KernelTypeOK' /\ RegistrationInv' /\ NoLostWakeup'
  BY <1>1, <1>2, KernelFrame
<1>4. StateTypeOK'
  BY <1>1, <1>3 DEF WebInv, StateTypeOK, ProcessTypeOK, BuffTypeOK, buffers, WebLabels, Labels
<1>5. LoopInv'
  BY <1>1 DEF WebInv, LoopInv, HandlerLabels, kernel
<1>6. QED
  BY <1>3, <1>4, <1>5 DEF WebInv

(* All ways into a handler.                                                *)
LEMMA EnterInv ==
    ASSUME WebInv, NEW e \in batch, NEW label \in {"accept", "recv", "parse", "send"},
           Enter(e, label), BuffTypeOK'
    PROVE  WebInv'
PROOF
<1>1. /\ pc = "dispatch" /\ pc' = label /\ cur = LISTEN /\ cnt = 0
      /\ e.fd # LISTEN /\ cur' = e.fd /\ batch' = batch \ {e}
      /\ UNCHANGED <<kernel, cnt>>
  BY DEF WebInv, LoopInv, HandlerLabels, Enter, Take
<1>2. e.fd \in Fds /\ peer[e.fd] # NoClient
  BY <1>1, BatchFacts
<1>3. \A fd \in Fds : Attended(fd) => Attended(fd)'
  BY <1>1, KernelAssumption DEF Attended, InBatch, kernel
<1>4. KernelTypeOK' /\ RegistrationInv' /\ NoLostWakeup'
  BY <1>1, <1>3, KernelFrame
<1>5. StateTypeOK'
  BY <1>1, <1>2, <1>4 DEF WebInv, StateTypeOK, ProcessTypeOK, WebLabels, Labels, Watched
<1>6. LoopInv'
  <2>1. ~InBatch(cur)'
    BY <1>1 DEF WebInv, LoopInv, InBatch
  <2>2. QED
    BY <1>1, <1>2, <2>1 DEF WebInv, LoopInv, HandlerLabels, kernel
<1>7. QED
  BY <1>4, <1>5, <1>6 DEF WebInv

(* accept, of a connection that is registered or of one that is not: a     *)
(* descriptor that was free refers to c.                                   *)
LEMMA AcceptInv ==
    ASSUME WebInv, NEW c \in backlog, NEW fd \in Fds, Accept(c, fd)
    PROVE  /\ c \in Clients /\ c # NoClient /\ Connected(c)
           /\ peer[fd] = NoClient /\ interest[fd] = {} /\ fd # LISTEN
           /\ \A g \in Fds : peer[g] # c
           /\ \A g \in Fds : IF g = fd THEN peer'[g] = c ELSE peer'[g] = peer[g]
           /\ peer' \in [Fds -> Clients \cup {NoClient}]
           /\ backlog' = backlog \ {c} /\ backlog' \in SUBSET Clients
PROOF
<1>1. peer[fd] = NoClient /\ backlog' = backlog \ {c} /\ peer' = [peer EXCEPT ![fd] = c]
  BY DEF Accept, IsLowestFree, IsFree
<1>2. c \in Clients /\ c # NoClient /\ Connected(c) /\ interest[fd] = {} /\ fd # LISTEN
  BY <1>1, KernelAssumption DEF WebInv, StateTypeOK, KernelTypeOK, RegistrationInv
<1>3. \A g \in Fds : peer[g] # c
  BY <1>2 DEF WebInv, RegistrationInv
<1>4. QED
  BY <1>1, <1>2, <1>3 DEF WebInv, StateTypeOK, KernelTypeOK

LEMMA HandleListenInv ==
    ASSUME WebInv, NEW e \in batch, HandleListen(e)
    PROVE  WebInv'
PROOF
<1>1. PICK c \in backlog, fd \in Fds : AcceptAndAdd(c, fd, {"IN"})
  BY DEF HandleListen
<1>2. /\ pc = "dispatch" /\ cur = LISTEN /\ cnt = 0
      /\ e.fd = LISTEN /\ batch' = batch \ {e}
      /\ pc' \in {"wait", "dispatch"} /\ (pc' = "wait" => batch' = {})
      /\ UNCHANGED <<phase, wrote, taken, echoed, drained, cur, cnt, buffers>>
  BY DEF WebInv, LoopInv, HandlerLabels, HandleListen, Take, LoopLabel
<1>3. /\ interest' = [interest EXCEPT ![fd] = {"IN"}]
      /\ ready' = IF PollConnection(c) \cap {"IN", "ERR"} # {} THEN ready \cup {fd} ELSE ready
  <2>1. {"IN"} \cup {"ERR"} = {"IN", "ERR"}
    OBVIOUS
  <2>2. QED
    BY <1>1, <2>1 DEF AcceptAndAdd
<1>4. /\ c \in Clients /\ c # NoClient /\ Connected(c)
      /\ peer[fd] = NoClient /\ interest[fd] = {} /\ fd # LISTEN
      /\ \A g \in Fds : peer[g] # c
      /\ \A g \in Fds : IF g = fd THEN peer'[g] = c ELSE peer'[g] = peer[g]
      /\ peer' \in [Fds -> Clients \cup {NoClient}]
      /\ backlog' = backlog \ {c} /\ backlog' \in SUBSET Clients
  BY <1>1, AcceptInv DEF AcceptAndAdd
<1>5. /\ \A g \in Fds : interest'[g] = IF g = fd THEN {"IN"} ELSE interest[g]
      /\ interest'[LISTEN] = {"IN"}
  BY <1>3, <1>4 DEF WebInv, StateTypeOK, KernelTypeOK, RegistrationInv, Watched
<1>6. StateTypeOK'
  BY <1>2, <1>3, <1>4
  DEF WebInv, StateTypeOK, KernelTypeOK, ProcessTypeOK, BuffTypeOK, buffers, WebLabels, Labels,
      Watched
<1>7. RegistrationInv'
  BY <1>2, <1>4, <1>5 DEF WebInv, RegistrationInv, Connected
<1>8. LoopInv'
  <2>1. \A f \in batch' : f.fd # LISTEN => f.fd # fd /\ f.fd \in Fds
    BY <1>2, <1>4, BatchFacts
  <2>2. QED
    BY <1>2, <1>5, <2>1 DEF WebInv, LoopInv, HandlerLabels
<1>9. NoLostWakeup'
  <2>1. ASSUME NEW g \in Fds, g # fd
        PROVE  (Due(g)' => Due(g)) /\ (Attended(g) => Attended(g)')
    <3>1. Attended(g) => Attended(g)'
      BY <1>2, <1>3, KernelAssumption DEF Attended, InBatch
    <3>2. Due(g)' => Due(g)
      BY <1>2, <1>4, <1>5, <2>1 DEF Due, Readable, Writable, Unread, Room
    <3>3. QED
      BY <3>1, <3>2
  <2>2. Due(fd)' => Attended(fd)'
    <3>1. SUFFICES ASSUME Due(fd)' PROVE fd \in ready'
      BY DEF Attended
    <3>2. Readable(c)
      BY <1>2, <1>4, <1>5, <3>1 DEF Due, Readable, Unread
    <3>3. "IN" \in PollConnection(c)
      BY <3>2 DEF PollConnection, Masks
    <3>4. QED
      BY <1>3, <3>3
  <2>3. QED
    BY <1>4, <1>7, <2>1, <2>2, WakeupStep DEF WebInv
<1>10. QED
  BY <1>6, <1>7, <1>8, <1>9 DEF WebInv

LEMMA AcceptStrayInv ==
    ASSUME WebInv, AcceptStray
    PROVE  WebInv'
PROOF
<1>1. SUFFICES ASSUME NEW c \in backlog, NEW fd \in Fds, Accept(c, fd),
                      UNCHANGED <<phase, wrote, taken, echoed, drained, epoll>>
               PROVE  WebInv'
  BY PcSteps, PcStepInv DEF AcceptStray
<1>2. /\ pc = "accept" /\ pc' = "recv" /\ pc \in HandlerLabels
      /\ UNCHANGED <<batch, cur, cnt, buffers, interest, ready>>
  BY <1>1 DEF AcceptStray, HandlerLabels, epoll
<1>3. /\ c \in Clients /\ c # NoClient /\ Connected(c)
      /\ peer[fd] = NoClient /\ interest[fd] = {} /\ fd # LISTEN
      /\ \A g \in Fds : peer[g] # c
      /\ \A g \in Fds : IF g = fd THEN peer'[g] = c ELSE peer'[g] = peer[g]
      /\ peer' \in [Fds -> Clients \cup {NoClient}]
      /\ backlog' = backlog \ {c} /\ backlog' \in SUBSET Clients
  BY <1>1, AcceptInv
<1>4. StateTypeOK'
  BY <1>1, <1>2, <1>3
  DEF WebInv, StateTypeOK, KernelTypeOK, ProcessTypeOK, BuffTypeOK, buffers, WebLabels, Labels
<1>5. RegistrationInv'
  BY <1>1, <1>2, <1>3 DEF WebInv, RegistrationInv, Connected
<1>6. LoopInv'
  <2>1. cur \in Fds /\ peer'[cur] # NoClient
    BY <1>2, <1>3, HandlerFacts
  <2>2. QED
    BY <1>2, <2>1 DEF WebInv, LoopInv, HandlerLabels, InBatch
<1>7. NoLostWakeup'
  <2>1. ASSUME NEW g \in Fds, Due(g)'
        PROVE  Due(g) /\ g # fd
    BY <1>1, <1>2, <1>3, <2>1 DEF Due, Readable, Writable, Unread, Room
  <2>2. \A g \in Fds : Attended(g)' = Attended(g)
    BY <1>2 DEF Attended, InBatch
  <2>3. QED
    BY <1>3, <1>5, <2>1, <2>2, WakeupStep DEF WebInv
<1>8. QED
  BY <1>4, <1>5, <1>6, <1>7 DEF WebInv

-----------------------------------------------------------------------------
(* The handlers.                                                           *)

(* The smaller of two numbers is one of them and no larger than either.    *)
LEMMA Min2Is ==
    ASSUME NEW a \in Int, NEW b \in Int
    PROVE  /\ Min2(a, b) \in Int
           /\ Min2(a, b) <= a
           /\ Min2(a, b) <= b
           /\ Min2(a, b) = a \/ Min2(a, b) = b
BY DEF Min2

LEMMA RecvCount ==
    ASSUME WebInv, RecvSome
    PROVE  Min2(Unread(peer[cur]), BUFFLEN) \in Nat \ {0}
PROOF
<1> DEFINE c == peer[cur]
<1>1. c \in Clients
  BY HandlerFacts DEF RecvSome, HandlerLabels
<1>2. Unread(c) \in Int /\ BUFFLEN \in Int
  BY <1>1, SharedBuffAssumption DEF Unread, WebInv, StateTypeOK, KernelTypeOK
<1>3. Min2(Unread(c), BUFFLEN) \in Int
  BY <1>2, Min2Is
<1>4. Min2(Unread(c), BUFFLEN) > 0
  BY DEF RecvSome
<1>5. QED
  BY <1>3, <1>4

(* What a step of recv is, in terms of the n bytes it returns.             *)
LEMMA RecvIs ==
    ASSUME WebInv, RecvSome
    PROVE  \E n \in Nat \ {0} :
            /\ pc = "recv" /\ pc \in HandlerLabels
            /\ buff' = [k \in Cells |-> IF cnt < k /\ k <= cnt + n
                                        THEN Byte(peer[cur], taken[peer[cur]] + (k - cnt))
                                        ELSE buff[k]]
            /\ taken' = [taken EXCEPT ![peer[cur]] = @ + n]
            /\ \/ pc' = "rearmOut" /\ cnt' = cnt
               \/ pc' = "recv" /\ cnt' = cnt + BUFFLEN
            /\ UNCHANGED <<phase, wrote, echoed, drained, backlog, peer, interest, ready, batch, cur,
                           data_len>>
PROOF
<1> DEFINE n == Min2(Unread(peer[cur]), BUFFLEN)
<1>1. n \in Nat \ {0}
  BY RecvCount
<1>2. /\ pc = "recv" /\ pc \in HandlerLabels
      /\ buff' = [k \in Cells |-> IF cnt < k /\ k <= cnt + n
                                  THEN Byte(peer[cur], taken[peer[cur]] + (k - cnt))
                                  ELSE buff[k]]
      /\ taken' = [taken EXCEPT ![peer[cur]] = @ + n]
      /\ \/ pc' = "rearmOut" /\ cnt' = cnt
         \/ pc' = "recv" /\ cnt' = cnt + BUFFLEN
      /\ UNCHANGED <<phase, wrote, echoed, drained, backlog, peer, interest, ready, batch, cur, data_len>>
  BY DEF RecvSome, HandlerLabels, epoll
<1> HIDE DEF n
<1>3. QED
  BY <1>1, <1>2

LEMMA RecvSomeInv ==
    ASSUME WebInv, RecvSome
    PROVE  WebInv'
PROOF
<1> DEFINE c == peer[cur]
<1>1. PICK n \in Nat \ {0} :
            /\ pc = "recv" /\ pc \in HandlerLabels
            /\ buff' = [k \in Cells |-> IF cnt < k /\ k <= cnt + n
                                        THEN Byte(c, taken[c] + (k - cnt)) ELSE buff[k]]
            /\ taken' = [taken EXCEPT ![c] = @ + n]
            /\ \/ pc' = "rearmOut" /\ cnt' = cnt
               \/ pc' = "recv" /\ cnt' = cnt + BUFFLEN
            /\ UNCHANGED <<phase, wrote, echoed, drained, backlog, peer, interest, ready, batch, cur,
                           data_len>>
  BY RecvIs
<1>2. /\ cur \in Fds /\ cur # LISTEN /\ c \in Clients
      /\ \A fd \in Fds : fd # cur /\ peer[fd] # NoClient => peer[fd] # c
  BY <1>1, HandlerFacts
<1>3. taken[c] \in Nat /\ cnt \in Nat /\ BUFFLEN \in Nat
  BY <1>2, SharedBuffAssumption DEF WebInv, StateTypeOK, KernelTypeOK, ProcessTypeOK
<1>4. StateTypeOK'
  <2>1. taken' \in [Clients -> Nat]
    <3>1. taken[c] + n \in Nat
      BY <1>3
    <3>2. QED
      BY <1>1, <3>1 DEF WebInv, StateTypeOK, KernelTypeOK
  <2>2. buff' \in [Cells -> Bytes]
    <3>1. ASSUME NEW k \in Cells, cnt < k
          PROVE  Byte(c, taken[c] + (k - cnt)) \in Bytes
      <4>1. taken[c] + (k - cnt) \in Nat
        BY <1>3, <3>1 DEF Cells
      <4>2. QED
        BY <1>2, <4>1 DEF Byte, Bytes
    <3>2. QED
      BY <1>1, <3>1 DEF WebInv, StateTypeOK, BuffTypeOK
  <2>3. cnt' \in Nat
    BY <1>1, <1>3
  <2>4. QED
    BY <1>1, <2>1, <2>2, <2>3
    DEF WebInv, StateTypeOK, KernelTypeOK, ProcessTypeOK, BuffTypeOK, WebLabels, Labels
<1>5. RegistrationInv'
  BY <1>1 DEF WebInv, RegistrationInv, Connected
<1>6. LoopInv'
  BY <1>1 DEF WebInv, LoopInv, HandlerLabels, InBatch
<1>7. NoLostWakeup'
  <2>1. \A d \in Clients \ {c} : taken'[d] = taken[d]
    BY <1>1, <1>2 DEF WebInv, StateTypeOK, KernelTypeOK
  <2>2. ASSUME NEW fd \in Fds, fd # cur, peer[fd] # NoClient, Due(fd)'
        PROVE  Due(fd)
    <3>1. peer[fd] \in Clients \ {c}
      BY <1>2, <2>2 DEF WebInv, StateTypeOK, KernelTypeOK
    <3>2. QED
      BY <1>1, <2>1, <2>2, <3>1 DEF Due, Readable, Writable, Unread, Room
  <2>3. \A fd \in Fds : Attended(fd)' = Attended(fd) /\ Attended(cur)
    BY <1>1 DEF Attended, InBatch
  <2>4. QED
    BY <1>1, <1>5, <2>2, <2>3, WakeupStep DEF WebInv
<1>8. QED
  BY <1>4, <1>5, <1>6, <1>7 DEF WebInv

LEMMA RearmInv ==
    ASSUME WebInv, RearmOut \/ RearmIn
    PROVE  WebInv'
PROOF
<1>1. PICK mask \in {{"IN"}, {"OUT"}} : EpollMod(cur, mask)
  BY DEF RearmOut, RearmIn
<1>2. /\ interest' = [interest EXCEPT ![cur] = mask]
      /\ ready' = IF Reports(cur, mask) # {} THEN ready \cup {cur} ELSE ready
      /\ pc \in HandlerLabels /\ cur' = LISTEN /\ cnt' = 0 /\ batch' = batch
      /\ pc' \in {"wait", "dispatch"} /\ (pc' = "wait" => batch' = {})
      /\ data_len' = 0
      /\ UNCHANGED <<phase, wrote, taken, echoed, drained, backlog, peer, buff>>
  BY <1>1 DEF RearmOut, RearmIn, EpollMod, Leave, LoopLabel, sockets, HandlerLabels
<1>3. cur \in Fds /\ cur # LISTEN /\ peer[cur] # NoClient /\ ~InBatch(cur)
  BY <1>2, HandlerFacts
<1>4. \A fd \in Fds : interest'[fd] = IF fd = cur THEN mask ELSE interest[fd]
  BY <1>2, <1>3 DEF WebInv, StateTypeOK, KernelTypeOK, Watched
<1>5. StateTypeOK'
  BY <1>2, <1>3
  DEF WebInv, StateTypeOK, KernelTypeOK, ProcessTypeOK, BuffTypeOK, Watched, WebLabels, Labels
<1>6. RegistrationInv'
  <2>1. interest'[LISTEN] = {"IN"}
    BY <1>2, <1>3 DEF WebInv, RegistrationInv, StateTypeOK, KernelTypeOK
  <2>2. mask # {}
    OBVIOUS
  <2>3. QED
    BY <1>2, <1>3, <1>4, <2>1, <2>2 DEF WebInv, RegistrationInv, Connected
<1>7. LoopInv'
  <2>1. \A e \in batch : e.fd # LISTEN => e.fd \in Fds /\ e.fd # cur
    BY <1>3, BatchFacts DEF InBatch
  <2>2. QED
    BY <1>2, <1>4, <2>1 DEF WebInv, LoopInv, HandlerLabels
<1>8. NoLostWakeup'
  <2>1. ASSUME NEW fd \in Fds, fd # cur
        PROVE  (Attended(fd) => Attended(fd)') /\ (Due(fd)' => Due(fd))
    <3>1. Attended(fd) => Attended(fd)'
      BY <1>2, <2>1 DEF Attended, InBatch
    <3>2. Due(fd)' => Due(fd)
      BY <1>2, <1>4, <2>1 DEF Due, Readable, Writable, Unread, Room
    <3>3. QED
      BY <3>1, <3>2
  <2>2. ASSUME NEW fd \in Fds, fd = cur, Due(fd)'
        PROVE  fd \in ready'
    <3>1. \/ mask = {"IN"} /\ Readable(peer[fd])
          \/ mask = {"OUT"} /\ Writable(peer[fd])
      BY <1>2, <1>4, <2>2 DEF Due, Readable, Unread, Writable, Room
    <3>2. Reports(fd, mask) # {}
      BY <1>3, <2>2, <3>1, ReportsDue
    <3>3. QED
      BY <1>2, <2>2, <3>2
  <2>3. \A fd \in Fds : peer'[fd] # NoClient /\ Due(fd)' =>
            \/ Attended(fd)'
            \/ peer[fd] # NoClient /\ Due(fd) /\ (Attended(fd) => Attended(fd)')
    BY <1>2, <2>1, <2>2 DEF Attended
  <2>4. QED
    BY <1>6, <2>3, WakeupStep DEF WebInv
<1>9. QED
  BY <1>5, <1>6, <1>7, <1>8 DEF WebInv

LEMMA SendCount ==
    ASSUME WebInv, SendSome
    PROVE  Min2(Room(peer[cur]), Min2(data_len, BUFFLEN)) \in Nat
PROOF
<1> DEFINE c == peer[cur]
<1>1. c \in Clients
  BY HandlerFacts DEF SendSome, HandlerLabels
<1>2. Len(echoed[c]) \in Nat /\ drained[c] \in Nat /\ SndBuf \in Nat
  BY <1>1, KernelAssumption DEF WebInv, StateTypeOK, KernelTypeOK
<1>3. Room(c) \in Int /\ Room(c) > 0
  BY <1>2 DEF Room, SendSome
<1>4. data_len \in Nat /\ BUFFLEN \in Nat
  BY SharedBuffAssumption DEF WebInv, StateTypeOK, BuffTypeOK
<1>5. Min2(data_len, BUFFLEN) \in Nat
  BY <1>4 DEF Min2
<1>6. QED
  BY <1>3, <1>5 DEF Min2

LEMMA DataAtType ==
    ASSUME BuffTypeOK, NEW k
    PROVE  DataAt(k) \in Bytes
PROOF
<1>1. CASE k \in Cells
  BY <1>1 DEF BuffTypeOK, DataAt
<1>2. CASE k \notin Cells /\ k \in 1..Extent
  <2>1. k - BUFFLEN \in Cells
    BY <1>2, SharedBuffAssumption DEF Cells, Extent
  <2>2. QED
    BY <1>2, <2>1 DEF BuffTypeOK, DataAt
<1>3. CASE k \notin Cells /\ k \notin 1..Extent
  BY <1>3 DEF DataAt, Foreign, Byte, Bytes
<1>4. QED
  BY <1>1, <1>2, <1>3

(* What a step of send is, in terms of the n bytes it takes.               *)
LEMMA SendIs ==
    ASSUME WebInv, SendSome
    PROVE  \E n \in Nat :
            /\ pc = "send" /\ pc \in HandlerLabels
            /\ Sent(peer[cur], n)
            /\ \/ pc' = "send" /\ cnt' = cnt + n
               \/ pc' \in {"rearmIn", "close"} /\ cnt' = cnt
            /\ UNCHANGED <<phase, wrote, taken, drained, backlog, peer, interest, ready, batch, cur,
                           buff, data_len>>
PROOF
<1> DEFINE n == Min2(Room(peer[cur]), Min2(data_len, BUFFLEN))
<1>1. n \in Nat
  BY SendCount
<1>2. /\ pc = "send" /\ pc \in HandlerLabels
      /\ Sent(peer[cur], n)
      /\ \/ pc' = "send" /\ cnt' = cnt + n
         \/ pc' \in {"rearmIn", "close"} /\ cnt' = cnt
      /\ UNCHANGED <<phase, wrote, taken, drained, backlog, peer, interest, ready, batch, cur,
                     buff, data_len>>
  BY DEF SendSome, HandlerLabels, epoll, buffers
<1> HIDE DEF n
<1>3. QED
  BY <1>1, <1>2

LEMMA SendSomeInv ==
    ASSUME WebInv, SendSome
    PROVE  WebInv'
PROOF
<1> DEFINE c == peer[cur]
<1>1. PICK n \in Nat :
            /\ pc = "send" /\ pc \in HandlerLabels
            /\ Sent(c, n)
            /\ \/ pc' = "send" /\ cnt' = cnt + n
               \/ pc' \in {"rearmIn", "close"} /\ cnt' = cnt
            /\ UNCHANGED <<phase, wrote, taken, drained, backlog, peer, interest, ready, batch, cur,
                           buff, data_len>>
  BY SendIs
<1>2. /\ cur \in Fds /\ c \in Clients
      /\ \A fd \in Fds : fd # cur /\ peer[fd] # NoClient => peer[fd] # c
  BY <1>1, HandlerFacts
<1>3. StateTypeOK'
  <2>1. cnt \in Nat
    BY DEF WebInv, StateTypeOK, ProcessTypeOK
  <2>2. cnt' \in Nat
    BY <1>1, <2>1
  <2>3. [k \in 1..n |-> DataAt(cnt + k)] \in Seq(Bytes)
    <3>1. \A k \in 1..n : DataAt(cnt + k) \in Bytes
      BY DataAtType DEF WebInv, StateTypeOK
    <3>2. QED
      BY <1>1, <3>1
  <2>4. echoed' \in [Clients -> Seq(Bytes)]
    <3>1. echoed[c] \o [k \in 1..n |-> DataAt(cnt + k)] \in Seq(Bytes)
      BY <1>2, <2>3 DEF WebInv, StateTypeOK, KernelTypeOK
    <3>2. QED
      BY <1>1, <3>1 DEF Sent, WebInv, StateTypeOK, KernelTypeOK
  <2>5. QED
    BY <1>1, <2>2, <2>4
    DEF WebInv, StateTypeOK, KernelTypeOK, ProcessTypeOK, BuffTypeOK, WebLabels, Labels
<1>4. RegistrationInv'
  BY <1>1 DEF WebInv, RegistrationInv, Connected
<1>5. LoopInv'
  BY <1>1 DEF WebInv, LoopInv, HandlerLabels, InBatch
<1>6. NoLostWakeup'
  <2>1. \A d \in Clients \ {c} : echoed'[d] = echoed[d]
    BY <1>1, <1>2 DEF Sent, WebInv, StateTypeOK, KernelTypeOK
  <2>2. ASSUME NEW fd \in Fds, fd # cur, peer[fd] # NoClient, Due(fd)'
        PROVE  Due(fd)
    <3>1. peer[fd] \in Clients \ {c}
      BY <1>2, <2>2 DEF WebInv, StateTypeOK, KernelTypeOK
    <3>2. QED
      BY <1>1, <2>1, <2>2, <3>1 DEF Due, Readable, Writable, Unread, Room
  <2>3. \A fd \in Fds : Attended(fd)' = Attended(fd) /\ Attended(cur)
    BY <1>1 DEF Attended, InBatch
  <2>4. QED
    BY <1>1, <1>4, <2>2, <2>3, WakeupStep DEF WebInv
<1>7. QED
  BY <1>3, <1>4, <1>5, <1>6 DEF WebInv

LEMMA CloseClientInv ==
    ASSUME WebInv, CloseClient
    PROVE  WebInv'
PROOF
<1> DEFINE c == peer[cur]
<1>1. /\ pc = "close" /\ pc \in HandlerLabels
      /\ phase' = [phase EXCEPT ![c] = "closed"]
      /\ peer' = [peer EXCEPT ![cur] = NoClient]
      /\ interest' = [interest EXCEPT ![cur] = {}]
      /\ ready' = ready \ {cur}
      /\ cur' = LISTEN /\ cnt' = 0 /\ batch' = batch
      /\ pc' \in {"wait", "dispatch"} /\ (pc' = "wait" => batch' = {})
      /\ data_len' = 0
      /\ UNCHANGED <<wrote, taken, echoed, drained, backlog, buff>>
  BY DEF CloseClient, Close, Leave, LoopLabel, HandlerLabels
<1>2. /\ cur \in Fds /\ cur # LISTEN /\ c \in Clients /\ ~InBatch(cur) /\ c # NoClient
      /\ \A fd \in Fds : fd # cur /\ peer[fd] # NoClient => peer[fd] # c
  BY <1>1, HandlerFacts
<1>3. /\ \A fd \in Fds : fd # cur => peer'[fd] = peer[fd] /\ interest'[fd] = interest[fd]
      /\ peer'[cur] = NoClient /\ interest'[cur] = {}
      /\ \A d \in Clients : d # c => phase'[d] = phase[d]
  BY <1>1, <1>2 DEF WebInv, StateTypeOK, KernelTypeOK, Watched
<1>4. StateTypeOK'
  BY <1>1, <1>2
  DEF WebInv, StateTypeOK, KernelTypeOK, ProcessTypeOK, BuffTypeOK, Watched, Phases, WebLabels, Labels
<1>5. RegistrationInv'
  <2>1. interest'[LISTEN] = {"IN"}
    BY <1>1, <1>2 DEF WebInv, RegistrationInv, StateTypeOK, KernelTypeOK
  <2>2. \A d \in backlog : d \in Clients /\ d # c
    BY <1>2 DEF WebInv, RegistrationInv, StateTypeOK, KernelTypeOK
  <2>3. \A fd \in Fds : peer[fd] # NoClient => peer[fd] \in Clients
    BY DEF WebInv, StateTypeOK, KernelTypeOK
  <2>4. QED
    BY <1>1, <1>2, <1>3, <2>1, <2>2, <2>3 DEF WebInv, RegistrationInv, Connected
<1>6. LoopInv'
  <2>1. \A e \in batch : e.fd # LISTEN => e.fd \in Fds /\ e.fd # cur
    BY <1>2, BatchFacts DEF InBatch
  <2>2. QED
    BY <1>1, <1>3, <2>1 DEF WebInv, LoopInv, HandlerLabels
<1>7. NoLostWakeup'
  <2>1. ASSUME NEW fd \in Fds, fd # cur, peer[fd] # NoClient, Due(fd)'
        PROVE  Due(fd)
    <3>1. peer[fd] \in Clients /\ peer[fd] # c
      BY <1>2, <2>1 DEF WebInv, StateTypeOK, KernelTypeOK
    <3>2. QED
      BY <1>1, <1>3, <2>1, <3>1 DEF Due, Readable, Writable, Unread, Room
  <2>2. \A fd \in Fds : fd # cur => (Attended(fd) => Attended(fd)')
    BY <1>1 DEF Attended, InBatch
  <2>3. QED
    BY <1>3, <1>5, <2>1, <2>2, WakeupStep DEF WebInv
<1>8. QED
  BY <1>4, <1>5, <1>6, <1>7 DEF WebInv

-----------------------------------------------------------------------------
(* The clients.                                                            *)

(* A client never becomes idle again, keeps what it wrote and what was     *)
(* taken from it, and changes nothing of the server's.                     *)
LEMMA ClientFrame ==
    ASSUME WebInv, NEW c \in Clients, ClientStep(c), UNCHANGED <<process, buffers>>
    PROVE  /\ UNCHANGED <<taken, echoed, peer, interest, pc, batch, cur, cnt, buff, data_len>>
           /\ \A d \in Clients : Connected(d) => Connected(d)'
           /\ \A d \in Clients : phase'[d] = "idle" => phase[d] = "idle"
           /\ KernelTypeOK'
           /\ backlog' = backlog
              \/ (backlog' = backlog \cup {c} /\ Connected(c)' /\ ~Connected(c))
           /\ ready \subseteq ready'
PROOF
<1>1. UNCHANGED <<taken, echoed, peer, interest, pc, batch, cur, cnt, buff, data_len>>
  BY DEF ClientStep, Connect, ClientWrite, ClientRead, ClientShutdown, ClientReset, process, buffers
<1>2. CASE Connect(c)
  <2>1. KernelTypeOK'
    BY <1>2 DEF Connect, WebInv, StateTypeOK, KernelTypeOK, Phases, Watched
  <2>2. QED
    BY <1>1, <1>2, <2>1 DEF Connect, Connected, WebInv, StateTypeOK, KernelTypeOK
<1>3. CASE ClientWrite(c) \/ ClientRead(c)
  <2>1. KernelTypeOK'
    BY SMTT(30), <1>3 DEF ClientWrite, ClientRead, Wake, WebInv, StateTypeOK, KernelTypeOK, Phases, Watched
  <2>2. QED
    BY <1>1, <1>3, <2>1 DEF ClientWrite, ClientRead, Wake, Connected
<1>4. CASE ClientShutdown(c) \/ ClientReset(c)
  <2>1. KernelTypeOK'
    BY <1>4 DEF ClientShutdown, ClientReset, Wake, WebInv, StateTypeOK, KernelTypeOK, Phases, Watched
  <2>2. QED
    BY <1>1, <1>4, <2>1
    DEF ClientShutdown, ClientReset, Wake, Connected, WebInv, StateTypeOK, KernelTypeOK
<1>5. QED
  BY <1>2, <1>3, <1>4 DEF ClientStep

(* What becomes due by a step of a client is put on the ready list.        *)
LEMMA ClientWakes ==
    ASSUME WebInv, NEW c \in Clients, ClientStep(c),
           NEW fd \in Fds, peer'[fd] # NoClient, Due(fd)'
    PROVE  fd \in ready' \/ Due(fd)
PROOF
<1>1. UNCHANGED <<peer, interest, taken, echoed>>
  BY DEF ClientStep, Connect, ClientWrite, ClientRead, ClientShutdown, ClientReset
<1>2. peer[fd] \in Clients
  BY <1>1 DEF WebInv, StateTypeOK, KernelTypeOK
<1>3. CASE peer[fd] # c
  <2>1. \A d \in Clients \ {c} : /\ phase'[d] = phase[d] /\ wrote'[d] = wrote[d]
                                 /\ drained'[d] = drained[d]
    BY DEF ClientStep, Connect, ClientWrite, ClientRead, ClientShutdown, ClientReset, WebInv,
           StateTypeOK, KernelTypeOK
  <2>2. QED
    BY <1>1, <1>2, <1>3, <2>1 DEF Due, Readable, Writable, Unread, Room
<1>4. CASE peer[fd] = c /\ interest[fd] = {"IN"}
  <2>1. CASE Connect(c)
    BY <1>4, <2>1 DEF Connect, WebInv, RegistrationInv, Connected
  <2>2. CASE ClientWrite(c) \/ ClientShutdown(c) \/ ClientReset(c)
    BY <1>4, <2>2 DEF ClientWrite, ClientShutdown, ClientReset, Wake
  <2>3. CASE ClientRead(c)
    BY <1>1, <1>4, <2>3 DEF ClientRead, Due, Readable, Unread
  <2>4. QED
    BY <2>1, <2>2, <2>3 DEF ClientStep
<1>5. CASE peer[fd] = c /\ interest[fd] = {"OUT"}
  <2>1. CASE Connect(c)
    BY <1>5, <2>1 DEF Connect, WebInv, RegistrationInv, Connected
  <2>2. CASE ClientReset(c)
    BY <1>5, <2>2 DEF ClientReset, Wake
  <2>3. CASE ClientWrite(c) \/ ClientShutdown(c)
    <3>1. UNCHANGED drained /\ (phase'[c] = "reset" => phase[c] = "reset")
      BY <2>3 DEF ClientWrite, ClientShutdown, WebInv, StateTypeOK, KernelTypeOK
    <3>2. QED
      BY <1>1, <1>5, <3>1 DEF Due, Writable, Room
  <2>4. CASE ClientRead(c)
    <3>1. drained[c] \in Nat /\ Len(echoed[c]) \in Nat /\ SndBuf \in Nat
      BY KernelAssumption DEF WebInv, StateTypeOK, KernelTypeOK
    <3>2. drained'[c] = drained[c] + 1 /\ phase' = phase
      BY <2>4 DEF ClientRead, WebInv, StateTypeOK, KernelTypeOK
    <3>3. Room(c) = SndBuf - (Len(echoed[c]) - drained[c])
      BY DEF Room
    <3>4. Room(c)' = SndBuf - (Len(echoed[c]) - (drained[c] + 1))
      BY <1>1, <3>2 DEF Room
    <3>5. Room(c)' > 0 => Room(c) = 0 \/ Room(c) > 0
      BY <3>1, <3>3, <3>4
    <3>6. CASE Room(c) = 0
      BY <1>5, <2>4, <3>6 DEF ClientRead, Wake
    <3>7. CASE Room(c) > 0 \/ phase[c] = "reset"
      BY <1>5, <3>7 DEF Due, Writable
    <3>8. Room(c)' > 0 \/ phase'[c] = "reset"
      BY <1>1, <1>5 DEF Due, Writable
    <3>9. QED
      BY <3>2, <3>5, <3>6, <3>7, <3>8
  <2>5. QED
    BY <2>1, <2>2, <2>3, <2>4 DEF ClientStep
<1>6. QED
  BY <1>1, <1>3, <1>4, <1>5 DEF Due

LEMMA EnvironmentInv ==
    ASSUME WebInv, Environment
    PROVE  WebInv'
PROOF
<1>1. PICK c \in Clients : ClientStep(c) /\ UNCHANGED <<process, buffers>>
  BY DEF Environment
<1>2. /\ UNCHANGED <<taken, echoed, peer, interest, pc, batch, cur, cnt, buff, data_len>>
      /\ \A d \in Clients : Connected(d) => Connected(d)'
      /\ KernelTypeOK'
      /\ backlog' = backlog
         \/ (backlog' = backlog \cup {c} /\ Connected(c)' /\ ~Connected(c))
      /\ ready \subseteq ready'
  BY <1>1, ClientFrame
<1>3. StateTypeOK'
  BY <1>2 DEF WebInv, StateTypeOK, ProcessTypeOK, BuffTypeOK
<1>4. RegistrationInv'
  <2>1. \A fd \in Fds : peer[fd] # NoClient => peer[fd] \in Clients
    BY DEF WebInv, StateTypeOK, KernelTypeOK
  <2>2. backlog \subseteq Clients
    BY DEF WebInv, StateTypeOK, KernelTypeOK
  <2>3. QED
    BY <1>2, <2>1, <2>2 DEF WebInv, RegistrationInv
<1>5. LoopInv'
  BY <1>2 DEF WebInv, LoopInv, InBatch
<1>6. NoLostWakeup'
  <2>1. \A fd \in Fds : Attended(fd) => Attended(fd)'
    BY <1>2 DEF Attended, InBatch
  <2>2. \A fd \in Fds : peer'[fd] # NoClient /\ Due(fd)' => Attended(fd)' \/ Due(fd)
    BY <1>1, ClientWakes DEF Attended
  <2>3. QED
    BY <1>2, <1>4, <2>1, <2>2, WakeupStep DEF WebInv
<1>7. QED
  BY <1>3, <1>4, <1>5, <1>6 DEF WebInv

-----------------------------------------------------------------------------
(* Every step of the three servers is one of these.                        *)

ReadStep ==
    \E e \in batch : \E label \in {"accept", "recv"} : EnterRead(e, label)

WriteStep ==
    \E e \in batch : \E label \in {"parse", "send"} : "OUT" \in e.ev /\ EnterWrite(e, label)

ListenStep == \E e \in batch : Listen(e)

LEMMA WebSteps ==
    ASSUME WebNext
    PROVE  \/ PcStep \/ EpollWait \/ ListenStep \/ ReadStep \/ WriteStep
           \/ AcceptStray \/ RecvSome \/ RearmOut \/ ParseData
           \/ SendSome \/ RearmIn \/ CloseClient \/ Environment
PROOF
<1>1. CASE Server
  BY <1>1, PcSteps
  DEF Server, Loop, Reading, Writing, ListenStep, ReadStep, WriteStep, HandleIn, HandleOut
<1>2. CASE Server4
  BY <1>2, PcSteps
  DEF Server4, Server4Loop, Server4Read, Parsing, Loop, Reading, Writing, ListenStep, ReadStep,
      WriteStep, HandleIn, ParseThenSend
<1>3. CASE Server5
  BY <1>3, PcSteps
  DEF Server5, Server5Loop, Server5Read, Parsing, Loop, Reading, Writing, ListenStep, ReadStep,
      WriteStep, AcceptThenRead, ParseThenSend
<1>4. QED
  BY <1>1, <1>2, <1>3 DEF WebNext, WebServer, WebEnvironment

LEMMA ReadStepInv ==
    ASSUME WebInv, ReadStep
    PROVE  WebInv'
PROOF
<1>1. PICK e \in batch, label \in {"accept", "recv"} : EnterRead(e, label)
  BY DEF ReadStep
<1>2. BuffTypeOK'
  BY <1>1 DEF EnterRead, EmptyBuff, NoByte, Byte, Bytes, WebInv, StateTypeOK, BuffTypeOK
<1>3. QED
  BY <1>1, <1>2, EnterInv DEF EnterRead

LEMMA WriteStepInv ==
    ASSUME WebInv, WriteStep
    PROVE  WebInv'
PROOF
<1>1. PICK e \in batch, label \in {"parse", "send"} : EnterWrite(e, label)
  BY DEF WriteStep
<1>2. Strlens \subseteq Nat
  BY DEF Strlens
<1>3. BuffTypeOK'
  BY <1>1, <1>2 DEF EnterWrite, WebInv, StateTypeOK, BuffTypeOK
<1>4. QED
  BY <1>1, <1>3, EnterInv DEF EnterWrite

LEMMA SameInv ==
    ASSUME WebInv, UNCHANGED vars
    PROVE  WebInv'
PROOF
<1>1. UNCHANGED <<kernel, pc, batch, cur, cnt, buff, data_len>>
  BY DEF vars, process, buffers
<1>2. KernelTypeOK' /\ RegistrationInv' /\ NoLostWakeup'
  BY <1>1, KernelFrame DEF Attended, InBatch, kernel
<1>3. StateTypeOK'
  BY <1>1, <1>2 DEF WebInv, StateTypeOK, ProcessTypeOK, BuffTypeOK
<1>4. LoopInv'
  BY <1>1 DEF WebInv, LoopInv, InBatch, kernel
<1>5. QED
  BY <1>2, <1>3, <1>4 DEF WebInv

LEMMA NextInv ==
    ASSUME WebInv, [WebNext]_webVars
    PROVE  WebInv'
PROOF
<1>1. CASE PcStep \/ EpollWait \/ AcceptStray
  BY <1>1, PcStepInv, EpollWaitInv, AcceptStrayInv
<1>2. CASE ListenStep
  BY <1>2, HandleListenInv, HandleListenFailsInv DEF ListenStep, Listen
<1>3. CASE ReadStep \/ WriteStep
  BY <1>3, ReadStepInv, WriteStepInv
<1>4. CASE RecvSome \/ RearmOut \/ SendSome \/ RearmIn \/ CloseClient
  BY <1>4, RecvSomeInv, RearmInv, SendSomeInv, CloseClientInv
<1>5. CASE Environment
  BY <1>5, EnvironmentInv
<1>6. CASE ParseData \/ UNCHANGED webVars
  BY <1>6, SameInv DEF ParseData, webVars
<1>7. QED
  BY <1>1, <1>2, <1>3, <1>4, <1>5, <1>6, WebSteps

LEMMA InitWeb == WebInit => WebInv
PROOF
<1>1. SUFFICES ASSUME Init PROVE WebInv
  BY DEF WebInit
<1>2. StateTypeOK
  BY <1>1, KernelAssumption, SharedBuffAssumption
  DEF Init, KernelInit, StateTypeOK, KernelTypeOK, ProcessTypeOK, BuffTypeOK, EmptyBuff, Phases,
      Bytes, NoByte, Byte, Watched, WebLabels, Labels
<1>3. RegistrationInv
  BY <1>1, KernelAssumption DEF Init, KernelInit, RegistrationInv, Watched
<1>4. LoopInv
  BY <1>1 DEF Init, LoopInv, HandlerLabels, InBatch
<1>5. NoLostWakeup
  BY <1>1 DEF Init, KernelInit, NoLostWakeup
<1>6. QED
  BY <1>2, <1>3, <1>4, <1>5 DEF WebInv

THEOREM WebInvariance == WebSpec => []WebInv
BY InitWeb, NextInv, PTL DEF WebSpec

(* No path through a handler of the three servers leaves a descriptor      *)
(* behind that is due and that nothing will call attention to.             *)
THEOREM WebWakeupsAreKept == WebSpec => []NoLostWakeup
PROOF
<1>1. WebInv => NoLostWakeup
  BY DEF WebInv
<1>2. QED
  BY <1>1, WebInvariance, PTL

-----------------------------------------------------------------------------
(* The buffer holds one request.                                           *)

(* It is cleared before it is read into, and a second recv, behind a full  *)
(* read, finds no cell left.                                               *)
OneRequest ==
    /\ BuffIsOneRequest
    /\ pc = "accept" => buff = EmptyBuff
    /\ pc = "recv" => (cnt = 0 /\ buff = EmptyBuff) \/ cnt >= BUFFLEN

LEMMA EmptyIsOneRequest ==
    ASSUME buff' = EmptyBuff
    PROVE  BuffIsOneRequest'
BY DEF EmptyBuff, BuffIsOneRequest, Filled

LEMMA RecvSomeOne ==
    ASSUME WebInv, OneRequest, RecvSome
    PROVE  OneRequest'
PROOF
<1> DEFINE c == peer[cur]
<1>1. PICK n \in Nat \ {0} :
            /\ pc = "recv" /\ pc \in HandlerLabels
            /\ buff' = [k \in Cells |-> IF cnt < k /\ k <= cnt + n
                                        THEN Byte(c, taken[c] + (k - cnt)) ELSE buff[k]]
            /\ taken' = [taken EXCEPT ![c] = @ + n]
            /\ \/ pc' = "rearmOut" /\ cnt' = cnt
               \/ pc' = "recv" /\ cnt' = cnt + BUFFLEN
            /\ UNCHANGED <<phase, wrote, echoed, drained, backlog, peer, interest, ready, batch, cur,
                           data_len>>
  BY RecvIs
<1>2. /\ c \in Clients /\ taken[c] \in Nat /\ cnt \in Nat /\ BUFFLEN \in Nat
      /\ Cells \subseteq Nat \ {0} /\ buff \in [Cells -> Bytes]
  BY <1>1, HandlerFacts, SharedBuffAssumption
  DEF WebInv, StateTypeOK, KernelTypeOK, ProcessTypeOK, BuffTypeOK, Cells
<1>3. BuffIsOneRequest'
  <2>1. CASE cnt = 0 /\ buff = EmptyBuff
    <3>1. \A k \in Cells : buff'[k] = IF k <= n THEN Byte(c, taken[c] + k) ELSE NoByte
      BY <1>1, <1>2, <2>1 DEF EmptyBuff
    <3>2. \A k \in Filled' : k \in Cells /\ k <= n
      BY <3>1 DEF Filled
    <3>3. ASSUME NEW k \in Filled', NEW j \in 1..(k - 1)
          PROVE  buff'[j].from = buff'[k].from /\ buff'[j].pos + (k - j) = buff'[k].pos
      <4>1. k \in Cells /\ j \in Cells /\ k \in Nat /\ j \in Nat /\ j <= n /\ k <= n
        BY <1>2, <3>2, <3>3 DEF Cells
      <4>2. buff'[j] = Byte(c, taken[c] + j) /\ buff'[k] = Byte(c, taken[c] + k)
        BY <3>1, <4>1
      <4>3. taken[c] + j + (k - j) = taken[c] + k
        BY <1>2, <4>1
      <4>4. QED
        BY <4>2, <4>3 DEF Byte
    <3>4. QED
      BY <3>3 DEF BuffIsOneRequest
  <2>2. CASE cnt >= BUFFLEN
    <3>1. \A k \in Cells : ~(cnt < k)
      BY <1>2, <2>2 DEF Cells
    <3>2. buff' = buff
      BY <1>1, <1>2, <3>1
    <3>3. QED
      BY <3>2 DEF OneRequest, BuffIsOneRequest, Filled
  <2>3. QED
    BY <1>1, <2>1, <2>2 DEF OneRequest
<1>4. pc' = "recv" => cnt' >= BUFFLEN
  BY <1>1, <1>2
<1>5. QED
  BY <1>1, <1>3, <1>4 DEF OneRequest

LEMMA NextOne ==
    ASSUME WebInv, OneRequest, [WebNext]_webVars
    PROVE  OneRequest'
PROOF
<1>1. CASE RecvSome
  BY <1>1, RecvSomeOne
<1>2. CASE ReadStep
  <2>1. buff' = EmptyBuff /\ cnt' = cnt /\ cnt = 0 /\ pc = "dispatch"
    BY <1>2 DEF ReadStep, EnterRead, Enter, Take, WebInv, LoopInv, HandlerLabels
  <2>2. QED
    BY <2>1, EmptyIsOneRequest DEF OneRequest
<1>3. CASE UNCHANGED buff /\ (pc' \in {"accept", "recv"} => pc' = pc /\ cnt' = cnt)
  BY <1>3 DEF OneRequest, BuffIsOneRequest, Filled
<1>4. CASE PcStep \/ AcceptStray
  <2>1. UNCHANGED <<buff, cnt>> /\ (pc' = "accept" => pc = "accept")
        /\ (pc' = "recv" => pc = "accept")
    BY <1>4 DEF PcStep, AcceptStray, buffers
  <2>2. pc = "accept" => cnt = 0
    BY DEF WebInv, LoopInv
  <2>3. QED
    BY <2>1, <2>2 DEF OneRequest, BuffIsOneRequest, Filled
<1>5. CASE \/ EpollWait \/ ListenStep \/ WriteStep \/ RearmOut \/ ParseData \/ SendSome
           \/ RearmIn \/ CloseClient \/ Environment \/ UNCHANGED webVars
  BY <1>3, <1>5
  DEF EpollWait, ListenStep, Listen, HandleListen, HandleListenFails, LoopLabel, WriteStep,
      EnterWrite, Enter, RearmOut, RearmIn, CloseClient, Leave, ParseData, SendSome, Environment,
      webVars, vars, process, buffers
<1>6. QED
  BY <1>1, <1>2, <1>4, <1>5, WebSteps

THEOREM OneRequestInvariance == WebSpec => [](WebInv /\ OneRequest)
PROOF
<1>1. WebInit => OneRequest
  BY DEF WebInit, Init, OneRequest, EmptyBuff, BuffIsOneRequest, Filled
<1>2. WebInv /\ OneRequest /\ [WebNext]_webVars => OneRequest'
  BY NextOne
<1>3. QED
  BY <1>1, <1>2, WebInvariance, PTL DEF WebSpec

(* An answer may be somebody else's, it is never a mixture of two.         *)
THEOREM BuffIsNeverMixed == WebSpec => []BuffIsOneRequest
PROOF
<1>1. OneRequest => BuffIsOneRequest
  BY DEF OneRequest
<1>2. QED
  BY <1>1, OneRequestInvariance, PTL

-----------------------------------------------------------------------------
(* What the parser collects.                                               *)

LastHeader(m) == m.headers[Len(m.headers)]
LastName(m)   == LastHeader(m).name[Len(LastHeader(m).name)]

(* The name of a header that is still without a value is made of names     *)
(* that were cut.                                                          *)
CutHead(piece) == InName(piece) /\ Part(piece) = "head"

HeadersOK(m) ==
    /\ \A i \in DOMAIN m.headers : m.headers[i].name # << >>
    /\ m.last = "FIELD" =>
        /\ m.headers # << >>
        /\ LastHeader(m).value = << >>
        /\ \A i \in DOMAIN LastHeader(m).name : CutHead(LastHeader(m).name[i])

(* What the parser stored last is head: in a name, or in a value, too.     *)
AfterHead(m, head) ==
    /\ m.headers # << >>
    /\ InName(head) => m.last = "FIELD" /\ LastName(m) = head
    /\ ~InName(head) => LastHeader(m).value = <<head>>

Paired(m) ==
    \A i \in DOMAIN m.headers :
        LET name  == m.headers[i].name
            value == m.headers[i].value
        IN  value # << >> => ValueOK(value) /\ NameOK(name, value[1])

MessageInv ==
    /\ version \in Versions
    /\ MessageTypeOK(message, Bytes)
    /\ HeadersOK(message)
    /\ Paired(message)
    /\ parsed \in Nat
    /\ pc # "parse" => parsed = 0
    /\ parsed % 2 = 1 =>
        /\ Part(DataAt(parsed)) = "head"
        /\ AfterHead(message, DataAt(parsed))

(* The last element of a sequence is put in place of another one.          *)
LEMMA LastReplaced ==
    ASSUME NEW T, NEW s \in Seq(T), s # << >>, NEW x \in T
    PROVE  /\ [s EXCEPT ![Len(s)] = x] \in Seq(T)
           /\ Len([s EXCEPT ![Len(s)] = x]) = Len(s)
           /\ Len(s) \in Nat \ {0} /\ DOMAIN s = 1..Len(s)
           /\ \A i \in 1..Len(s) : [s EXCEPT ![Len(s)] = x][i] = IF i = Len(s) THEN x ELSE s[i]
PROOF
<1>1. Len(s) \in Nat \ {0} /\ DOMAIN s = 1..Len(s)
  BY EmptySeq, LenProperties
<1>2. [s EXCEPT ![Len(s)] = x] \in Seq(T) /\ Len([s EXCEPT ![Len(s)] = x]) = Len(s)
  BY <1>1, ExceptSeq
<1>3. QED
  BY <1>1, <1>2

Header(T) == [name : Seq(T), value : Seq(T)]

(* The callbacks, as far as the headers go.                                *)
LEMMA OtherCallbacks ==
    ASSUME NEW T, NEW m, NEW p \in T, MessageTypeOK(m, T),
           NEW q \in {my_message_begin(m), my_url(m, p), my_body(m, p), my_message_complete(m)}
    PROVE  MessageTypeOK(q, T) /\ q.headers = m.headers /\ q.last = m.last
PROOF
<1>1. Append(m.url, p) \in Seq(T) /\ Append(m.body, p) \in Seq(T)
  BY DEF MessageTypeOK
<1>2. CASE q = my_message_begin(m) \/ q = my_message_complete(m)
  BY <1>2 DEF MessageTypeOK, my_message_begin, my_message_complete
<1>3. CASE q = my_url(m, p) \/ q = my_body(m, p)
  BY <1>1, <1>3 DEF MessageTypeOK, my_url, my_body
<1>4. QED
  BY <1>2, <1>3

(* What the two callbacks make of the last header; the ones before it stay *)
(* as they are.                                                            *)
OthersKept(m, q) ==
    /\ q.headers # << >> /\ Len(q.headers) \in Nat \ {0} /\ DOMAIN q.headers = 1..Len(q.headers)
    /\ \A i \in 1..Len(q.headers) :
            i # Len(q.headers) => i \in DOMAIN m.headers /\ q.headers[i] = m.headers[i]

Named(m, q, p) ==
    LET h == LastHeader(q)
    IN  /\ h.value = << >>
        /\ Len(h.name) \in Nat \ {0} /\ DOMAIN h.name = 1..Len(h.name)
        /\ h.name[Len(h.name)] = p
        /\ \A i \in 1..(Len(h.name) - 1) : CutHead(h.name[i])
        /\ m.last = "FIELD" => Len(h.name) > 1 /\ h.name[Len(h.name) - 1] = LastName(m)

LEMMA FieldIs ==
    ASSUME NEW T, NEW m, NEW p \in T, MessageTypeOK(m, T), HeadersOK(m)
    PROVE  /\ MessageTypeOK(my_header_field(m, p), T)
           /\ my_header_field(m, p).last = "FIELD"
           /\ OthersKept(m, my_header_field(m, p))
           /\ Named(m, my_header_field(m, p), p)
PROOF
<1> DEFINE H == m.headers
           h == IF m.last = "FIELD" THEN [H[Len(H)] EXCEPT !.name = Append(@, p)]
                ELSE [name |-> <<p>>, value |-> << >>]
           G == IF m.last = "FIELD" THEN LongerName(H, p) ELSE Append(H, h)
           q == my_header_field(m, p)
<1>1. H \in Seq(Header(T))
  BY DEF MessageTypeOK, Header
<1>2. /\ h \in Header(T) /\ h.value = << >>
      /\ Len(h.name) \in Nat \ {0} /\ DOMAIN h.name = 1..Len(h.name)
      /\ h.name[Len(h.name)] = p
      /\ \A i \in 1..(Len(h.name) - 1) : CutHead(h.name[i])
      /\ m.last = "FIELD" =>
            H # << >> /\ Len(h.name) > 1 /\ h.name[Len(h.name) - 1] = LastName(m)
  <2>1. CASE m.last = "FIELD"
    <3> DEFINE s == H[Len(H)].name
    <3>1. H # << >> /\ H[Len(H)].value = << >> /\ \A i \in DOMAIN s : CutHead(s[i])
      BY <2>1 DEF HeadersOK, LastHeader
    <3>2. Len(H) \in DOMAIN H
      BY <1>1, <3>1, EmptySeq, LenProperties
    <3>3. H[Len(H)] \in Header(T) /\ s # << >>
      BY <1>1, <3>2, ElementOfSeq DEF HeadersOK
    <3>4. s \in Seq(T)
      BY <3>3 DEF Header
    <3>5. /\ h = [H[Len(H)] EXCEPT !.name = Append(s, p)]
          /\ h.name = Append(s, p) /\ h.value = << >> /\ h \in Header(T)
      BY <2>1, <3>1, <3>3, <3>4, AppendProperties DEF Header
    <3>6. Len(s) \in Nat \ {0} /\ DOMAIN s = 1..Len(s)
      BY <3>3, <3>4, EmptySeq, LenProperties
    <3>7. LastName(m) = s[Len(s)]
      BY DEF LastName, LastHeader
    <3> HIDE DEF s, h
    <3>8. /\ Len(h.name) = Len(s) + 1 /\ DOMAIN h.name = 1..(Len(s) + 1)
          /\ h.name[Len(s) + 1] = p
          /\ \A i \in 1..Len(s) : h.name[i] = s[i]
      BY <3>4, <3>5, <3>6, AppendProperties, LenProperties
    <3>9. /\ Len(h.name) \in Nat \ {0} /\ DOMAIN h.name = 1..Len(h.name)
          /\ h.name[Len(h.name)] = p /\ Len(h.name) > 1
          /\ Len(h.name) - 1 = Len(s)
      BY <3>6, <3>8
    <3>10. \A i \in 1..(Len(h.name) - 1) : CutHead(h.name[i])
      BY <3>1, <3>6, <3>8, <3>9
    <3>11. h.name[Len(h.name) - 1] = LastName(m)
      BY <3>6, <3>7, <3>8, <3>9
    <3>12. QED
      BY <3>1, <3>5, <3>9, <3>10, <3>11
  <2>2. CASE m.last # "FIELD"
    BY <2>2 DEF Header
  <2>3. QED
    BY <2>1, <2>2
<1>3. q.headers = G /\ q.last = "FIELD" /\ (G \in Seq(Header(T)) => MessageTypeOK(q, T))
  BY DEF MessageTypeOK, my_header_field, Header, HeaderElements
<1> HIDE DEF h, q
<1>4. /\ G \in Seq(Header(T)) /\ Len(G) \in Nat \ {0} /\ DOMAIN G = 1..Len(G) /\ G[Len(G)] = h
      /\ \A i \in 1..Len(G) : i # Len(G) => i \in DOMAIN H /\ G[i] = H[i]
  <2>1. CASE m.last = "FIELD"
    <3>1. G = [H EXCEPT ![Len(H)] = h]
      BY <2>1 DEF LongerName, h
    <3>2. QED
      BY <1>1, <1>2, <2>1, <3>1, LastReplaced
  <2>2. CASE m.last # "FIELD"
    <3>1. G = Append(H, h) /\ Len(H) \in Nat /\ DOMAIN H = 1..Len(H)
      BY <1>1, <2>2, LenProperties
    <3>2. G \in Seq(Header(T)) /\ Len(G) = Len(H) + 1
      <4>1. h \in Header(T)
        BY <1>2
      <4>2. Append(H, h) \in Seq(Header(T)) /\ Len(Append(H, h)) = Len(H) + 1
        BY <1>1, <4>1, AppendProperties
      <4>3. QED
        BY <3>1, <4>2
    <3>3. DOMAIN G = 1..(Len(H) + 1)
      BY <3>2, LenProperties
    <3>4. Append(H, h)[Len(H) + 1] = h /\ \A i \in 1..Len(H) : Append(H, h)[i] = H[i]
      BY <1>1, <1>2, AppendProperties
    <3>5. \A i \in 1..(Len(H) + 1) : i # Len(H) + 1 => i \in 1..Len(H)
      BY <3>1
    <3> HIDE DEF G
    <3>6. G[Len(H) + 1] = h /\ \A i \in 1..Len(H) : G[i] = H[i]
      BY <3>1, <3>4
    <3>7. Len(H) + 1 \in Nat \ {0}
      BY <3>1
    <3>8. QED
      BY <3>1, <3>2, <3>3, <3>5, <3>6, <3>7
  <2>3. QED
    BY <2>1, <2>2
<1> HIDE DEF G
<1>5. OthersKept(m, q) /\ LastHeader(q) = h
  BY <1>3, <1>4, EmptySeq DEF OthersKept, LastHeader
<1>6. QED
  BY <1>2, <1>3, <1>4, <1>5 DEF q, Named

LEMMA ValueIs ==
    ASSUME NEW T, NEW m, NEW p \in T, MessageTypeOK(m, T), m.headers # << >>
    PROVE  LET q == my_header_value(m, p)
           IN  /\ MessageTypeOK(q, T) /\ q.last = "VALUE"
               /\ OthersKept(m, q)
               /\ LastHeader(m) \in Header(T)
               /\ LastHeader(q).name = LastHeader(m).name
               /\ LastHeader(q).value = Append(LastHeader(m).value, p)
PROOF
<1> DEFINE H == m.headers
           h == [H[Len(H)] EXCEPT !.value = Append(@, p)]
           G == LongerValue(H, p)
           q == my_header_value(m, p)
<1>1. H \in Seq(Header(T)) /\ H # << >>
  BY DEF MessageTypeOK, Header
<1>2. H[Len(H)] \in Header(T)
  BY <1>1, EmptySeq, LenProperties, ElementOfSeq
<1>3. /\ h \in Header(T) /\ h.name = H[Len(H)].name
      /\ h.value = Append(H[Len(H)].value, p)
  BY <1>2, AppendProperties DEF Header
<1>4. q.headers = G /\ q.last = "VALUE" /\ (G \in Seq(Header(T)) => MessageTypeOK(q, T))
  BY DEF MessageTypeOK, my_header_value, Header, HeaderElements
<1> HIDE DEF h, q
<1>5. /\ G \in Seq(Header(T)) /\ Len(G) = Len(H) /\ Len(H) \in Nat \ {0}
      /\ DOMAIN H = 1..Len(H) /\ DOMAIN G = 1..Len(G)
      /\ \A i \in 1..Len(H) : G[i] = IF i = Len(H) THEN h ELSE H[i]
  <2>1. G = [H EXCEPT ![Len(H)] = h]
    BY DEF LongerValue, h
  <2>2. QED
    BY <1>1, <1>3, <2>1, LastReplaced, LenProperties
<1> HIDE DEF G
<1>6. OthersKept(m, q) /\ LastHeader(q) = h
  BY <1>4, <1>5, EmptySeq DEF OthersKept, LastHeader
<1>7. QED
  BY <1>2, <1>3, <1>4, <1>5, <1>6 DEF q, LastHeader

(* A message whose other headers were in order is in order with its last.  *)
LEMMA LastPaired ==
    ASSUME NEW m, NEW q, Paired(m), OthersKept(m, q),
           LET h == LastHeader(q) IN h.value # << >> => ValueOK(h.value) /\ NameOK(h.name, h.value[1])
    PROVE  Paired(q)
PROOF
<1>1. SUFFICES ASSUME NEW i \in DOMAIN q.headers, q.headers[i].value # << >>
               PROVE  /\ ValueOK(q.headers[i].value)
                      /\ NameOK(q.headers[i].name, q.headers[i].value[1])
  BY DEF Paired
<1>2. CASE i = Len(q.headers)
  BY <1>1, <1>2 DEF LastHeader
<1>3. CASE i # Len(q.headers)
  BY <1>1, <1>3 DEF OthersKept, Paired
<1>4. QED
  BY <1>2, <1>3

LEMMA NamesKept ==
    ASSUME NEW m, NEW q, HeadersOK(m), OthersKept(m, q), LastHeader(q).name # << >>
    PROVE  \A i \in DOMAIN q.headers : q.headers[i].name # << >>
BY DEF HeadersOK, OthersKept, LastHeader

(* The first part of a request: its name, or its name and a value.         *)
LEMMA ParseHeadIs ==
    ASSUME NEW T, NEW m, NEW p \in T, MessageTypeOK(m, T), HeadersOK(m), Paired(m),
           Part(p) = "head"
    PROVE  LET r == ParseHead(m, p, InName(p))
           IN  MessageTypeOK(r, T) /\ HeadersOK(r) /\ Paired(r) /\ AfterHead(r, p)
PROOF
<1> DEFINE n == my_url(my_message_begin(m), p)
           f == my_header_field(n, p)
           h == LastHeader(f)
           v == my_header_value(f, p)
<1>1. MessageTypeOK(n, T) /\ n.headers = m.headers /\ n.last = m.last
  <2>1. /\ MessageTypeOK(my_message_begin(m), T)
        /\ my_message_begin(m).headers = m.headers /\ my_message_begin(m).last = m.last
    BY OtherCallbacks
  <2>2. QED
    BY <2>1, OtherCallbacks
<1>2. HeadersOK(n) /\ Paired(n)
  BY <1>1 DEF HeadersOK, Paired, LastHeader
<1> HIDE DEF n
<1>3. /\ MessageTypeOK(f, T) /\ f.last = "FIELD" /\ OthersKept(n, f)
      /\ h.value = << >> /\ Len(h.name) \in Nat \ {0} /\ DOMAIN h.name = 1..Len(h.name)
      /\ h.name[Len(h.name)] = p
      /\ \A i \in 1..(Len(h.name) - 1) : CutHead(h.name[i])
  <2>1. MessageTypeOK(f, T) /\ f.last = "FIELD" /\ OthersKept(n, f) /\ Named(n, f, p)
    BY <1>1, <1>2, FieldIs
  <2>2. QED
    BY <2>1 DEF Named
<1>4. h.name # << >> /\ f.headers # << >>
  <2>1. Len(<< >>) = 0
    OBVIOUS
  <2>2. QED
    BY <1>3, <2>1 DEF OthersKept
<1>5. Paired(f) /\ \A i \in DOMAIN f.headers : f.headers[i].name # << >>
  BY <1>2, <1>3, <1>4, LastPaired, NamesKept
<1>6. CASE InName(p)
  <2>1. ParseHead(m, p, InName(p)) = f
    BY <1>6 DEF ParseHead, n
  <2>2. \A i \in DOMAIN h.name : CutHead(h.name[i])
    BY <1>3, <1>6 DEF CutHead
  <2>3. HeadersOK(f) /\ AfterHead(f, p)
    BY <1>3, <1>4, <1>5, <1>6, <2>2 DEF HeadersOK, AfterHead, LastName
  <2>4. QED
    BY <1>3, <1>5, <2>1, <2>3
<1>7. CASE ~InName(p)
  <2>1. ParseHead(m, p, InName(p)) = v
    BY <1>7 DEF ParseHead, n
  <2>2. /\ MessageTypeOK(v, T) /\ v.last = "VALUE" /\ OthersKept(f, v)
        /\ LastHeader(v).name = h.name /\ LastHeader(v).value = Append(h.value, p)
    BY ZenonT(60), <1>3, <1>4, ValueIs
  <2>3. LastHeader(v).value = <<p>> /\ Len(<<p>>) = 1 /\ <<p>>[1] = p
    BY <1>3, <2>2
  <2> HIDE DEF v, f, h
  <2>4. ValueOK(<<p>>) /\ NameOK(h.name, p)
    BY <1>3, <2>3 DEF ValueOK, NameOK, OwnPieces, CutHead
  <2>5. Paired(v)
    BY <1>5, <2>2, <2>3, <2>4, LastPaired
  <2>6. \A i \in DOMAIN v.headers : v.headers[i].name # << >>
    BY <1>4, <1>5, <2>2 DEF OthersKept, LastHeader
  <2>7. HeadersOK(v)
    BY <2>2, <2>6 DEF HeadersOK
  <2>8. AfterHead(v, p)
    BY <1>7, <2>2, <2>3 DEF AfterHead, OthersKept
  <2>9. QED
    BY <2>1, <2>2, <2>5, <2>7, <2>8
<1>8. QED
  BY <1>6, <1>7

(* The second part: the rest of the name and the value, or of the value,   *)
(* of the header its first part is in.                                     *)
LEMMA ParseTailIs ==
    ASSUME NEW T, NEW m, NEW p \in T, MessageTypeOK(m, T), HeadersOK(m), Paired(m),
           NEW head, Part(head) = "head", AfterHead(m, head),
           Part(p) = "tail", Continues(head, p), InName(p) = InName(head)
    PROVE  LET r == ParseTail(m, p, InName(p))
           IN  MessageTypeOK(r, T) /\ HeadersOK(r) /\ Paired(r)
PROOF
<1> DEFINE n == IF InName(p) THEN my_header_field(m, p) ELSE m
           v == my_header_value(n, p)
           w == LastHeader(v)
           r == ParseTail(m, p, InName(p))
<1>1. /\ MessageTypeOK(n, T) /\ n.headers # << >> /\ Paired(n)
      /\ \A i \in DOMAIN n.headers : n.headers[i].name # << >>
      /\ LET name  == LastHeader(n).name
             value == Append(LastHeader(n).value, p)
         IN  /\ name # << >> /\ value # << >>
             /\ ValueOK(value) /\ NameOK(name, value[1])
  <2>1. CASE InName(p)
    <3> DEFINE h == LastHeader(n)
    <3>1. n = my_header_field(m, p)
      BY <2>1
    <3>2. /\ MessageTypeOK(n, T) /\ OthersKept(m, n)
          /\ h.value = << >> /\ Len(h.name) \in Nat \ {0} /\ DOMAIN h.name = 1..Len(h.name)
          /\ h.name[Len(h.name)] = p
          /\ \A i \in 1..(Len(h.name) - 1) : CutHead(h.name[i])
          /\ m.last = "FIELD" => Len(h.name) > 1 /\ h.name[Len(h.name) - 1] = LastName(m)
      <4>1. MessageTypeOK(n, T) /\ OthersKept(m, n) /\ Named(m, n, p)
        BY <3>1, FieldIs
      <4>2. QED
        BY <4>1 DEF Named
    <3>3. m.last = "FIELD" /\ LastName(m) = head
      BY <2>1 DEF AfterHead
    <3>4. h.name # << >> /\ n.headers # << >>
      <4>1. Len(<< >>) = 0
        OBVIOUS
      <4>2. QED
        BY <3>2, <4>1 DEF OthersKept
    <3>5. Paired(n) /\ \A i \in DOMAIN n.headers : n.headers[i].name # << >>
      BY <3>2, <3>4, LastPaired, NamesKept
    <3>6. Append(h.value, p) = <<p>> /\ Len(<<p>>) = 1 /\ <<p>>[1] = p /\ <<p>> # << >>
      <4>1. Append(<< >>, p) = <<p>> /\ Len(<<p>>) = 1 /\ <<p>>[1] = p /\ <<p>> # << >>
        OBVIOUS
      <4>2. QED
        BY <3>2, <4>1
    <3> HIDE DEF n, h
    <3>7. ValueOK(<<p>>) /\ NameOK(h.name, p)
      BY <3>2, <3>3, <3>6 DEF ValueOK, NameOK, OwnPieces, CutHead
    <3>8. QED
      BY <3>2, <3>4, <3>5, <3>6, <3>7 DEF h
  <2>2. CASE ~InName(p)
    <3>1. n = m /\ m.headers # << >> /\ LastHeader(m).value = <<head>>
      BY <2>2 DEF AfterHead
    <3>2. Len(m.headers) \in DOMAIN m.headers
      BY <3>1, EmptySeq, LenProperties DEF MessageTypeOK
    <3>3. LastHeader(m).name # << >> /\ <<head>> # << >> /\ <<head>>[1] = head
      BY <3>2 DEF HeadersOK, LastHeader
    <3>4. NameOK(LastHeader(m).name, head)
      BY <3>1, <3>2, <3>3 DEF Paired, LastHeader
    <3>5. Append(<<head>>, p) = <<head, p>> /\ Len(<<head, p>>) = 2 /\ <<head, p>> # << >>
      <4>1. <<head>> \in Seq({head, p}) /\ <<head, p>> \in Seq({head, p})
        OBVIOUS
      <4>2. /\ Len(<<head>>) = 1 /\ Len(<<head, p>>) = 2
            /\ <<head, p>>[1] = head /\ <<head, p>>[2] = p /\ <<head>>[1] = head
        OBVIOUS
      <4>3. /\ Append(<<head>>, p) \in Seq({head, p})
            /\ Len(Append(<<head>>, p)) = 2
            /\ Append(<<head>>, p)[1] = head /\ Append(<<head>>, p)[2] = p
        BY <4>1, <4>2, AppendProperties
      <4>4. Append(<<head>>, p) = <<head, p>>
        <5>1. \A i \in 1..2 : Append(<<head>>, p)[i] = <<head, p>>[i]
          BY <4>2, <4>3
        <5>2. QED
          BY ZenonT(60), <4>1, <4>2, <4>3, <5>1, SeqEqual
      <4>5. QED
        BY <4>2, <4>4
    <3>6. /\ ValueOK(<<head, p>>) /\ <<head, p>>[1] = head
      BY <3>5 DEF ValueOK
    <3>7. Append(LastHeader(n).value, p) = <<head, p>> /\ LastHeader(n).name = LastHeader(m).name
      BY <3>1, <3>5
    <3> HIDE DEF n
    <3>8. QED
      BY <3>1, <3>3, <3>4, <3>5, <3>6, <3>7 DEF HeadersOK
  <2>3. QED
    BY <2>1, <2>2
<1> HIDE DEF n
<1>2. /\ MessageTypeOK(v, T) /\ v.last = "VALUE" /\ OthersKept(n, v)
      /\ w.name = LastHeader(n).name /\ w.value = Append(LastHeader(n).value, p)
  BY <1>1, ValueIs
<1>3. Paired(v) /\ \A i \in DOMAIN v.headers : v.headers[i].name # << >>
  <2>1. Paired(v)
    BY <1>1, <1>2, LastPaired
  <2>2. QED
    BY <1>1, <1>2, <2>1 DEF OthersKept, LastHeader
<1> HIDE DEF v
<1>4. MessageTypeOK(r, T) /\ r.headers = v.headers /\ r.last = "VALUE"
  <2>1. /\ MessageTypeOK(my_body(v, p), T)
        /\ my_body(v, p).headers = v.headers /\ my_body(v, p).last = "VALUE"
    <3>1. Append(v.body, p) \in Seq(T)
      BY <1>2 DEF MessageTypeOK
    <3>2. QED
      BY <1>2, <3>1 DEF MessageTypeOK, my_body
  <2>2. r = my_message_complete(my_body(v, p))
    BY DEF ParseTail, v, n
  <2>3. QED
    BY <2>1, <2>2 DEF MessageTypeOK, my_message_complete
<1>5. HeadersOK(r) /\ Paired(r)
  BY <1>3, <1>4 DEF HeadersOK, Paired
<1>6. QED
  BY <1>4, <1>5

(* A tail in data, behind a head, is the rest of that request: data, and   *)
(* buff behind it, hold consecutive bytes from an odd place on.            *)
LEMMA TailContinues ==
    ASSUME OneRequest, NEW k \in Nat \ {0}, k % 2 = 1,
           Part(DataAt(k)) = "head", Part(DataAt(k + 1)) = "tail"
    PROVE  Continues(DataAt(k), DataAt(k + 1))
PROOF
<1>1. BUFFLEN \in Nat \ {0} /\ BUFFLEN % 2 = 0
  BY SharedBuffAssumption, WebAssumption
<1>2. DataAt(k) # Foreign /\ DataAt(k + 1) # Foreign
  BY KernelAssumption DEF Part, Foreign, Byte
<1>3. PICK j \in Cells : j + 1 \in Cells /\ DataAt(k) = buff[j] /\ DataAt(k + 1) = buff[j + 1]
  <2>1. CASE k + 1 \in Cells
    BY <1>1, <2>1 DEF DataAt, Cells
  <2>2. CASE k + 1 \notin Cells
    <3>1. k + 1 \in 1..Extent
      BY <1>2, <2>2 DEF DataAt
    <3>2. k >= BUFFLEN /\ k # BUFFLEN
      BY <1>1, <2>2 DEF Cells
    <3>3. k \notin Cells /\ k \in 1..Extent
      BY <1>1, <3>1, <3>2 DEF Cells, Extent
    <3>4. Extent <= 2 * BUFFLEN
      BY <1>1 DEF Extent
    <3>5. k - BUFFLEN \in Cells /\ (k - BUFFLEN) + 1 \in Cells /\ (k + 1) - BUFFLEN = (k - BUFFLEN) + 1
      BY <1>1, <3>1, <3>2, <3>4 DEF Cells, Extent
    <3>6. QED
      BY <2>2, <3>1, <3>3, <3>5 DEF DataAt
  <2>3. QED
    BY <2>1, <2>2
<1>4. buff[j + 1] # NoByte
  BY <1>3, KernelAssumption DEF Part, NoByte, Byte
<1>5. j \in 1..((j + 1) - 1) /\ (j + 1) - j = 1
  BY <1>1 DEF Cells
<1>6. buff[j].from = buff[j + 1].from /\ buff[j].pos + 1 = buff[j + 1].pos
  BY <1>3, <1>4, <1>5 DEF OneRequest, BuffIsOneRequest, Filled
<1>7. QED
  BY <1>3, <1>6 DEF Continues

(* The version does not change, and so the meaning of the pieces does not. *)
LEMMA SameMeaning ==
    ASSUME version' = version
    PROVE  /\ HeadersOK(message') => HeadersOK(message)'
           /\ Paired(message') => Paired(message)'
PROOF
<1>1. HeadersOK(message') => HeadersOK(message)'
  BY DEF HeadersOK, LastHeader, CutHead, InName, Part
<1>2. Paired(message') => Paired(message)'
  BY DEF Paired, ValueOK, NameOK, OwnPieces, Continues, InName, Part
<1>3. QED
  BY <1>1, <1>2

LEMMA ParseDataMessage ==
    ASSUME OneRequest, BuffTypeOK, MessageInv, ParseData, UNCHANGED version
    PROVE  MessageInv'
PROOF
<1> DEFINE k == parsed + 1
           p == DataAt(parsed + 1)
<1>1. /\ pc = "parse" /\ Follows(k, Part(p))
      /\ message' = Execute(message, k, p, InName(p)) /\ parsed' = k
      /\ UNCHANGED <<pc, buff, version>>
  BY DEF ParseData, MoreToParse, vars, process, buffers
<1>2. p \in Bytes /\ parsed \in Nat /\ k \in Nat
  BY DataAtType DEF MessageInv
<1>3. DataAt(parsed)' = p
  BY <1>1 DEF DataAt
<1>4. CASE parsed % 2 = 0
  <2>1. k % 2 = 1 /\ Part(p) = "head"
    BY <1>1, <1>2, <1>4 DEF Follows
  <2>2. message' = ParseHead(message, p, InName(p))
    BY <1>1, <2>1 DEF Execute
  <2>3. /\ MessageTypeOK(message', Bytes) /\ HeadersOK(message')
        /\ Paired(message') /\ AfterHead(message', p)
    BY <1>2, <2>1, <2>2, ParseHeadIs DEF MessageInv
  <2>4. HeadersOK(message)' /\ Paired(message)' /\ MessageTypeOK(message, Bytes)'
    BY <1>1, <2>3, SameMeaning DEF Bytes, MessageTypeOK
  <2>5. (Part(DataAt(parsed)) = "head")' /\ AfterHead(message, DataAt(parsed))'
    BY <1>1, <1>3, <2>1, <2>3 DEF Part, AfterHead, LastName, LastHeader, InName
  <2>6. QED
    BY <1>1, <1>2, <2>4, <2>5 DEF MessageInv
<1>5. CASE parsed % 2 = 1
  <2>1. k % 2 = 0 /\ parsed \in Nat \ {0}
    BY <1>2, <1>5
  <2>2. Part(p) = "tail"
    BY <1>1, <2>1 DEF Follows
  <2>3. Part(DataAt(parsed)) = "head" /\ AfterHead(message, DataAt(parsed))
    BY <1>5 DEF MessageInv
  <2>4. Continues(DataAt(parsed), p)
    BY <1>5, <2>1, <2>2, <2>3, TailContinues
  <2>5. InName(p) = InName(DataAt(parsed))
    BY <2>4 DEF Continues, InName
  <2>6. message' = ParseTail(message, p, InName(p))
    BY <1>1, <2>1 DEF Execute
  <2>7. MessageTypeOK(message', Bytes) /\ HeadersOK(message') /\ Paired(message')
    BY <1>2, <2>2, <2>3, <2>4, <2>5, <2>6, ParseTailIs DEF MessageInv
  <2>8. HeadersOK(message)' /\ Paired(message)' /\ MessageTypeOK(message, Bytes)'
    BY <1>1, <2>7, SameMeaning DEF Bytes, MessageTypeOK
  <2>9. parsed' % 2 # 1
    BY <1>1, <2>1
  <2>10. QED
    BY <1>1, <1>2, <2>8, <2>9 DEF MessageInv
<1>6. QED
  BY <1>2, <1>4, <1>5

(* What holds of the message goes on to hold when only the rest changes.   *)
LEMMA MessageFrame ==
    ASSUME MessageInv, UNCHANGED <<version, message>>, parsed' \in Nat, pc' # "parse" => parsed' = 0,
           parsed' = 0 \/ UNCHANGED <<parsed, buff>>
    PROVE  MessageInv'
PROOF
<1>1. HeadersOK(message)' /\ Paired(message)' /\ MessageTypeOK(message, Bytes)'
  BY SameMeaning DEF MessageInv, Bytes, MessageTypeOK
<1>2. CASE parsed' = 0
  <2>1. 0 % 2 # 1
    OBVIOUS
  <2>2. QED
    BY <1>1, <1>2, <2>1 DEF MessageInv
<1>3. CASE UNCHANGED <<parsed, buff>>
  <2>1. DataAt(parsed)' = DataAt(parsed)
    BY <1>3 DEF DataAt
  <2>2. parsed' % 2 = 1 =>
            (Part(DataAt(parsed)) = "head")' /\ AfterHead(message, DataAt(parsed))'
    BY <1>3, <2>1 DEF MessageInv, Part, AfterHead, LastName, LastHeader, InName
  <2>3. QED
    BY <1>1, <1>3, <2>2 DEF MessageInv
<1>4. QED
  BY <1>2, <1>3

LEMMA NextMessage ==
    ASSUME WebInv, OneRequest, MessageInv, [WebNext]_webVars
    PROVE  MessageInv'
PROOF
<1>1. UNCHANGED version
  BY DEF WebNext, WebServer, WebEnvironment, webVars
<1>2. parsed \in Nat /\ (pc # "parse" => parsed = 0)
  BY DEF MessageInv
<1>3. CASE ParseData
  BY <1>1, <1>3, ParseDataMessage DEF WebInv, StateTypeOK
<1>4. CASE UNCHANGED webVars
  BY <1>2, <1>4, MessageFrame DEF webVars, vars, process, buffers
<1>5. CASE ParseEnds
  BY <1>1, <1>5, MessageFrame DEF ParseEnds
<1>6. CASE \E e \in batch : ParseThenSend(e)
  <2>1. /\ pc = "dispatch" /\ UNCHANGED <<message, parsed>>
    BY <1>6 DEF ParseThenSend, EnterWrite, Enter, Take
  <2>2. QED
    BY <1>1, <1>2, <2>1, MessageFrame
<1>7. ASSUME UNCHANGED <<message, parsed>>, pc # "parse", pc' # "parse"
      PROVE  MessageInv'
  BY <1>1, <1>2, <1>7, MessageFrame
<1>8. ASSUME UNCHANGED <<message, parsed>>,
             \/ Server \/ Server4Loop \/ Server4Read \/ Server5Loop \/ Server5Read \/ Writing
      PROVE  pc # "parse" /\ pc' # "parse"
  BY <1>8
  DEF Server, Server4Loop, Server4Read, Server5Loop, Server5Read, Writing, Reading, Loop, StartUp,
      Server5Start, AioSetUp, Listen, HandleListen, HandleListenFails, HandleIn, HandleOut,
      AcceptThenRead, AcceptStray, EnterRead, EnterWrite, Enter, Take, EpollWait, EpollWaitFails,
      RecvSome, RecvEnds, RearmOut, SendSome, SendFails, RearmIn, CloseClient, Leave, LoopLabel
<1>9. CASE WebEnvironment
  <2>1. UNCHANGED <<pc, buff, message, parsed>>
    BY <1>9 DEF WebEnvironment, Environment, process, buffers
  <2>2. QED
    BY <1>1, <1>2, <2>1, MessageFrame
<1>10. CASE WebServer
  BY <1>3, <1>5, <1>6, <1>7, <1>8, <1>10
  DEF WebServer, Server4, Server5, Parsing
<1>11. QED
  BY <1>4, <1>9, <1>10 DEF WebNext

LEMMA InitMessage == WebInit => MessageInv
PROOF
<1>1. SUFFICES ASSUME WebInit PROVE MessageInv
  OBVIOUS
<1>2. message = EmptyMessage /\ parsed = 0 /\ pc = "start" /\ version \in Versions
  BY <1>1 DEF WebInit, Init
<1>3. MessageTypeOK(EmptyMessage, Bytes)
  BY DEF MessageTypeOK, EmptyMessage, HeaderElements
<1>4. HeadersOK(EmptyMessage) /\ Paired(EmptyMessage)
  BY DEF HeadersOK, Paired, EmptyMessage
<1>5. 0 % 2 # 1 /\ 0 \in Nat
  OBVIOUS
<1>6. QED
  BY <1>2, <1>3, <1>4, <1>5 DEF MessageInv

THEOREM MessageInvariance == WebSpec => [](WebInv /\ OneRequest /\ MessageInv)
PROOF
<1>1. WebInit => MessageInv
  BY InitMessage
<1>2. WebInv /\ OneRequest /\ MessageInv /\ [WebNext]_webVars => MessageInv'
  BY NextMessage
<1>3. QED
  BY <1>1, <1>2, OneRequestInvariance, PTL DEF WebSpec

(* The three servers keep their types: in particular, the callbacks never  *)
(* store a value when there is no header to store it with.                 *)
THEOREM WebTypeCorrect == WebSpec => []WebTypeOK
PROOF
<1>1. WebInv /\ MessageInv => WebTypeOK
  BY DEF WebInv, StateTypeOK, MessageInv, WebTypeOK
<1>2. QED
  BY <1>1, MessageInvariance, PTL

(* Every value is stored with the name it has in its request, wherever     *)
(* requests are cut, by whatever ends the text the parser is given, and    *)
(* whatever strlen finds behind a full buffer.  (Names that were cut may   *)
(* be in front of that name.)                                              *)
THEOREM ValuesHaveTheirNames == WebSpec => []HeadersPaired
PROOF
<1>1. MessageInv => HeadersPaired
  BY DEF MessageInv, Paired, HeadersPaired
<1>2. QED
  BY <1>1, MessageInvariance, PTL
=============================================================================
