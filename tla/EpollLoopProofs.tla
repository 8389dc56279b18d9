--------------------------- MODULE EpollLoopProofs ---------------------------
(***************************************************************************)
(* src/epoll.c, proved for every number of clients, descriptors and        *)
(* events, every size of the buffer, whatever the faults.  Descriptors are *)
(* registered for EPOLLIN as long as they are connected, so one is due     *)
(* when it can be read.                                                    *)
(***************************************************************************)
EXTENDS EpollLoop, FiniteSetTheorems, SequenceTheorems, TLAPS

HandlerLabels == {"read", "write", "close"}
Connected(c)  == phase[c] \in {"open", "shut", "reset"}
InBatch(fd)   == \E e \in batch : e.fd = fd
Due(fd)       == peer[fd] # NoClient /\ Readable(peer[fd])

(* Descriptors, connections and registrations agree.                       *)
RegistrationInv ==
    /\ interest[LISTEN] = {"IN"}
    /\ \A c \in backlog : Connected(c)
    /\ \A fd \in Fds :
        /\ interest[fd] = IF peer[fd] = NoClient THEN {} ELSE {"IN"}
        /\ peer[fd] # NoClient => Connected(peer[fd]) /\ peer[fd] \notin backlog
        /\ \A g \in Fds : peer[fd] = peer[g] /\ peer[fd] # NoClient => fd = g

(* What the handler that runs, and the events that are left, rely on.      *)
LoopInv ==
    /\ pc \in {"bind", "listen", "wait"} => batch = {}
    /\ pc \in {"bind", "listen", "wait", "dispatch", "accept"} => cur = LISTEN
    /\ pc \in HandlerLabels => cur # LISTEN /\ peer[cur] # NoClient /\ ~InBatch(cur)
    /\ pc = "close" =>
        \/ phase[peer[cur]] = "reset"
        \/ phase[peer[cur]] = "shut" /\ taken[peer[cur]] = wrote[peer[cur]]
    /\ pc \notin {"write", "abort"} => buf = << >>
    /\ \A e \in batch :
        /\ \A f \in batch : f.fd = e.fd => f = e
        /\ e.fd = LISTEN => e.ev = {"IN"}
        /\ e.fd # LISTEN =>
            /\ peer[e.fd] # NoClient
            /\ "IN" \in e.ev
            /\ "ERR" \in e.ev => phase[peer[e.fd]] = "reset"

(* Whatever can be read is attended to.                                    *)
WakeupInv == \A fd \in Fds : Due(fd) => Attended(fd)

LoopIInv == TypeOK /\ RegistrationInv /\ LoopInv /\ WakeupInv

LEMMA HandlerFacts ==
    ASSUME LoopIInv, pc \in HandlerLabels
    PROVE  /\ cur \in Fds /\ cur # LISTEN /\ ~InBatch(cur)
           /\ peer[cur] \in Clients /\ peer[cur] # NoClient /\ Connected(peer[cur])
           /\ interest[cur] = {"IN"}
           /\ \A fd \in Fds : fd # cur /\ peer[fd] # NoClient => peer[fd] # peer[cur]
PROOF
<1>1. cur \in Fds /\ cur # LISTEN /\ peer[cur] # NoClient /\ ~InBatch(cur)
  BY DEF LoopIInv, LoopInv, TypeOK, Watched
<1>2. peer[cur] \in Clients
  BY <1>1 DEF LoopIInv, TypeOK, KernelTypeOK
<1>3. QED
  BY <1>1, <1>2 DEF LoopIInv, RegistrationInv

LEMMA BatchFacts ==
    ASSUME LoopIInv, NEW e \in batch
    PROVE  /\ e \in [fd : Watched, ev : SUBSET Masks]
           /\ e.fd # LISTEN => e.fd \in Fds /\ peer[e.fd] \in Clients /\ peer[e.fd] # NoClient
PROOF
<1>1. e \in [fd : Watched, ev : SUBSET Masks]
  BY DEF LoopIInv, TypeOK
<1>2. e.fd # LISTEN => e.fd \in Fds /\ peer[e.fd] # NoClient
  BY <1>1 DEF LoopIInv, LoopInv, Watched
<1>3. QED
  BY <1>1, <1>2 DEF LoopIInv, TypeOK, KernelTypeOK

(* epoll_wait reports a descriptor that can be read, as one; a reset shows *)
(* as an error, too.                                                       *)
LEMMA ReventsAre ==
    ASSUME RegistrationInv, NEW fd \in Fds
    PROVE  /\ Revents(fd) # {} <=> Due(fd)
           /\ Due(fd) => "IN" \in Revents(fd)
           /\ "ERR" \in Revents(fd) => phase[peer[fd]] = "reset"
PROOF
<1>1. CASE peer[fd] = NoClient
  BY <1>1 DEF RegistrationInv, Revents, Due
<1>2. CASE peer[fd] # NoClient
  <2>1. interest[fd] = {"IN"} /\ fd # LISTEN
    BY <1>2, KernelAssumption DEF RegistrationInv
  <2>2. Revents(fd) = PollConnection(peer[fd]) \cap ({"IN"} \cup {"ERR"})
    BY <1>2, <2>1 DEF Revents, Reports, Poll
  <2>3. "IN" \in Revents(fd) <=> Readable(peer[fd])
    BY <2>2 DEF PollConnection, Masks
  <2>4. "ERR" \in Revents(fd) <=> phase[peer[fd]] = "reset"
    BY <2>2 DEF PollConnection, Masks
  <2>5. phase[peer[fd]] = "reset" => Readable(peer[fd])
    BY DEF Readable
  <2>6. Revents(fd) \subseteq {"IN", "ERR"}
    BY <2>2
  <2>7. QED
    BY <1>2, <2>3, <2>4, <2>5, <2>6 DEF Due
<1>3. QED
  BY <1>1, <1>2

LEMMA ListenReport == Revents(LISTEN) \subseteq {"IN"}
BY DEF Revents, Reports, Poll

-----------------------------------------------------------------------------
(* Steps that leave the kernel alone and drop no descriptor that is due.   *)
LEMMA KernelFrame ==
    ASSUME LoopIInv, UNCHANGED kernel, \A fd \in Fds : Due(fd) /\ Attended(fd) => Attended(fd)'
    PROVE  KernelTypeOK' /\ RegistrationInv' /\ WakeupInv'
PROOF
<1>1. KernelTypeOK'
  BY DEF LoopIInv, TypeOK, KernelTypeOK, kernel
<1>2. RegistrationInv'
  BY DEF LoopIInv, RegistrationInv, Connected, kernel
<1>3. \A fd \in Fds : Due(fd)' <=> Due(fd)
  BY DEF kernel, Due, Readable, Unread
<1>4. QED
  BY <1>1, <1>2, <1>3 DEF LoopIInv, WakeupInv

LEMMA PcStepInv ==
    ASSUME LoopIInv, CreateAndBind \/ StartListening
    PROVE  LoopIInv'
PROOF
<1>1. /\ UNCHANGED <<kernel, batch, cur, buf, printed>>
      /\ pc \in {"bind", "listen"} /\ pc' \in {"bind", "listen", "wait", "abort"}
  BY DEF CreateAndBind, StartListening
<1>2. tried' \in 0..Addresses
  BY LoopAssumption DEF CreateAndBind, StartListening, LoopIInv, TypeOK
<1>3. KernelTypeOK' /\ RegistrationInv' /\ WakeupInv'
  BY <1>1, KernelFrame DEF Attended, kernel
<1>4. TypeOK'
  BY <1>1, <1>2, <1>3 DEF LoopIInv, TypeOK, Labels
<1>5. LoopInv'
  BY <1>1 DEF LoopIInv, LoopInv, HandlerLabels, InBatch, kernel
<1>6. QED
  BY <1>3, <1>4, <1>5 DEF LoopIInv

LEMMA EpollWaitInv ==
    ASSUME LoopIInv, EpollWait
    PROVE  LoopIInv'
PROOF
<1>1. PICK S \in Batches : /\ batch' = {[fd |-> fd, ev |-> Revents(fd)] : fd \in S}
                           /\ ready' = Reportable \ S
  BY DEF EpollWait
<1>2. /\ pc = "wait" /\ pc' = "dispatch" /\ cur = LISTEN /\ batch = {} /\ buf = << >>
      /\ UNCHANGED <<sockets, interest, cur, buf, tried, printed>>
  BY DEF LoopIInv, EpollWait, LoopInv
<1>3. S \subseteq Reportable /\ Reportable \subseteq ready /\ ready \subseteq Watched
  BY DEF Batches, Reportable, LoopIInv, TypeOK, KernelTypeOK
<1>4. TypeOK'
  <2>1. \A fd \in Watched : Revents(fd) \subseteq Masks
    BY DEF Revents, Reports, Poll, PollConnection, Masks
  <2>2. batch' \in SUBSET [fd : Watched, ev : SUBSET Masks]
    BY <1>1, <1>3, <2>1
  <2>3. ready' \in SUBSET Watched
    BY <1>1, <1>3
  <2>4. QED
    BY <1>2, <2>2, <2>3 DEF LoopIInv, TypeOK, KernelTypeOK, sockets, Labels
<1>5. RegistrationInv'
  BY <1>2 DEF LoopIInv, RegistrationInv, Connected, sockets
<1>6. LoopInv'
  <2>1. ASSUME NEW e \in batch'
        PROVE  /\ e.fd = LISTEN => e.ev = {"IN"}
               /\ e.fd # LISTEN => /\ peer[e.fd] # NoClient
                                   /\ "IN" \in e.ev
                                   /\ "ERR" \in e.ev => phase[peer[e.fd]] = "reset"
    <3>1. e.fd \in Watched /\ e.ev = Revents(e.fd) /\ Revents(e.fd) # {}
      BY <1>1, <1>3 DEF Reportable
    <3>2. e.fd = LISTEN => e.ev = {"IN"}
      BY <3>1, ListenReport
    <3>3. e.fd # LISTEN => e.fd \in Fds
      BY <3>1 DEF Watched
    <3>4. QED
      BY <3>1, <3>2, <3>3, ReventsAre DEF LoopIInv, Due
  <2>2. \A e, f \in batch' : f.fd = e.fd => f = e
    BY <1>1
  <2>3. QED
    BY <1>2, <2>1, <2>2 DEF LoopInv, HandlerLabels, sockets
<1>7. WakeupInv'
  <2>1. SUFFICES ASSUME NEW fd \in Fds, Due(fd) PROVE Attended(fd)'
    BY <1>2 DEF WakeupInv, Due, Readable, Unread, sockets
  <2>2. fd \in ready
    BY <1>2, <2>1, KernelAssumption DEF LoopIInv, WakeupInv, Attended
  <2>3. fd \in Reportable
    BY <2>1, <2>2, ReventsAre DEF Reportable, LoopIInv
  <2>4. CASE fd \in S
    <3>1. [fd |-> fd, ev |-> Revents(fd)] \in batch'
      BY <1>1, <2>4
    <3>2. QED
      BY <3>1 DEF Attended
  <2>5. QED
    BY <1>1, <2>3, <2>4 DEF Attended
<1>8. QED
  BY <1>4, <1>5, <1>6, <1>7 DEF LoopIInv

LEMMA HandleListenInv ==
    ASSUME LoopIInv, NEW e \in batch, HandleListen(e)
    PROVE  LoopIInv'
PROOF
<1>1. /\ pc = "dispatch" /\ pc' = "accept" /\ e.fd = LISTEN /\ batch' = batch \ {e}
      /\ UNCHANGED <<kernel, cur, buf, tried, printed>>
  BY DEF HandleListen, Take
<1>2. KernelTypeOK' /\ RegistrationInv' /\ WakeupInv'
  BY <1>1, KernelFrame, KernelAssumption DEF Attended, kernel
<1>3. TypeOK'
  BY <1>1, <1>2 DEF LoopIInv, TypeOK, Labels
<1>4. LoopInv'
  BY <1>1 DEF LoopIInv, LoopInv, HandlerLabels, kernel
<1>5. QED
  BY <1>2, <1>3, <1>4 DEF LoopIInv

LEMMA HandleDataInv ==
    ASSUME LoopIInv, NEW e \in batch, HandleData(e)
    PROVE  LoopIInv'
PROOF
<1>1. /\ pc = "dispatch" /\ pc' = "read" /\ e.fd # LISTEN /\ batch' = batch \ {e}
      /\ cur = LISTEN /\ cur' = e.fd /\ UNCHANGED <<kernel, buf, tried, printed>>
  BY DEF HandleData, Take, LoopIInv, LoopInv
<1>2. e.fd \in Fds /\ e.fd \in Watched /\ peer[e.fd] # NoClient
  BY <1>1, BatchFacts
<1>3. KernelTypeOK' /\ RegistrationInv' /\ WakeupInv'
  BY <1>1, KernelFrame, KernelAssumption DEF Attended, kernel
<1>4. TypeOK'
  BY <1>1, <1>2, <1>3 DEF LoopIInv, TypeOK, Labels
<1>5. LoopInv'
  <2>1. ~InBatch(cur)'
    BY <1>1 DEF LoopIInv, LoopInv, InBatch
  <2>2. QED
    BY <1>1, <1>2, <2>1 DEF LoopIInv, LoopInv, HandlerLabels, kernel
<1>6. QED
  BY <1>3, <1>4, <1>5 DEF LoopIInv

(* Closing fd, which nothing attends to any more.                          *)
LEMMA CloseFrame ==
    ASSUME LoopIInv, NEW fd \in Fds, peer[fd] # NoClient, Close(fd),
           UNCHANGED <<wrote, taken, echoed, drained, backlog>>,
           \A g \in Fds : g # fd /\ Attended(g) => Attended(g)'
    PROVE  /\ KernelTypeOK' /\ RegistrationInv' /\ WakeupInv'
           /\ \A g \in Fds : g # fd => peer'[g] = peer[g]
           /\ \A c \in Clients : c # peer[fd] => phase'[c] = phase[c]
           /\ \A g \in Fds : g # fd /\ peer[g] # NoClient => phase'[peer[g]] = phase[peer[g]]
PROOF
<1> DEFINE c == peer[fd]
<1>1. /\ phase' = [phase EXCEPT ![c] = "closed"]
      /\ peer' = [peer EXCEPT ![fd] = NoClient]
      /\ interest' = [interest EXCEPT ![fd] = {}]
      /\ ready' = ready \ {fd}
  BY DEF Close
<1>2. /\ c \in Clients /\ c # NoClient /\ fd # LISTEN
      /\ \A g \in Fds : g # fd /\ peer[g] # NoClient => peer[g] # c /\ peer[g] \in Clients
  BY KernelAssumption DEF LoopIInv, TypeOK, KernelTypeOK, RegistrationInv
<1>3. /\ \A g \in Fds : g # fd => peer'[g] = peer[g] /\ interest'[g] = interest[g]
      /\ peer'[fd] = NoClient /\ interest'[fd] = {} /\ interest'[LISTEN] = {"IN"}
      /\ \A d \in Clients : d # c => phase'[d] = phase[d]
  BY <1>1, <1>2 DEF LoopIInv, TypeOK, KernelTypeOK, Watched, RegistrationInv
<1>4. KernelTypeOK'
  BY <1>1, <1>2 DEF LoopIInv, TypeOK, KernelTypeOK, Watched, Phases
<1>5. RegistrationInv'
  <2>1. \A d \in backlog : d \in Clients /\ d # c
    BY DEF LoopIInv, TypeOK, KernelTypeOK, RegistrationInv
  <2>2. QED
    BY <1>2, <1>3, <2>1 DEF LoopIInv, RegistrationInv, Connected
<1>6. WakeupInv'
  <2>1. \A g \in Fds : Due(g)' => g # fd /\ Due(g)
    BY <1>2, <1>3 DEF Due, Readable, Unread
  <2>2. QED
    BY <2>1 DEF LoopIInv, WakeupInv
<1>7. QED
  BY <1>2, <1>3, <1>4, <1>5, <1>6

LEMMA HandleErrorInv ==
    ASSUME LoopIInv, NEW e \in batch, HandleError(e)
    PROVE  LoopIInv' /\ phase[peer[e.fd]] = "reset" /\ e.fd \in Fds
PROOF
<1>1. /\ pc = "dispatch" /\ batch' = batch \ {e} /\ cur = LISTEN /\ cur' = cur
      /\ "ERR" \in e.ev \/ "IN" \notin e.ev
      /\ Close(e.fd) /\ pc' \in {"wait", "dispatch"} /\ (pc' = "wait" => batch' = {})
      /\ UNCHANGED <<wrote, taken, echoed, drained, backlog, cur, buf, tried, printed>>
  BY DEF HandleError, Take, Resume, LoopIInv, LoopInv
<1>2. e.fd # LISTEN /\ "ERR" \in e.ev /\ phase[peer[e.fd]] = "reset"
  <2>1. e.fd = LISTEN => e.ev = {"IN"}
    BY DEF LoopIInv, LoopInv
  <2>2. e.fd # LISTEN => "IN" \in e.ev /\ ("ERR" \in e.ev => phase[peer[e.fd]] = "reset")
    BY DEF LoopIInv, LoopInv
  <2>3. QED
    BY <1>1, <2>1, <2>2
<1>3. e.fd \in Fds /\ peer[e.fd] # NoClient
  BY <1>2, BatchFacts
<1>4. \A g \in Fds : g # e.fd /\ Attended(g) => Attended(g)'
  BY <1>1 DEF Attended, Close
<1>5. /\ KernelTypeOK' /\ RegistrationInv' /\ WakeupInv'
      /\ \A g \in Fds : g # e.fd => peer'[g] = peer[g]
      /\ \A g \in Fds : g # e.fd /\ peer[g] # NoClient => phase'[peer[g]] = phase[peer[g]]
  BY <1>1, <1>3, <1>4, CloseFrame
<1>6. TypeOK'
  BY <1>1, <1>5 DEF LoopIInv, TypeOK, Labels
<1>7. LoopInv'
  <2>1. \A f \in batch' : f \in batch /\ f.fd # e.fd
    BY <1>1 DEF LoopIInv, LoopInv
  <2>2. \A f \in batch' : f.fd # LISTEN => f.fd \in Fds /\ peer[f.fd] # NoClient
    BY <2>1, BatchFacts
  <2>3. QED
    BY <1>1, <1>5, <2>1, <2>2 DEF LoopIInv, LoopInv, HandlerLabels
<1>8. QED
  BY <1>2, <1>3, <1>5, <1>6, <1>7 DEF LoopIInv

-----------------------------------------------------------------------------
(* accept.                                                                 *)

LEMMA AcceptNextInv ==
    ASSUME LoopIInv, AcceptNext
    PROVE  LoopIInv'
PROOF
<1>1. pc = "accept" /\ UNCHANGED <<batch, cur, buf, tried, printed>>
  BY DEF AcceptNext
<1>2. CASE pc' = "abort" /\ UNCHANGED kernel
  <2>1. KernelTypeOK' /\ RegistrationInv' /\ WakeupInv'
    BY <1>1, <1>2, KernelFrame DEF Attended, kernel
  <2>2. TypeOK'
    BY <1>1, <1>2, <2>1 DEF LoopIInv, TypeOK, Labels
  <2>3. LoopInv'
    BY <1>1, <1>2 DEF LoopIInv, LoopInv, HandlerLabels, kernel
  <2>4. QED
    BY <2>1, <2>2, <2>3 DEF LoopIInv
<1>3. CASE /\ \E c \in backlog, fd \in Fds : AcceptAndAdd(c, fd, {"IN"})
           /\ UNCHANGED <<phase, wrote, taken, echoed, drained, pc>>
  <2>1. PICK c \in backlog, fd \in Fds : AcceptAndAdd(c, fd, {"IN"})
    BY <1>3
  <2>2. /\ backlog' = backlog \ {c} /\ peer' = [peer EXCEPT ![fd] = c]
        /\ interest' = [interest EXCEPT ![fd] = {"IN"}]
        /\ peer[fd] = NoClient
    BY <2>1 DEF AcceptAndAdd, Accept, IsLowestFree, IsFree
  <2>3. ready' = IF PollConnection(c) \cap {"IN", "ERR"} # {} THEN ready \cup {fd} ELSE ready
    <3>1. {"IN"} \cup {"ERR"} = {"IN", "ERR"}
      OBVIOUS
    <3>2. QED
      BY <2>1, <3>1 DEF AcceptAndAdd
  <2>4. /\ c \in Clients /\ c # NoClient /\ Connected(c) /\ fd # LISTEN
        /\ \A g \in Fds : peer[g] # c
    BY KernelAssumption DEF LoopIInv, TypeOK, KernelTypeOK, RegistrationInv
  <2>5. /\ \A g \in Fds : g # fd => peer'[g] = peer[g] /\ interest'[g] = interest[g]
        /\ peer'[fd] = c /\ interest'[fd] = {"IN"} /\ interest'[LISTEN] = {"IN"}
    BY <2>2, <2>4 DEF LoopIInv, TypeOK, KernelTypeOK, Watched, RegistrationInv
  <2>6. TypeOK'
    BY <1>1, <1>3, <2>2, <2>3, <2>4 DEF LoopIInv, TypeOK, KernelTypeOK, Watched
  <2>7. RegistrationInv'
    BY <1>3, <2>2, <2>4, <2>5 DEF LoopIInv, RegistrationInv, Connected
  <2>8. LoopInv'
    <3>1. \A f \in batch : f.fd # LISTEN => f.fd # fd /\ f.fd \in Fds
      BY <2>2, BatchFacts
    <3>2. QED
      BY <1>1, <1>3, <2>5, <3>1 DEF LoopIInv, LoopInv, HandlerLabels
  <2>9. WakeupInv'
    <3>1. SUFFICES ASSUME NEW g \in Fds, Due(g)' PROVE Attended(g)'
      BY DEF WakeupInv
    <3>2. CASE g = fd
      <4>1. Readable(c)
        BY <1>3, <2>5, <3>1, <3>2 DEF Due, Readable, Unread
      <4>2. "IN" \in PollConnection(c)
        BY <4>1 DEF PollConnection, Masks
      <4>3. QED
        BY <2>3, <3>2, <4>2 DEF Attended
    <3>3. CASE g # fd
      <4>1. Due(g)
        BY <1>3, <2>5, <3>1, <3>3 DEF Due, Readable, Unread
      <4>2. QED
        BY <1>1, <2>3, <4>1 DEF LoopIInv, WakeupInv, Attended
    <3>4. QED
      BY <3>2, <3>3
  <2>10. QED
    BY <2>6, <2>7, <2>8, <2>9 DEF LoopIInv
<1>4. QED
  BY <1>2, <1>3 DEF AcceptNext

LEMMA AcceptEndsInv ==
    ASSUME LoopIInv, AcceptEnds
    PROVE  LoopIInv'
PROOF
<1>1. /\ pc = "accept" /\ pc' \in {"wait", "dispatch"} /\ (pc' = "wait" => batch' = {})
      /\ UNCHANGED <<kernel, batch, cur, buf, tried, printed>>
  BY DEF AcceptEnds, Resume
<1>2. KernelTypeOK' /\ RegistrationInv' /\ WakeupInv'
  BY <1>1, KernelFrame DEF Attended, kernel
<1>3. TypeOK'
  BY <1>1, <1>2 DEF LoopIInv, TypeOK, Labels
<1>4. LoopInv'
  BY <1>1 DEF LoopIInv, LoopInv, HandlerLabels, kernel
<1>5. QED
  BY <1>2, <1>3, <1>4 DEF LoopIInv

-----------------------------------------------------------------------------
(* read and write.                                                         *)

LEMMA Min2Is ==
    ASSUME NEW a \in Int, NEW b \in Int
    PROVE  Min2(a, b) \in Int /\ Min2(a, b) <= a /\ Min2(a, b) <= b
BY DEF Min2

(* What a read is, in terms of the n bytes it returns.                     *)
LEMMA ReadIs ==
    ASSUME LoopIInv, ReadSome
    PROVE  \E n \in Nat \ {0} :
            /\ pc = "read" /\ pc' = "write"
            /\ buf' = [k \in 1..n |-> Byte(peer[cur], taken[peer[cur]] + k)]
            /\ taken' = [taken EXCEPT ![peer[cur]] = @ + n]
            /\ UNCHANGED <<phase, wrote, echoed, drained, backlog, peer, interest, ready, batch,
                           cur, tried, printed>>
PROOF
<1> DEFINE c == peer[cur]
           n == Min2(Unread(c), BUFLEN)
<1>1. c \in Clients
  BY HandlerFacts DEF ReadSome, HandlerLabels
<1>2. Unread(c) \in Int /\ BUFLEN \in Int
  BY <1>1, LoopAssumption DEF Unread, LoopIInv, TypeOK, KernelTypeOK
<1>3. n \in Int
  BY <1>2, Min2Is
<1>4. n > 0 /\ pc = "read" /\ pc' = "write"
      /\ buf' = [k \in 1..n |-> Byte(peer[cur], taken[peer[cur]] + k)]
      /\ taken' = [taken EXCEPT ![peer[cur]] = @ + n]
      /\ UNCHANGED <<phase, wrote, echoed, drained, backlog, peer, interest, ready, batch, cur,
                     tried, printed>>
  BY DEF ReadSome, epoll
<1> HIDE DEF n
<1>5. n \in Nat \ {0}
  BY <1>3, <1>4
<1>6. QED
  BY <1>4, <1>5

LEMMA ReadSomeInv ==
    ASSUME LoopIInv, ReadSome
    PROVE  LoopIInv'
PROOF
<1> DEFINE c == peer[cur]
<1>1. PICK n \in Nat \ {0} :
            /\ pc = "read" /\ pc' = "write"
            /\ buf' = [k \in 1..n |-> Byte(c, taken[c] + k)]
            /\ taken' = [taken EXCEPT ![c] = @ + n]
            /\ UNCHANGED <<phase, wrote, echoed, drained, backlog, peer, interest, ready, batch,
                           cur, tried, printed>>
  BY ReadIs
<1>2. /\ cur \in Fds /\ c \in Clients
      /\ \A fd \in Fds : fd # cur /\ peer[fd] # NoClient => peer[fd] # c
  BY <1>1, HandlerFacts DEF HandlerLabels
<1>3. taken[c] \in Nat
  BY <1>2 DEF LoopIInv, TypeOK, KernelTypeOK
<1>4. TypeOK'
  <2>1. taken' \in [Clients -> Nat]
    <3>1. taken[c] + n \in Nat
      BY <1>3
    <3>2. QED
      BY <1>1, <3>1 DEF LoopIInv, TypeOK, KernelTypeOK
  <2>2. buf' \in Seq(Bytes)
    <3>1. \A k \in 1..n : taken[c] + k \in Nat
      BY <1>3
    <3>2. \A k \in 1..n : Byte(c, taken[c] + k) \in Bytes
      BY <1>2, <3>1 DEF Byte, Bytes
    <3>3. QED
      BY <1>1, <3>2
  <2>3. QED
    BY <1>1, <2>1, <2>2 DEF LoopIInv, TypeOK, KernelTypeOK, Labels
<1>5. RegistrationInv'
  BY <1>1 DEF LoopIInv, RegistrationInv, Connected
<1>6. LoopInv'
  BY <1>1 DEF LoopIInv, LoopInv, HandlerLabels, InBatch
<1>7. WakeupInv'
  <2>1. SUFFICES ASSUME NEW fd \in Fds, Due(fd)' PROVE Attended(fd)'
    BY DEF WakeupInv
  <2>2. CASE fd = cur
    BY <1>1, <2>2 DEF Attended
  <2>3. CASE fd # cur
    <3>1. peer[fd] # NoClient /\ peer[fd] \in Clients \ {c}
      BY <1>1, <1>2, <2>1, <2>3 DEF Due, LoopIInv, TypeOK, KernelTypeOK
    <3>2. taken'[peer[fd]] = taken[peer[fd]]
      BY <1>1, <1>2, <3>1 DEF LoopIInv, TypeOK, KernelTypeOK
    <3>3. Due(fd)
      BY <1>1, <2>1, <3>1, <3>2 DEF Due, Readable, Unread
    <3>4. QED
      BY <1>1, <3>3 DEF LoopIInv, WakeupInv, Attended
  <2>4. QED
    BY <2>2, <2>3
<1>8. QED
  BY <1>4, <1>5, <1>6, <1>7 DEF LoopIInv

LEMMA ReadEndsInv ==
    ASSUME LoopIInv, ReadEnds
    PROVE  LoopIInv'
PROOF
<1> DEFINE c == peer[cur]
<1>1. /\ pc = "read" /\ pc \in HandlerLabels /\ buf = << >>
      /\ UNCHANGED <<kernel, batch, buf, tried, printed>>
      /\ \/ /\ Unread(c) = 0 /\ phase[c] = "open" /\ cur' = LISTEN
            /\ pc' \in {"wait", "dispatch"} /\ (pc' = "wait" => batch' = {})
         \/ /\ phase[c] = "reset" \/ (phase[c] = "shut" /\ Unread(c) = 0)
            /\ pc' = "close" /\ cur' = cur
  BY DEF ReadEnds, Leave, Resume, HandlerLabels, LoopIInv, LoopInv
<1>2. cur \in Fds /\ c \in Clients /\ c # NoClient
  BY <1>1, HandlerFacts
<1>3. Unread(c) = 0 => taken[c] = wrote[c]
  BY <1>2 DEF Unread, LoopIInv, TypeOK, KernelTypeOK
<1>4. \A fd \in Fds : Due(fd) /\ Attended(fd) => Attended(fd)'
  BY <1>1, <1>2 DEF Attended, kernel, Due, Readable
<1>5. KernelTypeOK' /\ RegistrationInv' /\ WakeupInv'
  BY <1>1, <1>4, KernelFrame
<1>6. TypeOK'
  BY <1>1, <1>5 DEF LoopIInv, TypeOK, Labels, Watched
<1>7. LoopInv'
  BY <1>1, <1>3 DEF LoopIInv, LoopInv, HandlerLabels, kernel, InBatch
<1>8. QED
  BY <1>5, <1>6, <1>7 DEF LoopIInv

LEMMA WriteInv ==
    ASSUME LoopIInv, Write
    PROVE  LoopIInv'
PROOF
<1>1. /\ pc = "write" /\ pc' \in {"read", "abort"}
      /\ UNCHANGED <<kernel, batch, cur, tried>>
      /\ pc' = "read" => buf' = << >>
      /\ buf' \in {<< >>, buf} /\ printed' \in {printed, printed \o buf}
  BY DEF Write
<1>2. buf' \in Seq(Bytes) /\ printed' \in Seq(Bytes)
  <2>1. buf \in Seq(Bytes) /\ printed \in Seq(Bytes)
    BY DEF LoopIInv, TypeOK
  <2>2. printed \o buf \in Seq(Bytes)
    BY <2>1, ConcatProperties
  <2>3. << >> \in Seq(Bytes)
    BY EmptySeq
  <2>4. QED
    BY <1>1, <2>1, <2>2, <2>3
<1>3. KernelTypeOK' /\ RegistrationInv' /\ WakeupInv'
  BY <1>1, KernelFrame DEF Attended, kernel
<1>4. TypeOK'
  BY <1>1, <1>2, <1>3 DEF LoopIInv, TypeOK, Labels
<1>5. LoopInv'
  BY <1>1 DEF LoopIInv, LoopInv, HandlerLabels, kernel, InBatch
<1>6. QED
  BY <1>3, <1>4, <1>5 DEF LoopIInv

LEMMA CloseConnectionInv ==
    ASSUME LoopIInv, CloseConnection
    PROVE  LoopIInv'
PROOF
<1>1. /\ pc = "close" /\ pc \in HandlerLabels /\ Close(cur) /\ cur' = LISTEN /\ buf = << >>
      /\ pc' \in {"wait", "dispatch"} /\ (pc' = "wait" => batch' = {})
      /\ UNCHANGED <<wrote, taken, echoed, drained, backlog, batch, buf, tried, printed>>
  BY DEF CloseConnection, Leave, Resume, HandlerLabels, LoopIInv, LoopInv
<1>2. cur \in Fds /\ peer[cur] # NoClient /\ ~InBatch(cur)
  BY <1>1, HandlerFacts
<1>3. \A g \in Fds : g # cur /\ Attended(g) => Attended(g)'
  BY <1>1 DEF Attended, Close
<1>4. /\ KernelTypeOK' /\ RegistrationInv' /\ WakeupInv'
      /\ \A g \in Fds : g # cur => peer'[g] = peer[g]
      /\ \A g \in Fds : g # cur /\ peer[g] # NoClient => phase'[peer[g]] = phase[peer[g]]
  BY <1>1, <1>2, <1>3, CloseFrame
<1>5. TypeOK'
  BY <1>1, <1>4 DEF LoopIInv, TypeOK, Labels, Watched
<1>6. LoopInv'
  <2>1. \A f \in batch : f.fd # LISTEN => f.fd \in Fds /\ peer[f.fd] # NoClient /\ f.fd # cur
    BY <1>2, BatchFacts DEF InBatch
  <2>2. QED
    BY <1>1, <1>4, <2>1 DEF LoopIInv, LoopInv, HandlerLabels
<1>7. QED
  BY <1>4, <1>5, <1>6 DEF LoopIInv

-----------------------------------------------------------------------------
(* The clients.                                                            *)

LEMMA ClientFrame ==
    ASSUME LoopIInv, NEW c \in Clients, ClientStep(c), UNCHANGED process
    PROVE  /\ UNCHANGED <<taken, echoed, peer, interest, pc, batch, cur, buf, tried, printed>>
           /\ KernelTypeOK'
           /\ ready \subseteq ready'
           /\ \A d \in Clients : d # c => phase'[d] = phase[d] /\ wrote'[d] = wrote[d]
           /\ \/ phase[c] = "idle" /\ phase'[c] = "open" /\ backlog' = backlog \cup {c}
                 /\ LISTEN \in ready'
              \/ /\ Connected(c) /\ Connected(c)' /\ UNCHANGED backlog
                 /\ phase[c] = "reset" => phase'[c] = "reset"
                 /\ phase[c] = "shut" => phase'[c] \in {"shut", "reset"} /\ wrote'[c] = wrote[c]
                 /\ \/ UNCHANGED <<phase, wrote>>
                    \/ \A fd \in Fds : peer[fd] = c /\ interest[fd] = {"IN"} => fd \in ready'
PROOF
<1>1. UNCHANGED <<taken, echoed, peer, interest, pc, batch, cur, buf, tried, printed>>
  BY DEF ClientStep, Connect, ClientWrite, ClientRead, ClientShutdown, ClientReset, process
<1>2. CASE Connect(c)
  <2>1. KernelTypeOK'
    BY <1>2 DEF Connect, LoopIInv, TypeOK, KernelTypeOK, Phases, Watched
  <2>2. QED
    BY <1>1, <1>2, <2>1 DEF Connect, LoopIInv, TypeOK, KernelTypeOK
<1>3. CASE ClientWrite(c)
  <2>1. KernelTypeOK'
    BY <1>3 DEF ClientWrite, Wake, LoopIInv, TypeOK, KernelTypeOK, Phases, Watched
  <2>2. QED
    BY <1>1, <1>3, <2>1 DEF ClientWrite, Wake, Connected, LoopIInv, TypeOK, KernelTypeOK
<1>4. CASE ClientRead(c)
  <2>1. KernelTypeOK'
    BY <1>4 DEF ClientRead, Wake, LoopIInv, TypeOK, KernelTypeOK, Phases, Watched
  <2>2. QED
    BY <1>1, <1>4, <2>1 DEF ClientRead, Wake, Connected
<1>5. CASE ClientShutdown(c) \/ ClientReset(c)
  <2>1. KernelTypeOK'
    BY <1>5 DEF ClientShutdown, ClientReset, Wake, LoopIInv, TypeOK, KernelTypeOK, Phases, Watched
  <2>2. QED
    BY <1>1, <1>5, <2>1
    DEF ClientShutdown, ClientReset, Wake, Connected, LoopIInv, TypeOK, KernelTypeOK
<1>6. QED
  BY <1>2, <1>3, <1>4, <1>5 DEF ClientStep

LEMMA EnvironmentInv ==
    ASSUME LoopIInv, Environment
    PROVE  LoopIInv'
PROOF
<1>1. PICK c \in Clients : ClientStep(c) /\ UNCHANGED process
  BY DEF Environment
<1>2. /\ UNCHANGED <<taken, echoed, peer, interest, pc, batch, cur, buf, tried, printed>>
      /\ KernelTypeOK'
      /\ ready \subseteq ready'
      /\ \A d \in Clients : d # c => phase'[d] = phase[d] /\ wrote'[d] = wrote[d]
      /\ \/ phase[c] = "idle" /\ phase'[c] = "open" /\ backlog' = backlog \cup {c}
         \/ /\ Connected(c) /\ Connected(c)' /\ UNCHANGED backlog
            /\ phase[c] = "reset" => phase'[c] = "reset"
            /\ phase[c] = "shut" => phase'[c] \in {"shut", "reset"} /\ wrote'[c] = wrote[c]
            /\ \/ UNCHANGED <<phase, wrote>>
               \/ \A fd \in Fds : peer[fd] = c /\ interest[fd] = {"IN"} => fd \in ready'
  BY <1>1, ClientFrame
<1>3. \A fd \in Fds : peer[fd] # NoClient => peer[fd] \in Clients /\ Connected(peer[fd])
  BY DEF LoopIInv, TypeOK, KernelTypeOK, RegistrationInv
<1>4. TypeOK'
  BY <1>2 DEF LoopIInv, TypeOK
<1>5. RegistrationInv'
  <2>1. \A d \in Clients : Connected(d) => Connected(d)'
    BY <1>2 DEF Connected
  <2>2. backlog \subseteq Clients
    BY DEF LoopIInv, TypeOK, KernelTypeOK
  <2>3. \A d \in backlog' : Connected(d)'
    BY <1>2, <2>1, <2>2 DEF LoopIInv, RegistrationInv, Connected
  <2>4. \A fd \in Fds : peer[fd] # NoClient => peer[fd] \notin backlog'
    BY <1>2, <1>3 DEF LoopIInv, RegistrationInv, Connected
  <2>5. QED
    BY <1>2, <1>3, <2>1, <2>3, <2>4 DEF LoopIInv, RegistrationInv
<1>6. LoopInv'
  <2>1. pc = "close" => cur \in Fds /\ peer[cur] \in Clients
    BY HandlerFacts DEF HandlerLabels
  <2>2. \A e \in batch : e.fd # LISTEN => peer[e.fd] \in Clients
    BY BatchFacts
  <2>3. \A d \in Clients : phase[d] = "reset" => phase'[d] = "reset"
    BY <1>2
  <2>4. \A d \in Clients : phase[d] = "shut" =>
            phase'[d] = "reset" \/ (phase'[d] = "shut" /\ wrote'[d] = wrote[d])
    BY <1>2 DEF Connected
  <2>5. QED
    BY <1>2, <2>1, <2>2, <2>3, <2>4 DEF LoopIInv, LoopInv, InBatch
<1>7. WakeupInv'
  <2>1. SUFFICES ASSUME NEW fd \in Fds, Due(fd)' PROVE Attended(fd)'
    BY DEF WakeupInv
  <2>2. peer[fd] # NoClient /\ peer[fd] \in Clients /\ Connected(peer[fd]) /\ interest[fd] = {"IN"}
    BY <1>2, <1>3, <2>1 DEF Due, LoopIInv, RegistrationInv
  <2>3. CASE Due(fd)
    BY <1>2, <2>3 DEF LoopIInv, WakeupInv, Attended
  <2>4. CASE ~Due(fd)
    <3>1. peer[fd] = c /\ ~UNCHANGED <<phase, wrote>>
      BY <1>2, <2>1, <2>2, <2>4 DEF Due, Readable, Unread
    <3>2. fd \in ready'
      BY <1>2, <2>2, <3>1 DEF Connected
    <3>3. QED
      BY <3>2 DEF Attended
  <2>5. QED
    BY <2>3, <2>4
<1>8. QED
  BY <1>4, <1>5, <1>6, <1>7 DEF LoopIInv

-----------------------------------------------------------------------------
LEMMA NextInv ==
    ASSUME LoopIInv, [Next]_vars
    PROVE  LoopIInv'
PROOF
<1>1. CASE CreateAndBind \/ StartListening \/ EpollWait
  BY <1>1, PcStepInv, EpollWaitInv
<1>2. CASE \E e \in batch : HandleError(e) \/ HandleListen(e) \/ HandleData(e)
  BY <1>2, HandleErrorInv, HandleListenInv, HandleDataInv
<1>3. CASE AcceptNext \/ AcceptEnds \/ ReadSome \/ ReadEnds \/ Write \/ CloseConnection
  BY <1>3, AcceptNextInv, AcceptEndsInv, ReadSomeInv, ReadEndsInv, WriteInv, CloseConnectionInv
<1>4. CASE Environment
  BY <1>4, EnvironmentInv
<1>5. CASE UNCHANGED vars
  BY <1>5
  DEF vars, process, kernel, LoopIInv, TypeOK, KernelTypeOK, RegistrationInv, Connected, LoopInv,
      InBatch, WakeupInv, Due, Readable, Unread, Attended
<1>6. QED
  BY <1>1, <1>2, <1>3, <1>4, <1>5 DEF Next, Server

LEMMA InitLoop == Init => LoopIInv
PROOF
<1>1. SUFFICES ASSUME Init PROVE LoopIInv
  OBVIOUS
<1>2. TypeOK
  BY <1>1, KernelAssumption, LoopAssumption, EmptySeq
  DEF Init, KernelInit, TypeOK, KernelTypeOK, Phases, Watched, Labels
<1>3. RegistrationInv
  BY <1>1, KernelAssumption DEF Init, KernelInit, RegistrationInv, Watched
<1>4. LoopInv
  BY <1>1 DEF Init, LoopInv, HandlerLabels
<1>5. WakeupInv
  BY <1>1 DEF Init, KernelInit, WakeupInv, Due
<1>6. QED
  BY <1>2, <1>3, <1>4, <1>5 DEF LoopIInv

THEOREM LoopInvariance == Spec => []LoopIInv
BY InitLoop, NextInv, PTL DEF Spec

(* epoll.c keeps its types: in particular, the addresses that are tried    *)
(* are never more than there are.                                          *)
THEOREM LoopTypeCorrect == Spec => []TypeOK
PROOF
<1>1. LoopIInv => TypeOK
  BY DEF LoopIInv
<1>2. QED
  BY <1>1, LoopInvariance, PTL

-----------------------------------------------------------------------------
(* What waits in the backlog is accepted in this round, or is reported in  *)
(* the next one.                                                           *)
BacklogInv == pc # "abort" /\ backlog # {} => LISTEN \in ready \/ InBatch(LISTEN) \/ pc = "accept"

(* A connection that waits finds a descriptor: those in use belong to as   *)
(* many other clients.                                                     *)
LEMMA DescriptorsLast ==
    ASSUME LoopIInv, IsFiniteSet(Clients), IsFiniteSet(Fds),
           Cardinality(Clients) <= Cardinality(Fds), backlog # {}
    PROVE  \E fd \in Fds : IsFree(fd)
PROOF
<1>1. SUFFICES ASSUME \A fd \in Fds : peer[fd] # NoClient PROVE FALSE
  BY DEF IsFree
<1>2. PICK c \in backlog : TRUE
  OBVIOUS
<1> DEFINE Others == Clients \ {c}
<1>3. c \in Clients
  BY DEF LoopIInv, TypeOK, KernelTypeOK
<1>4. IsFiniteSet(Others) /\ Cardinality(Others) = Cardinality(Clients) - 1
  BY <1>3, FS_RemoveElement
<1>5. peer \in Injection(Fds, Others)
  <2>1. \A fd \in Fds : peer[fd] \in Others
    BY <1>1 DEF LoopIInv, RegistrationInv, TypeOK, KernelTypeOK
  <2>2. peer \in [Fds -> Others]
    BY <2>1 DEF LoopIInv, TypeOK, KernelTypeOK
  <2>3. \A f, g \in Fds : peer[f] = peer[g] => f = g
    BY <1>1 DEF LoopIInv, RegistrationInv
  <2>4. QED
    BY <2>2, <2>3 DEF Injection, IsInjective
<1>6. Cardinality(Fds) <= Cardinality(Others)
  <2> HIDE DEF Others
  <2>1. QED
    BY <1>4, <1>5, FS_Injection
<1>7. Cardinality(Clients) \in Nat /\ Cardinality(Fds) \in Nat
  BY FS_CardinalityType
<1>8. QED
  BY <1>4, <1>6, <1>7

LEMMA BacklogStep ==
    ASSUME LoopIInv, BacklogInv, [Next]_vars,
           backlog # {} => \E fd \in Fds : IsFree(fd)
    PROVE  BacklogInv'
PROOF
<1>1. CASE EpollWait
  <2>1. PICK S \in Batches : /\ batch' = {[fd |-> fd, ev |-> Revents(fd)] : fd \in S}
                             /\ ready' = Reportable \ S
    BY <1>1 DEF EpollWait
  <2>2. SUFFICES ASSUME backlog # {} PROVE LISTEN \in ready' \/ InBatch(LISTEN)'
    BY <1>1 DEF EpollWait, BacklogInv, sockets
  <2>3. LISTEN \in ready
    BY <1>1, <2>2 DEF EpollWait, BacklogInv, LoopIInv, LoopInv, InBatch
  <2>4. Revents(LISTEN) # {}
    BY <2>2 DEF Revents, Reports, Poll, LoopIInv, RegistrationInv
  <2>5. LISTEN \in Reportable
    BY <2>3, <2>4 DEF Reportable
  <2>6. CASE LISTEN \in S
    <3>1. [fd |-> LISTEN, ev |-> Revents(LISTEN)] \in batch'
      BY <2>1, <2>6
    <3>2. QED
      BY <3>1 DEF InBatch
  <2>7. QED
    BY <2>1, <2>5, <2>6
<1>2. ASSUME NEW e \in batch, HandleError(e) \/ HandleListen(e) \/ HandleData(e)
      PROVE  BacklogInv'
  <2>1. CASE HandleListen(e)
    BY <2>1 DEF HandleListen, BacklogInv
  <2>2. CASE HandleError(e) \/ HandleData(e)
    <3>1. pc = "dispatch" /\ batch' = batch \ {e} /\ backlog' = backlog
      BY <2>2 DEF HandleError, HandleData, Take, kernel
    <3>2. e.fd # LISTEN
      <4>1. HandleError(e) => e.fd \in Fds
        BY HandleErrorInv
      <4>2. QED
        BY <2>2, <4>1, KernelAssumption DEF HandleData
    <3>3. LISTEN \in ready => LISTEN \in ready'
      BY <2>2, <3>2 DEF HandleError, HandleData, Close, kernel
    <3>4. InBatch(LISTEN) => InBatch(LISTEN)'
      BY <3>1, <3>2 DEF InBatch
    <3>5. QED
      BY <3>1, <3>3, <3>4 DEF BacklogInv
  <2>3. QED
    BY <1>2, <2>1, <2>2
<1>3. CASE AcceptEnds
  <2>1. backlog = {}
    BY <1>3 DEF AcceptEnds, AcceptFails
  <2>2. QED
    BY <1>3, <2>1 DEF AcceptEnds, BacklogInv, kernel
<1>4. CASE AcceptNext
  BY <1>4 DEF AcceptNext, BacklogInv
<1>5. CASE CloseConnection
  <2>1. cur \in Fds /\ cur # LISTEN /\ pc # "accept"
    BY <1>5, HandlerFacts DEF CloseConnection, HandlerLabels
  <2>2. QED
    BY <1>5, <2>1 DEF CloseConnection, Close, BacklogInv, InBatch
<1>6. CASE CreateAndBind \/ StartListening \/ ReadSome \/ ReadEnds \/ Write
  <2>1. UNCHANGED <<backlog, ready, batch>> /\ pc # "accept" /\ pc # "abort"
    BY <1>6 DEF CreateAndBind, StartListening, ReadSome, ReadEnds, Write, kernel, epoll
  <2>2. QED
    BY <2>1 DEF BacklogInv, InBatch
<1>7. CASE Environment
  <2>1. PICK c \in Clients : ClientStep(c) /\ UNCHANGED process
    BY <1>7 DEF Environment
  <2>2. ready \subseteq ready' /\ (UNCHANGED backlog \/ LISTEN \in ready') /\ UNCHANGED <<pc, batch>>
    BY <2>1, ClientFrame
  <2>3. QED
    BY <2>2 DEF BacklogInv, InBatch
<1>8. CASE UNCHANGED vars
  BY <1>8 DEF vars, process, kernel, BacklogInv, InBatch
<1>9. QED
  BY <1>1, <1>2, <1>3, <1>4, <1>5, <1>6, <1>7, <1>8 DEF Next, Server

(* Edge-triggered, and nothing is missed: the loops around accept and read *)
(* go on until what the descriptor had to report is gone, as long as there *)
(* is a descriptor for each client.                                        *)
THEOREM LoopWakeupsAreKept ==
    /\ IsFiniteSet(Clients) /\ IsFiniteSet(Fds)
    /\ Cardinality(Clients) <= Cardinality(Fds)
    /\ Spec
    => []NoLostWakeup
PROOF
<1> SUFFICES ASSUME IsFiniteSet(Clients), IsFiniteSet(Fds),
                    Cardinality(Clients) <= Cardinality(Fds)
             PROVE  Spec => []NoLostWakeup
  OBVIOUS
<1>1. Init => BacklogInv
  BY DEF Init, KernelInit, BacklogInv
<1>2. LoopIInv /\ BacklogInv /\ [Next]_vars => BacklogInv'
  BY BacklogStep, DescriptorsLast
<1>3. LoopIInv /\ BacklogInv => NoLostWakeup
  <2>1. SUFFICES ASSUME LoopIInv, BacklogInv, pc # "abort" PROVE NoLostWakeup
    BY DEF NoLostWakeup
  <2>2. ASSUME NEW fd \in Fds, Revents(fd) # {} PROVE Attended(fd)
    BY <2>1, <2>2, ReventsAre DEF LoopIInv, WakeupInv
  <2>3. QED
    BY <2>1, <2>2 DEF NoLostWakeup, BacklogInv, InBatch
<1>4. QED
  BY <1>1, <1>2, <1>3, LoopInvariance, PTL DEF Spec

-----------------------------------------------------------------------------
(* epoll.c closes only what is reset, or shut down and read to the end.    *)
LEMMA ClosingStep ==
    ASSUME LoopIInv, [Next]_vars, NEW c \in Clients, phase[c] # "closed", phase'[c] = "closed"
    PROVE  phase[c] = "reset" \/ (phase[c] = "shut" /\ taken[c] = wrote[c])
PROOF
<1>1. ASSUME NEW e \in batch, HandleError(e) PROVE phase[c] = "reset"
  <2>1. phase' = [phase EXCEPT ![peer[e.fd]] = "closed"]
    BY <1>1 DEF HandleError, Close
  <2>2. c = peer[e.fd]
    BY <2>1 DEF LoopIInv, TypeOK, KernelTypeOK
  <2>3. QED
    BY <1>1, <2>2, HandleErrorInv
<1>2. ASSUME CloseConnection
      PROVE  phase[c] = "reset" \/ (phase[c] = "shut" /\ taken[c] = wrote[c])
  <2>1. phase' = [phase EXCEPT ![peer[cur]] = "closed"] /\ pc = "close"
    BY <1>2 DEF CloseConnection, Close
  <2>2. c = peer[cur]
    BY <2>1 DEF LoopIInv, TypeOK, KernelTypeOK
  <2>3. QED
    BY <2>1, <2>2 DEF LoopIInv, LoopInv
<1>3. CASE Environment
  <2>1. PICK d \in Clients : ClientStep(d) /\ UNCHANGED process
    BY <1>3 DEF Environment
  <2>2. phase'[c] \in {"open", "shut", "reset"} \/ phase'[c] = phase[c]
    BY <2>1, ClientFrame DEF Connected
  <2>3. QED
    BY <2>2
<1>4. CASE \/ CreateAndBind \/ StartListening \/ EpollWait \/ AcceptNext \/ AcceptEnds
           \/ ReadSome \/ ReadEnds \/ Write \/ UNCHANGED vars
           \/ \E e \in batch : HandleListen(e) \/ HandleData(e)
  <2>1. UNCHANGED phase
    BY <1>4
    DEF CreateAndBind, StartListening, EpollWait, AcceptNext, AcceptEnds, ReadSome, ReadEnds,
        Write, HandleListen, HandleData, vars, kernel, sockets
  <2>2. QED
    BY <2>1
<1>5. QED
  BY <1>1, <1>2, <1>3, <1>4 DEF Next, Server

THEOREM ReadBeforeClose == Spec => ClosesOnlyRead
PROOF
<1>1. LoopIInv /\ [Next]_vars =>
        [\A c \in Clients : phase[c] # "closed" /\ phase'[c] = "closed" =>
              \/ phase[c] = "reset"
              \/ phase[c] = "shut" /\ taken[c] = wrote[c]]_vars
  BY ClosingStep
<1>2. QED
  BY <1>1, LoopInvariance, PTL DEF Spec, ClosesOnlyRead

-----------------------------------------------------------------------------
(* The output, client by client: the first n bytes of c, and no others, in *)
(* the order they were written.                                            *)
Complete(out, c, n) == \A m \in 1..n : \E i \in DOMAIN out : out[i] = Byte(c, m)
InOrder(out, c, n)  ==
    \A i \in DOMAIN out : out[i].from = c =>
        /\ out[i].pos \in 1..n
        /\ \A j \in 1..(i - 1) : out[j].from = c => out[j].pos < out[i].pos

LEMMA AppendBytes ==
    ASSUME NEW out \in Seq(Bytes), NEW c \in Clients, NEW t \in Nat, NEW n \in Nat \ {0},
           NEW s, s = [k \in 1..n |-> Byte(c, t + k)], s \in Seq(Bytes),
           NEW d \in Clients, NEW m \in Nat, d = c => m = t,
           Complete(out, d, m), InOrder(out, d, m)
    PROVE  LET total == IF d = c THEN t + n ELSE m
           IN  Complete(out \o s, d, total) /\ InOrder(out \o s, d, total)
PROOF
<1> DEFINE all == out \o s
           total == IF d = c THEN t + n ELSE m
<1>1. Len(s) = n /\ \A k \in 1..n : s[k].from = c /\ s[k].pos = t + k
  <2>1. DOMAIN s = 1..n
    OBVIOUS
  <2>2. QED
    BY <2>1, LenProperties DEF Byte
<1>2. Len(out) \in Nat /\ DOMAIN out = 1..Len(out)
  BY LenProperties
<1>3. /\ all \in Seq(Bytes) /\ Len(all) = Len(out) + n /\ DOMAIN all = 1..(Len(out) + n)
      /\ \A i \in 1..Len(out) : all[i] = out[i]
      /\ \A k \in 1..n : all[Len(out) + k] = s[k]
  <2>1. /\ all \in Seq(Bytes) /\ Len(all) = Len(out) + n
        /\ \A i \in 1..(Len(out) + n) :
              all[i] = IF i <= Len(out) THEN out[i] ELSE s[i - Len(out)]
    BY <1>1, ConcatProperties
  <2>2. DOMAIN all = 1..(Len(out) + n)
    BY <2>1, LenProperties
  <2>3. \A i \in 1..Len(out) : all[i] = out[i]
    BY <1>2, <2>1
  <2>4. \A k \in 1..n : all[Len(out) + k] = s[k]
    BY <1>2, <2>1
  <2>5. QED
    BY <2>1, <2>2, <2>3, <2>4
<1> HIDE DEF all
<1>4. Complete(all, d, total)
  <2>1. ASSUME NEW q \in 1..total PROVE \E i \in DOMAIN all : all[i] = Byte(d, q)
    <3>1. CASE q \in 1..m
      <4>1. PICK i \in DOMAIN out : out[i] = Byte(d, q)
        BY <3>1 DEF Complete
      <4>2. i \in DOMAIN all /\ all[i] = Byte(d, q)
        BY <1>2, <1>3, <4>1
      <4>3. QED
        BY <4>2
    <3>2. CASE q \notin 1..m
      <4>1. d = c /\ q \in (t + 1)..(t + n)
        BY <2>1, <3>2
      <4>2. q - t \in 1..n /\ t + (q - t) = q
        BY <4>1
      <4>3. all[Len(out) + (q - t)] = Byte(c, q)
        BY <1>3, <4>2
      <4>4. Len(out) + (q - t) \in DOMAIN all
        BY <1>2, <1>3, <4>2
      <4>5. QED
        BY <4>1, <4>3, <4>4
    <3>3. QED
      BY <3>1, <3>2
  <2>2. QED
    BY <2>1 DEF Complete
<1>5. InOrder(all, d, total)
  <2>1. SUFFICES ASSUME NEW i \in DOMAIN all, all[i].from = d
                 PROVE  /\ all[i].pos \in 1..total
                        /\ \A j \in 1..(i - 1) : all[j].from = d => all[j].pos < all[i].pos
    BY DEF InOrder
  <2>2. \A j \in 1..Len(out) : all[j].from = d => all[j].pos \in 1..m
    BY <1>2, <1>3 DEF InOrder
  <2>3. CASE i \in 1..Len(out)
    <3>1. \A j \in 1..(i - 1) : j \in 1..Len(out) /\ all[j] = out[j]
      BY <1>2, <1>3, <2>3
    <3>2. all[i].pos \in 1..m
      BY <2>1, <2>2, <2>3
    <3>3. \A j \in 1..(i - 1) : all[j].from = d => all[j].pos < all[i].pos
      BY <1>2, <1>3, <2>1, <2>3, <3>1 DEF InOrder
    <3>4. QED
      BY <3>2, <3>3
  <2>4. CASE i \notin 1..Len(out)
    <3>1. PICK k \in 1..n : i = Len(out) + k
      <4>1. i - Len(out) \in 1..n /\ i = Len(out) + (i - Len(out))
        BY <1>2, <1>3, <2>1, <2>4
      <4>2. QED
        BY <4>1
    <3>2. all[i] = s[k] /\ d = c /\ all[i].pos = t + k
      BY <1>1, <1>3, <2>1, <3>1
    <3>3. ASSUME NEW j \in 1..(i - 1), all[j].from = d PROVE all[j].pos < t + k
      <4>1. CASE j \in 1..Len(out)
        <5>1. all[j].pos \in 1..t
          BY <2>2, <3>2, <3>3, <4>1
        <5>2. QED
          BY <3>1, <5>1
      <4>2. CASE j \notin 1..Len(out)
        <5>1. j - Len(out) \in 1..n /\ j - Len(out) < k /\ j = Len(out) + (j - Len(out))
          BY <1>2, <3>1, <3>3, <4>2
        <5>2. all[j].pos = t + (j - Len(out))
          BY <1>1, <1>3, <5>1
        <5>3. QED
          BY <1>2, <5>1, <5>2
      <4>3. QED
        BY <4>1, <4>2
    <3>4. QED
      BY <3>2, <3>3
  <2>5. QED
    BY <2>3, <2>4
<1>6. QED
  BY <1>4, <1>5 DEF all

LEMMA PrintedIs ==
    PrintedInOrder <=>
        \A c \in Clients : Complete(printed \o buf, c, taken[c]) /\ InOrder(printed \o buf, c, taken[c])
BY DEF PrintedInOrder, Complete, InOrder

LEMMA PrintedStep ==
    ASSUME LoopIInv, PrintedInOrder, [Next]_vars
    PROVE  PrintedInOrder'
PROOF
<1>1. buf \in Seq(Bytes) /\ printed \in Seq(Bytes)
  BY DEF LoopIInv, TypeOK
<1>2. printed \o << >> = printed /\ (printed \o buf) \o << >> = printed \o buf
  BY <1>1, ConcatEmptySeq, ConcatProperties
<1>3. CASE UNCHANGED <<taken, printed, buf>>
  BY <1>3 DEF PrintedInOrder
<1>4. CASE Write
  <2>1. UNCHANGED taken /\ (printed' \o buf' = printed \o buf)
    BY <1>2, <1>4 DEF Write, kernel
  <2>2. QED
    BY <2>1 DEF PrintedInOrder
<1>5. CASE ReadSome
  <2> DEFINE c == peer[cur]
  <2>1. PICK n \in Nat \ {0} :
            /\ pc = "read" /\ pc' = "write"
            /\ buf' = [k \in 1..n |-> Byte(c, taken[c] + k)]
            /\ taken' = [taken EXCEPT ![c] = @ + n]
            /\ printed' = printed
    BY <1>5, ReadIs
  <2>2. c \in Clients /\ buf' \in Seq(Bytes) /\ buf = << >>
    BY <1>5, <2>1, HandlerFacts, ReadSomeInv DEF HandlerLabels, LoopIInv, LoopInv, TypeOK
  <2>3. taken \in [Clients -> Nat]
    BY DEF LoopIInv, TypeOK, KernelTypeOK
  <2> HIDE DEF c
  <2>4. ASSUME NEW d \in Clients
        PROVE  Complete(printed \o buf', d, taken'[d]) /\ InOrder(printed \o buf', d, taken'[d])
    <3>1. Complete(printed, d, taken[d]) /\ InOrder(printed, d, taken[d])
      BY <1>2, <2>2, PrintedIs
    <3>2. taken'[d] = IF d = c THEN taken[c] + n ELSE taken[d]
      BY <2>1, <2>2, <2>3
    <3>3. taken[d] \in Nat /\ taken[c] \in Nat
      BY <2>2, <2>3
    <3> DEFINE t == taken[c]
               m == taken[d]
    <3>4. t \in Nat /\ m \in Nat /\ (d = c => m = t)
      BY <3>3
    <3>5. buf' = [k \in 1..n |-> Byte(c, t + k)]
      BY <2>1
    <3>6. Complete(printed, d, m) /\ InOrder(printed, d, m)
      BY <3>1
    <3>7. taken'[d] = IF d = c THEN t + n ELSE m
      BY <3>2
    <3> HIDE DEF t, m
    <3>8. QED
      BY <1>1, <2>1, <2>2, <3>4, <3>5, <3>6, <3>7, AppendBytes
  <2>5. QED
    BY ZenonT(60), <2>1, <2>4 DEF PrintedInOrder, Complete, InOrder
<1>6. CASE Environment
  <2>1. PICK c \in Clients : ClientStep(c) /\ UNCHANGED process
    BY <1>6 DEF Environment
  <2>2. QED
    BY <1>3, <2>1, ClientFrame
<1>7. CASE \/ CreateAndBind \/ StartListening \/ EpollWait \/ AcceptNext \/ AcceptEnds
           \/ ReadEnds \/ CloseConnection \/ UNCHANGED vars
           \/ \E e \in batch : HandleError(e) \/ HandleListen(e) \/ HandleData(e)
  <2>1. UNCHANGED <<taken, printed, buf>>
    BY <1>7
    DEF CreateAndBind, StartListening, EpollWait, AcceptNext, AcceptEnds, ReadEnds, HandleError,
        CloseConnection, HandleListen, HandleData, vars, process, kernel, sockets
  <2>2. QED
    BY <1>3, <2>1
<1>8. QED
  BY <1>4, <1>5, <1>6, <1>7 DEF Next, Server

(* However many clients write in turns: what was read of each is printed,  *)
(* or about to be, once and in the order it was written.                   *)
THEOREM OutputIsInOrder == Spec => []PrintedInOrder
PROOF
<1>1. Init => PrintedInOrder
  <2>1. SUFFICES ASSUME Init PROVE PrintedInOrder
    OBVIOUS
  <2>2. printed \o buf = << >>
    BY <2>1, ConcatEmptySeq, EmptySeq DEF Init
  <2>3. DOMAIN << >> = {}
    OBVIOUS
  <2>4. QED
    BY <2>1, <2>2, <2>3 DEF Init, KernelInit, PrintedInOrder
<1>2. LoopIInv /\ PrintedInOrder /\ [Next]_vars => PrintedInOrder'
  BY PrintedStep
<1>3. QED
  BY <1>1, <1>2, LoopInvariance, PTL DEF Spec
=============================================================================
