-------------------------- MODULE EchoServiceProofs --------------------------
(***************************************************************************)
(* EpollServer (server-3.c) is an EchoService, as long as the kernel takes *)
(* every answer at once and a request is shorter than the buffer, and it   *)
(* stays up while it has a descriptor for every client.  Both are proved   *)
(* for every number of clients, descriptors and events and every size of   *)
(* the buffers and of their elements.                                      *)
(*                                                                         *)
(* The two provisos are about the code: send_sock_data takes the bytes of  *)
(* a second send from the wrong place and gives up an answer on EAGAIN, so *)
(* SndBuf must hold all a client is ever sent; recv_sock_data closes a     *)
(* connection whose request filled the buffer when the FIN is behind it,   *)
(* without answering it, so a request must be shorter.                     *)
(***************************************************************************)
EXTENDS EpollServerProofs, FiniteSetTheorems

AnswersAreTaken  == MaxBytes <= SndBuf
RequestsAreShort == Window < BUFFLEN

-----------------------------------------------------------------------------
(* What the buffers contain.                                               *)

(* All that was read from the connection of fd has been sent back.         *)
Settled(fd) == taken[peer[fd]] = Len(echoed[peer[fd]])

(* The first n bytes of client[fd].data are the answer that is due.        *)
Holds(fd, n) ==
    /\ taken[peer[fd]] = Len(echoed[peer[fd]]) + n
    /\ \A k \in 1..n : data[fd][k] = Byte(peer[fd], Len(echoed[peer[fd]]) + k)

(* recv_sock_data or send_sock_data runs for fd, or what follows them.      *)
Busy(fd) == cur = fd /\ pc \in HandlerLabels

(* What BytesInv says of amounts, EchoInv says of the bytes themselves:    *)
(* between two handlers a connection is settled or its buffer holds the    *)
(* answer, and a handler that has started sending sends all of it at once. *)
EchoInv ==
    /\ EchoIsPrefix
    /\ \A c \in Clients :
        /\ wrote[c] <= MaxBytes
        /\ phase[c] = "idle" => wrote[c] = 0
        /\ c \in backlog => taken[c] = 0
    /\ \A fd \in Fds :
        /\ interest[fd] = {"IN"} /\ ~Busy(fd) => Settled(fd)
        /\ interest[fd] = {"OUT"} /\ ~Busy(fd) => Holds(fd, data_len[fd])
    /\ pc = "recv" => Holds(cur, cnt) /\ (cnt = 0 \/ cnt >= BUFFLEN)
    /\ pc = "rearmOut" => Holds(cur, data_len[cur])
    /\ pc = "send" => cnt = 0 /\ Holds(cur, data_len[cur])
    /\ pc = "rearmIn" => Settled(cur)

(* A connection that its client merely shut down is only closed when every *)
(* byte of it was sent back.                                               *)
EndInv ==
    pc = "close" /\ phase[peer[cur]] = "shut" => Len(echoed[peer[cur]]) = wrote[peer[cur]]

(* accept is called when a connection waits for it.                        *)
ListenInv == \A e \in batch : e.fd = LISTEN => backlog # {}

-----------------------------------------------------------------------------
(* EchoInv is inductive.                                                   *)

LEMMA InitEcho == Init => EchoInv
PROOF
<1>1. SUFFICES ASSUME Init PROVE EchoInv
  OBVIOUS
<1>2. \A fd \in Fds : interest[fd] = {}
  BY <1>1, KernelAssumption DEF Init, KernelInit, Watched
<1>3. \A c \in Clients : echoed[c] = << >> /\ taken[c] = 0 /\ wrote[c] = 0
  BY <1>1 DEF Init, KernelInit
<1>4. pc = "wait" /\ backlog = {}
  BY <1>1 DEF Init, KernelInit
<1>5. EchoIsPrefix
  BY <1>3 DEF EchoIsPrefix
<1>6. QED
  BY <1>2, <1>3, <1>4, <1>5, KernelAssumption DEF EchoInv

(* Steps that leave the bytes and the registrations alone.                 *)
LEMMA EchoFrame ==
    ASSUME EchoInv, UNCHANGED <<wrote, taken, echoed, peer, interest, cur, cnt, data, data_len>>,
           \A c \in Clients : phase'[c] = "idle" => phase[c] = "idle",
           \A c \in Clients : c \in backlog' => c \in backlog \/ (taken[c] = 0),
           \/ pc' = pc
           \/ pc \in HandlerLabels /\ pc' = "close"
           \/ pc \notin HandlerLabels /\ pc' \notin HandlerLabels
    PROVE  EchoInv'
PROOF
<1>1. EchoIsPrefix'
  BY DEF EchoInv, EchoIsPrefix
<1>2. \A fd : Settled(fd)' = Settled(fd)
  BY DEF Settled
<1>3. \A fd, n : Holds(fd, n)' = Holds(fd, n)
  BY DEF Holds
<1>4. QED
  BY <1>1, <1>2, <1>3 DEF EchoInv, Busy, HandlerLabels

LEMMA ClientEcho ==
    ASSUME NEW c \in Clients, IInv, EchoInv, ClientStep(c), UNCHANGED <<process, buffers>>
    PROVE  EchoInv'
PROOF
<1>1. UNCHANGED <<taken, echoed, peer, interest, pc, cur, cnt, data, data_len>>
  BY DEF ClientStep, Connect, ClientWrite, ClientRead, ClientShutdown, ClientReset, process, buffers
<1>2. CASE Connect(c)
  <2>1. taken[c] = 0
    <3>1. phase[c] = "idle" /\ wrote[c] = 0
      BY <1>2 DEF Connect, EchoInv
    <3>2. taken[c] \in Nat /\ taken[c] <= wrote[c]
      BY DEF IInv, BytesInv, StateTypeOK, KernelTypeOK
    <3>3. QED
      BY <3>1, <3>2
  <2>2. \A d \in Clients : phase'[d] = "idle" => phase[d] = "idle"
    BY <1>2 DEF Connect, IInv, StateTypeOK, KernelTypeOK
  <2>3. UNCHANGED wrote /\ backlog' = backlog \cup {c}
    BY <1>2 DEF Connect
  <2>4. QED
    BY <1>1, <2>1, <2>2, <2>3, EchoFrame
<1>3. CASE ClientWrite(c)
  <2>1. \A d \in Clients : wrote'[d] <= MaxBytes /\ (phase[d] = "idle" => wrote'[d] = 0)
    <3>1. wrote[c] \in Nat /\ wrote'[c] = wrote[c] + 1 /\ wrote[c] < MaxBytes /\ phase[c] = "open"
      BY <1>3 DEF ClientWrite, IInv, StateTypeOK, KernelTypeOK
    <3>2. \A d \in Clients \ {c} : wrote'[d] = wrote[d]
      BY <1>3 DEF ClientWrite, IInv, StateTypeOK, KernelTypeOK
    <3>3. wrote'[c] <= MaxBytes
      BY <3>1, KernelAssumption
    <3>4. QED
      BY <3>1, <3>2, <3>3 DEF EchoInv
  <2>2. UNCHANGED <<phase, backlog>>
    BY <1>3 DEF ClientWrite
  <2>3. EchoIsPrefix'
    BY <1>1 DEF EchoInv, EchoIsPrefix
  <2>4. \A fd : Settled(fd)' = Settled(fd)
    BY <1>1 DEF Settled
  <2>5. \A fd, n : Holds(fd, n)' = Holds(fd, n)
    BY <1>1 DEF Holds
  <2>6. QED
    BY <1>1, <2>1, <2>2, <2>3, <2>4, <2>5 DEF EchoInv, Busy, HandlerLabels
<1>4. CASE ClientRead(c) \/ ClientShutdown(c) \/ ClientReset(c)
  <2>1. UNCHANGED <<wrote, backlog>>
    BY <1>4 DEF ClientRead, ClientShutdown, ClientReset
  <2>2. \A d \in Clients : phase'[d] = "idle" => phase[d] = "idle"
    BY <1>4 DEF ClientRead, ClientShutdown, ClientReset, IInv, StateTypeOK, KernelTypeOK
  <2>3. QED
    BY <1>1, <2>1, <2>2, EchoFrame
<1>5. QED
  BY <1>2, <1>3, <1>4 DEF ClientStep

(* Taking events, and the ways out.                                        *)
LEMMA LoopEcho ==
    ASSUME IInv, EchoInv, EpollWait \/ EpollWaitFails \/ \E e \in batch : HandleListenFails(e)
    PROVE  EchoInv'
PROOF
<1>1. /\ UNCHANGED <<phase, backlog, wrote, taken, echoed, peer, interest, cur, cnt, data, data_len>>
      /\ pc \in {"wait", "dispatch"} /\ pc' \in {"dispatch", "exit"}
  BY DEF EpollWait, EpollWaitFails, HandleListenFails, Take, kernel, sockets, buffers
<1>2. EchoIsPrefix'
  BY <1>1 DEF EchoInv, EchoIsPrefix
<1>3. \A fd : Settled(fd)' = Settled(fd)
  BY <1>1 DEF Settled
<1>4. \A fd, n : Holds(fd, n)' = Holds(fd, n)
  BY <1>1 DEF Holds
<1>5. QED
  BY <1>1, <1>2, <1>3, <1>4 DEF EchoInv, Busy, HandlerLabels

(* A new connection is settled: nothing was read from it.                  *)
LEMMA HandleListenEcho ==
    ASSUME IInv, EchoInv, NEW e \in batch, HandleListen(e)
    PROVE  EchoInv'
PROOF
<1>1. PICK c \in backlog, fd \in Fds : AcceptAndAdd(c, fd, {"IN"})
  BY DEF HandleListen
<1>2. /\ UNCHANGED <<phase, wrote, taken, echoed, cur, cnt, data, data_len>>
      /\ cur = LISTEN
      /\ pc = "dispatch" /\ pc' \in {"wait", "dispatch"}
  BY DEF HandleListen, Take, LoopLabel, buffers, IInv, LoopInv, HandlerLabels
<1>3. /\ backlog' \subseteq backlog
      /\ peer' = [peer EXCEPT ![fd] = c]
      /\ interest' = [interest EXCEPT ![fd] = {"IN"}]
  BY <1>1 DEF AcceptAndAdd, Accept
<1>4. c \in Clients /\ taken[c] = 0
  BY DEF EchoInv, IInv, StateTypeOK, KernelTypeOK
<1>5. \A g \in Fds : IF g = fd THEN peer'[g] = c /\ interest'[g] = {"IN"}
                     ELSE peer'[g] = peer[g] /\ interest'[g] = interest[g]
  BY <1>3 DEF IInv, StateTypeOK, KernelTypeOK, Watched
<1>6. Settled(fd)'
  <2>1. Len(echoed[c]) = 0
    BY <1>4 DEF IInv, BytesInv, StateTypeOK, KernelTypeOK
  <2>2. QED
    BY <1>2, <1>4, <1>5, <2>1 DEF Settled
<1>7. \A g \in Fds \ {fd} : Settled(g)' = Settled(g) /\ \A n : Holds(g, n)' = Holds(g, n)
  BY <1>2, <1>5 DEF Settled, Holds
<1>8. EchoIsPrefix'
  BY <1>2 DEF EchoInv, EchoIsPrefix
<1>9. QED
  <2>1. \A g \in Fds : /\ interest'[g] = {"IN"} => Settled(g)'
                       /\ interest'[g] = {"OUT"} => Holds(g, data_len[g])'
    <3>1. \A g \in Fds \ {fd} : Holds(g, data_len[g])' = Holds(g, data_len[g])
      BY <1>2, <1>7
    <3>2. \A g \in Fds : g # LISTEN
      BY KernelAssumption
    <3>3. QED
      BY <1>2, <1>5, <1>6, <1>7, <3>1, <3>2 DEF EchoInv, Busy, HandlerLabels
  <2>2. QED
    BY <1>2, <1>3, <1>8, <2>1 DEF EchoInv

LEMMA EnterEcho ==
    ASSUME IInv, EchoInv, NEW e \in batch, HandleIn(e) \/ HandleOut(e)
    PROVE  EchoInv'
PROOF
<1>1. /\ UNCHANGED <<phase, backlog, wrote, taken, echoed, peer, interest, cnt, data, data_len>>
      /\ cur = LISTEN /\ cnt = 0 /\ cur' = e.fd /\ pc = "dispatch"
  BY DEF HandleIn, HandleOut, Enter, Take, kernel, buffers, IInv, LoopInv, HandlerLabels
<1>2. e.fd \in Fds /\ e.fd # LISTEN /\ peer[e.fd] \in Clients /\ peer[e.fd] # NoClient
  BY BatchFacts DEF HandleIn, HandleOut, Enter
<1>3. interest[e.fd] \in {{"IN"}, {"OUT"}}
  BY <1>2 DEF IInv, RegistrationInv, LoopInv
<1>4. e.ev \cap {"IN", "OUT"} \subseteq interest[e.fd]
  BY <1>2 DEF IInv, LoopInv
<1>5. \/ pc' = "recv" /\ interest[e.fd] = {"IN"}
      \/ pc' = "send" /\ interest[e.fd] = {"OUT"}
  BY <1>3, <1>4 DEF HandleIn, HandleOut, Enter
<1>6. \A g : Settled(g)' = Settled(g) /\ \A n : Holds(g, n)' = Holds(g, n)
  BY <1>1 DEF Settled, Holds
<1>7. Settled(e.fd) => Holds(e.fd, 0)
  BY <1>2 DEF Settled, Holds, IInv, StateTypeOK, KernelTypeOK
<1>8. EchoIsPrefix'
  BY <1>1 DEF EchoInv, EchoIsPrefix
<1>9. \A g \in Fds : /\ interest[g] = {"IN"} => Settled(g)
                     /\ interest[g] = {"OUT"} => Holds(g, data_len[g])
  BY <1>1, KernelAssumption DEF EchoInv, Busy, HandlerLabels
<1>10. pc' = "recv" => Holds(cur, cnt)' /\ cnt' = 0
  <2>1. Holds(cur, cnt)' = Holds(e.fd, 0)
    BY <1>1 DEF Holds
  <2>2. QED
    BY <1>1, <1>2, <1>5, <1>7, <1>9, <2>1
<1>11. pc' = "send" => Holds(cur, data_len[cur])' /\ cnt' = 0
  <2>1. Holds(cur, data_len[cur])' = Holds(e.fd, data_len[e.fd])
    BY <1>1 DEF Holds
  <2>2. QED
    BY <1>1, <1>2, <1>5, <1>9, <2>1
<1>12. \A g \in Fds : Holds(g, data_len[g])' = Holds(g, data_len[g])
  BY <1>1, <1>6
<1>13. QED
  BY <1>1, <1>5, <1>6, <1>8, <1>9, <1>10, <1>11, <1>12 DEF EchoInv

(* recv: the first one finds the connection settled and an empty buffer,   *)
(* and leaves the answer at its start.  A second one, behind a full read,  *)
(* finds nothing: the client has no more than a buffer in flight.          *)
LEMMA RecvSomeEcho ==
    ASSUME IInv, IInv', EchoInv, RecvSome
    PROVE  EchoInv'
PROOF
<1> DEFINE c == peer[cur]
           n == Min2(Unread(c), BUFFLEN)
<1>1. /\ pc = "recv" /\ pc \in HandlerLabels
      /\ n > 0
      /\ data' = [data EXCEPT ![cur] = [k \in Offsets |->
                     IF At(cnt) < k /\ k <= At(cnt) + n
                     THEN Byte(c, taken[c] + (k - At(cnt))) ELSE @[k]]]
      /\ taken' = [taken EXCEPT ![c] = @ + n]
      /\ cnt' = cnt + n
      /\ \/ pc' = "rearmOut" /\ data_len' = [data_len EXCEPT ![cur] = cnt + n]
         \/ pc' = "recv" /\ n >= BUFFLEN /\ UNCHANGED data_len
      /\ UNCHANGED <<phase, wrote, echoed, drained, backlog, peer, interest, batch, cur>>
  <2>1. n \in Int /\ BUFFLEN \in Int
    <3>1. peer[cur] \in Clients
      BY HandlerFacts DEF RecvSome, HandlerLabels
    <3>2. Unread(c) \in Int
      BY <3>1 DEF Unread, IInv, StateTypeOK, KernelTypeOK
    <3>3. QED
      BY <3>2, ServerAssumption, Min2Is
  <2>2. ~(n < BUFFLEN) => n >= BUFFLEN
    BY <2>1
  <2> HIDE DEF n
  <2>3. QED
    BY <2>2 DEF RecvSome, HandlerLabels, epoll, n
<1>2. /\ cur \in Fds /\ cur # LISTEN /\ c \in Clients
      /\ \A fd \in Fds : fd # cur /\ peer[fd] # NoClient => peer[fd] # c
  BY <1>1, HandlerFacts
<1>3. /\ wrote[c] \in Nat /\ taken[c] \in Nat /\ Len(echoed[c]) \in Nat /\ cnt \in Nat
      /\ BUFFLEN \in Nat /\ Stride \in Nat /\ Window \in Nat /\ Window <= BUFFLEN
  BY <1>2, ServerAssumption, KernelAssumption DEF IInv, StateTypeOK, KernelTypeOK, LoopTypeOK
<1>4. /\ taken[c] = Len(echoed[c]) + cnt
      /\ cnt = 0 \/ cnt >= BUFFLEN
      /\ wrote[c] <= Len(echoed[c]) + Window
  BY <1>1, <1>2 DEF IInv, BytesInv, EchoInv, Holds
<1>5. n \in Nat /\ n <= wrote[c] - taken[c] /\ n <= BUFFLEN
  <2>1. Unread(c) = wrote[c] - taken[c] /\ Unread(c) \in Int
    BY <1>3 DEF Unread
  <2>2. n \in Int /\ n <= Unread(c) /\ n <= BUFFLEN
    <3>1. Unread(c) \in Int /\ BUFFLEN \in Int
      BY <1>3, <2>1
    <3>2. QED
      BY <3>1, Min2Is
  <2>3. QED
    BY <1>1, <2>1, <2>2
<1> HIDE DEF n
<1>6. cnt = 0
  BY <1>1, <1>3, <1>4, <1>5
<1>7. At(cnt) = 0
  BY <1>3, <1>6 DEF At
<1>8. \A k \in 1..n : k \in Offsets /\ data'[cur][k] = Byte(c, Len(echoed[c]) + k)
  <2>1. TAKE k \in 1..n
  <2>2. k \in Offsets
    <3>1. At(0) \in Nat /\ At(0) + BUFFLEN <= Stride * BUFFLEN
      BY <1>3, AtFits
    <3>2. At(0) = 0
      BY <1>6, <1>7
    <3>3. Stride * BUFFLEN \in Nat
      BY <1>3
    <3>4. QED
      BY <1>3, <1>5, <3>1, <3>2, <3>3 DEF Offsets
  <2>3. data'[cur] = [j \in Offsets |->
                        IF 0 < j /\ j <= 0 + n
                        THEN Byte(c, taken[c] + (j - 0)) ELSE data[cur][j]]
    BY <1>1, <1>2, <1>7 DEF IInv, StateTypeOK, BuffersTypeOK
  <2>4. data'[cur][k] = Byte(c, taken[c] + (k - 0))
    <3>1. 0 < k /\ k <= 0 + n
      BY <1>5
    <3>2. QED
      BY <2>2, <2>3, <3>1
  <2>5. taken[c] + (k - 0) = Len(echoed[c]) + k
    BY <1>3, <1>4, <1>6
  <2>6. QED
    BY <2>2, <2>4, <2>5
<1>9. taken'[c] = Len(echoed[c]) + n /\ \A d \in Clients \ {c} : taken'[d] = taken[d]
  BY <1>1, <1>2, <1>3, <1>4, <1>6 DEF IInv, StateTypeOK, KernelTypeOK
<1>10. cnt' = n
  BY <1>1, <1>5, <1>6
<1>11. \A fd \in Fds \ {cur} : data'[fd] = data[fd] /\ data_len'[fd] = data_len[fd]
  BY <1>1, <1>2 DEF IInv, StateTypeOK, BuffersTypeOK
<1>12. \A fd \in Fds \ {cur} : peer[fd] # NoClient =>
           Settled(fd)' = Settled(fd) /\ Holds(fd, data_len[fd])' = Holds(fd, data_len[fd])
  <2>1. TAKE fd \in Fds \ {cur}
  <2>2. HAVE peer[fd] # NoClient
  <2>3. peer[fd] \in Clients \ {c}
    BY <1>2, <2>2 DEF IInv, StateTypeOK, KernelTypeOK
  <2>4. UNCHANGED <<peer, echoed>> /\ data'[fd] = data[fd] /\ data_len'[fd] = data_len[fd]
    BY <1>1, <1>11
  <2>5. QED
    BY <1>9, <2>3, <2>4 DEF Settled, Holds
<1>13. \A fd \in Fds : /\ interest'[fd] = {"IN"} /\ ~Busy(fd)' => Settled(fd)'
                       /\ interest'[fd] = {"OUT"} /\ ~Busy(fd)' => Holds(fd, data_len[fd])'
  <2>1. \A fd \in Fds : interest[fd] # {} => peer[fd] # NoClient
    BY DEF IInv, RegistrationInv
  <2>2. {"IN"} # {} /\ {"OUT"} # {}
    OBVIOUS
  <2>3. UNCHANGED <<interest, cur>>
    BY <1>1
  <2>4. \A fd : ~Busy(fd)' => fd # cur /\ ~Busy(fd)
    BY <1>1 DEF Busy, HandlerLabels
  <2>5. QED
    BY <1>12, <2>1, <2>2, <2>3, <2>4 DEF EchoInv
<1>14. pc' = "rearmOut" => Holds(cur, data_len[cur])'
  <2>1. pc' = "rearmOut" => data_len'[cur] = n
    BY <1>1, <1>2, <1>5, <1>6 DEF IInv, StateTypeOK, BuffersTypeOK
  <2>2. QED
    BY <1>1, <1>8, <1>9, <2>1 DEF Holds
<1>15. pc' = "recv" => Holds(cur, cnt)' /\ cnt' >= BUFFLEN
  <2>1. Holds(cur, cnt)'
    BY <1>1, <1>8, <1>9, <1>10 DEF Holds
  <2>2. QED
    BY <1>1, <1>10, <2>1
<1>16. \A d \in Clients : d \in backlog' => taken'[d] = 0
  <2>1. c \notin backlog
    BY <1>1, <1>2, HandlerFacts DEF IInv, RegistrationInv
  <2>2. QED
    BY <1>1, <1>9, <2>1 DEF EchoInv
<1>17. EchoIsPrefix' /\ UNCHANGED <<wrote, phase>>
  BY <1>1 DEF EchoInv, EchoIsPrefix
<1>18. pc' \notin {"send", "rearmIn"}
  BY <1>1
<1>19. QED
  BY <1>13, <1>14, <1>15, <1>16, <1>17, <1>18 DEF EchoInv

LEMMA RecvEndsEcho ==
    ASSUME IInv, EchoInv, RecvEnds
    PROVE  EchoInv'
PROOF
<1>1. /\ pc = "recv" /\ pc \in HandlerLabels
      /\ pc' \in {"rearmOut", "close"}
      /\ data_len' = [data_len EXCEPT ![cur] = cnt]
      /\ UNCHANGED <<phase, backlog, wrote, taken, echoed, peer, interest, cur, cnt, data>>
  BY DEF RecvEnds, HandlerLabels, kernel
<1>2. cur \in Fds
  BY <1>1, HandlerFacts
<1>3. data_len'[cur] = cnt /\ \A fd \in Fds \ {cur} : data_len'[fd] = data_len[fd]
  BY <1>1, <1>2 DEF IInv, StateTypeOK, BuffersTypeOK
<1>4. \A fd, n : Holds(fd, n)' = Holds(fd, n)
  BY <1>1 DEF Holds
<1>5. \A fd : Settled(fd)' = Settled(fd)
  BY <1>1 DEF Settled
<1>6. Holds(cur, cnt)
  BY <1>1 DEF EchoInv
<1>7. Holds(cur, data_len[cur])'
  BY <1>1, <1>3, <1>6 DEF Holds
<1>8. \A fd \in Fds \ {cur} : Holds(fd, data_len[fd])' = Holds(fd, data_len[fd])
  BY <1>1, <1>3 DEF Holds
<1>9. EchoIsPrefix'
  BY <1>1 DEF EchoInv, EchoIsPrefix
<1>10. \A fd \in Fds : /\ interest'[fd] = {"IN"} /\ ~Busy(fd)' => Settled(fd)'
                       /\ interest'[fd] = {"OUT"} /\ ~Busy(fd)' => Holds(fd, data_len[fd])'
  BY <1>1, <1>5, <1>8 DEF EchoInv, Busy, HandlerLabels
<1>11. QED
  BY <1>1, <1>7, <1>9, <1>10 DEF EchoInv

(* Arming for EPOLLOUT with the answer in the buffer, for EPOLLIN when the *)
(* connection is settled.                                                  *)
LEMMA RearmEcho ==
    ASSUME IInv, EchoInv, RearmOut \/ RearmIn
    PROVE  EchoInv'
PROOF
<1>1. /\ pc \in HandlerLabels
      /\ \/ interest' = [interest EXCEPT ![cur] = {"OUT"}] /\ Holds(cur, data_len[cur])
         \/ interest' = [interest EXCEPT ![cur] = {"IN"}] /\ Settled(cur)
      /\ cur' = LISTEN
      /\ pc' \in {"wait", "dispatch"}
      /\ UNCHANGED <<phase, backlog, wrote, taken, echoed, peer, data, data_len>>
  BY DEF RearmOut, RearmIn, EpollMod, Leave, LoopLabel, HandlerLabels, EchoInv, sockets, buffers
<1>2. cur \in Fds
  BY <1>1, HandlerFacts
<1>3. \A fd \in Fds \ {cur} : interest'[fd] = interest[fd]
  BY <1>1 DEF IInv, StateTypeOK, KernelTypeOK, Watched
<1>4. \/ interest'[cur] = {"OUT"} /\ Holds(cur, data_len[cur])
      \/ interest'[cur] = {"IN"} /\ Settled(cur)
  BY <1>1, <1>2 DEF IInv, StateTypeOK, KernelTypeOK, Watched
<1>5. \A fd \in Fds : Settled(fd)' = Settled(fd) /\ Holds(fd, data_len[fd])' = Holds(fd, data_len[fd])
  BY <1>1 DEF Settled, Holds
<1>6. EchoIsPrefix'
  BY <1>1 DEF EchoInv, EchoIsPrefix
<1>7. \A fd \in Fds : /\ interest'[fd] = {"IN"} => Settled(fd)
                      /\ interest'[fd] = {"OUT"} => Holds(fd, data_len[fd])
  BY <1>3, <1>4 DEF EchoInv, Busy, HandlerLabels
<1>8. QED
  BY <1>1, <1>5, <1>6, <1>7 DEF EchoInv

(* What send_sock_data does to the connection of cur, when the kernel has  *)
(* room for all that a client is ever sent: one send takes the answer.     *)
LEMMA SendsWholeAnswer ==
    ASSUME AnswersAreTaken, IInv, EchoInv, SendSome
    PROVE  /\ pc' = "rearmIn"
           /\ peer[cur] \in Clients
           /\ phase[peer[cur]] \in {"open", "shut"}
           /\ taken[peer[cur]] \in (Len(echoed[peer[cur]]) + 1)..wrote[peer[cur]]
           /\ echoed' = [echoed EXCEPT ![peer[cur]] =
                            [k \in 1..taken[peer[cur]] |-> Byte(peer[cur], k)]]
PROOF
<1> DEFINE c == peer[cur]
           n == Min2(Room(c), data_len[cur] - cnt)
<1>1. /\ pc = "send" /\ pc \in HandlerLabels
      /\ phase[c] # "reset"
      /\ Room(c) > 0
      /\ echoed' = [echoed EXCEPT ![c] = AppendFrom(@, cur, n)]
      /\ pc' = IF n = 0 THEN "close" ELSE IF cnt + n = data_len[cur] THEN "rearmIn" ELSE "send"
  BY DEF SendSome, HandlerLabels
<1>2. cur \in Fds /\ c \in Clients /\ Connected(c)
  BY <1>1, HandlerFacts
<1>3. /\ Len(echoed[c]) \in Nat /\ taken[c] \in Nat /\ wrote[c] \in Nat /\ drained[c] \in Nat
      /\ data_len[cur] \in Nat /\ SndBuf \in Nat /\ BUFFLEN \in Nat /\ MaxBytes \in Nat
  BY <1>2, KernelAssumption, ServerAssumption
  DEF IInv, StateTypeOK, KernelTypeOK, BuffersTypeOK
<1>4. /\ cnt = 0
      /\ 0 < data_len[cur] /\ data_len[cur] <= BUFFLEN
      /\ taken[c] <= wrote[c] /\ wrote[c] <= MaxBytes /\ MaxBytes <= SndBuf
  <2>1. cnt = 0
    BY <1>1 DEF EchoInv
  <2>2. cnt < data_len[cur] /\ data_len[cur] <= BUFFLEN /\ taken[c] <= wrote[c]
    BY <1>1, <1>2 DEF IInv, BytesInv
  <2>3. wrote[c] <= MaxBytes
    BY <1>2 DEF EchoInv
  <2>4. QED
    BY <2>1, <2>2, <2>3 DEF AnswersAreTaken
<1>5. /\ taken[c] = Len(echoed[c]) + data_len[cur]
      /\ \A k \in 1..data_len[cur] : data[cur][k] = Byte(c, Len(echoed[c]) + k)
  BY <1>1 DEF EchoInv, Holds
<1>6. n = data_len[cur]
  <2>1. Room(c) = SndBuf - (Len(echoed[c]) - drained[c])
    BY DEF Room
  <2>2. Room(c) \in Int /\ Room(c) >= data_len[cur]
    <3>1. Len(echoed[c]) + data_len[cur] <= SndBuf
      BY <1>3, <1>4, <1>5
    <3>2. SndBuf - (Len(echoed[c]) - drained[c]) >= SndBuf - Len(echoed[c])
      BY <1>3
    <3>3. QED
      BY SMTT(30), <1>3, <2>1, <3>1, <3>2
  <2>3. data_len[cur] - cnt = data_len[cur]
    BY <1>3, <1>4
  <2>4. Min2(Room(c), data_len[cur]) = data_len[cur]
    BY <1>3, <2>2 DEF Min2
  <2>5. QED
    BY <2>3, <2>4
<1> HIDE DEF n
<1>7. At(cnt) = 0
  BY <1>4, ServerAssumption DEF At
<1>8. AppendFrom(echoed[c], cur, n) = [k \in 1..taken[c] |-> Byte(c, k)]
  <2>1. ASSUME NEW k \in 1..taken[c]
        PROVE  (IF k <= Len(echoed[c]) THEN echoed[c][k]
                ELSE data[cur][At(cnt) + (k - Len(echoed[c]))]) = Byte(c, k)
    <3>1. CASE k <= Len(echoed[c])
      <4>1. k \in DOMAIN echoed[c]
        <5>1. echoed[c] \in Seq(Bytes)
          BY <1>2 DEF IInv, StateTypeOK, KernelTypeOK
        <5>2. k \in 1..Len(echoed[c])
          BY <1>3, <2>1, <3>1
        <5>3. QED
          BY <5>1, <5>2
      <4>2. QED
        BY <1>2, <3>1, <4>1 DEF EchoInv, EchoIsPrefix
    <3>2. CASE k > Len(echoed[c])
      <4>1. At(cnt) + (k - Len(echoed[c])) = k - Len(echoed[c])
        BY <1>3, <1>7, <2>1
      <4>2. k - Len(echoed[c]) \in 1..data_len[cur]
        BY <1>3, <1>5, <2>1, <3>2
      <4>3. Len(echoed[c]) + (k - Len(echoed[c])) = k
        BY <1>3, <2>1
      <4>4. data[cur][k - Len(echoed[c])] = Byte(c, k)
        BY <1>5, <4>2, <4>3
      <4>5. ~(k <= Len(echoed[c]))
        BY <1>3, <2>1, <3>2
      <4>6. QED
        BY <4>1, <4>4, <4>5
    <3>3. QED
      BY <1>3, <2>1, <3>1, <3>2
  <2>2. 1..(Len(echoed[c]) + n) = 1..taken[c]
    BY <1>5, <1>6
  <2>3. QED
    BY <2>1, <2>2 DEF AppendFrom
<1>9. pc' = "rearmIn"
  <2>1. n # 0 /\ cnt + n = data_len[cur]
    BY <1>3, <1>4, <1>6
  <2>2. QED
    BY <1>1, <2>1
<1>10. taken[c] \in (Len(echoed[c]) + 1)..wrote[c]
  BY <1>3, <1>4, <1>5
<1>11. echoed' = [echoed EXCEPT ![c] = [k \in 1..taken[c] |-> Byte(c, k)]]
  BY <1>1, <1>8
<1>12. phase[c] \in {"open", "shut"}
  BY <1>1, <1>2 DEF Connected
<1>13. QED
  BY <1>2, <1>9, <1>10, <1>11, <1>12

LEMMA SendSomeEcho ==
    ASSUME AnswersAreTaken, IInv, EchoInv, SendSome
    PROVE  EchoInv'
PROOF
<1> DEFINE c == peer[cur]
<1>1. /\ pc = "send" /\ pc' = "rearmIn"
      /\ UNCHANGED <<phase, wrote, taken, backlog, peer, interest, cur, data, data_len>>
      /\ echoed' = [echoed EXCEPT ![c] = [k \in 1..taken[c] |-> Byte(c, k)]]
  BY SendsWholeAnswer DEF SendSome, epoll, buffers
<1>2. /\ cur \in Fds /\ c \in Clients
      /\ \A fd \in Fds : fd # cur /\ peer[fd] # NoClient => peer[fd] # c
  BY <1>1, HandlerFacts DEF HandlerLabels
<1>3. /\ echoed'[c] = [k \in 1..taken[c] |-> Byte(c, k)]
      /\ \A d \in Clients \ {c} : echoed'[d] = echoed[d]
  BY <1>1, <1>2 DEF IInv, StateTypeOK, KernelTypeOK
<1>4. EchoIsPrefix'
  <2>1. \A i \in DOMAIN echoed'[c] : echoed'[c][i] = Byte(c, i)
    BY <1>3
  <2>2. ASSUME NEW d \in Clients \ {c}
        PROVE  \A i \in DOMAIN echoed'[d] : echoed'[d][i] = Byte(d, i)
    BY <1>3, <2>2 DEF EchoInv, EchoIsPrefix
  <2>3. ASSUME NEW d \in Clients
        PROVE  \A i \in DOMAIN echoed'[d] : echoed'[d][i] = Byte(d, i)
    BY <2>1, <2>2
  <2>4. QED
    BY <2>3 DEF EchoIsPrefix
<1>5. Settled(cur)'
  <2>1. taken[c] \in Nat
    BY <1>2 DEF IInv, StateTypeOK, KernelTypeOK
  <2>2. Len(echoed'[c]) = taken[c]
    BY <1>3, <2>1
  <2>3. QED
    BY <1>1, <2>2 DEF Settled
<1>6. \A fd \in Fds \ {cur} : peer[fd] # NoClient =>
          Settled(fd)' = Settled(fd) /\ Holds(fd, data_len[fd])' = Holds(fd, data_len[fd])
  <2>1. TAKE fd \in Fds \ {cur}
  <2>2. HAVE peer[fd] # NoClient
  <2>3. peer[fd] \in Clients \ {c}
    BY <1>2, <2>2 DEF IInv, StateTypeOK, KernelTypeOK
  <2>4. QED
    BY <1>1, <1>3, <2>3 DEF Settled, Holds
<1>7. \A fd \in Fds : /\ interest'[fd] = {"IN"} /\ ~Busy(fd)' => Settled(fd)'
                      /\ interest'[fd] = {"OUT"} /\ ~Busy(fd)' => Holds(fd, data_len[fd])'
  <2>1. \A fd \in Fds : interest[fd] # {} => peer[fd] # NoClient
    BY DEF IInv, RegistrationInv
  <2>2. {"IN"} # {} /\ {"OUT"} # {}
    OBVIOUS
  <2>3. QED
    BY <1>1, <1>6, <2>1, <2>2 DEF EchoInv, Busy, HandlerLabels
<1>8. QED
  BY <1>1, <1>4, <1>5, <1>7 DEF EchoInv

(* EAGAIN never happens: there is an answer, and there is room for it.     *)
LEMMA SendFailsEcho ==
    ASSUME AnswersAreTaken, IInv, EchoInv, SendFails
    PROVE  EchoInv' /\ pc' = "close" /\ phase[peer[cur]] = "reset"
PROOF
<1> DEFINE c == peer[cur]
<1>1. /\ pc = "send" /\ pc \in HandlerLabels
      /\ UNCHANGED <<kernel, batch, cur, cnt, buffers>>
      /\ \/ Room(c) = 0 /\ phase[c] # "reset" /\ pc' = "rearmIn"
         \/ phase[c] = "reset" /\ pc' = "close"
  BY DEF SendFails, HandlerLabels
<1>2. cur \in Fds /\ c \in Clients
  BY <1>1, HandlerFacts
<1>3. Room(c) # 0
  <2>1. /\ Len(echoed[c]) \in Nat /\ taken[c] \in Nat /\ wrote[c] \in Nat /\ drained[c] \in Nat
        /\ data_len[cur] \in Nat /\ SndBuf \in Nat /\ MaxBytes \in Nat
    BY <1>2, KernelAssumption DEF IInv, StateTypeOK, KernelTypeOK, BuffersTypeOK
  <2>2. taken[c] = Len(echoed[c]) + data_len[cur] /\ cnt = 0
    BY <1>1 DEF EchoInv, Holds
  <2>3. data_len[cur] > 0 /\ taken[c] <= wrote[c] /\ wrote[c] <= SndBuf
    <3>1. cnt < data_len[cur] /\ taken[c] <= wrote[c]
      BY <1>1, <1>2 DEF IInv, BytesInv
    <3>2. wrote[c] <= MaxBytes
      BY <1>2 DEF EchoInv
    <3>3. QED
      BY <2>1, <2>2, <3>1, <3>2 DEF AnswersAreTaken
  <2>4. Room(c) = SndBuf - (Len(echoed[c]) - drained[c])
    BY DEF Room
  <2>5. QED
    BY SMTT(30), <2>1, <2>2, <2>3, <2>4
<1>4. phase[c] = "reset" /\ pc' = "close"
  BY <1>1, <1>3
<1>5. UNCHANGED <<phase, backlog, wrote, taken, echoed, peer, interest, cur, cnt, data, data_len>>
  BY <1>1 DEF kernel, buffers
<1>6. EchoInv'
  BY <1>1, <1>4, <1>5, EchoFrame
<1>7. QED
  BY <1>4, <1>6

LEMMA CloseClientEcho ==
    ASSUME IInv, EchoInv, CloseClient
    PROVE  EchoInv'
PROOF
<1>1. /\ pc = "close" /\ pc \in HandlerLabels
      /\ phase' = [phase EXCEPT ![peer[cur]] = "closed"]
      /\ peer' = [peer EXCEPT ![cur] = NoClient]
      /\ interest' = [interest EXCEPT ![cur] = {}]
      /\ cur' = LISTEN
      /\ pc' \in {"wait", "dispatch"}
      /\ UNCHANGED <<wrote, taken, echoed, backlog, data, data_len>>
  BY DEF CloseClient, Close, Leave, LoopLabel, HandlerLabels, buffers
<1>2. cur \in Fds
  BY <1>1, HandlerFacts
<1>3. /\ \A fd \in Fds \ {cur} : peer'[fd] = peer[fd] /\ interest'[fd] = interest[fd]
      /\ interest'[cur] = {}
  BY <1>1, <1>2 DEF IInv, StateTypeOK, KernelTypeOK, Watched
<1>4. \A d \in Clients : phase'[d] = "idle" => phase[d] = "idle"
  BY <1>1 DEF IInv, StateTypeOK, KernelTypeOK
<1>5. \A fd \in Fds \ {cur} :
          Settled(fd)' = Settled(fd) /\ Holds(fd, data_len[fd])' = Holds(fd, data_len[fd])
  BY <1>1, <1>3 DEF Settled, Holds
<1>6. EchoIsPrefix'
  BY <1>1 DEF EchoInv, EchoIsPrefix
<1>7. \A fd \in Fds : /\ interest'[fd] = {"IN"} /\ ~Busy(fd)' => Settled(fd)'
                      /\ interest'[fd] = {"OUT"} /\ ~Busy(fd)' => Holds(fd, data_len[fd])'
  <2>1. {"IN"} # {} /\ {"OUT"} # {}
    OBVIOUS
  <2>2. QED
    BY <1>3, <1>5, <2>1 DEF EchoInv, Busy, HandlerLabels
<1>8. QED
  BY <1>1, <1>4, <1>6, <1>7 DEF EchoInv

LEMMA HandlerEcho ==
    ASSUME AnswersAreTaken, IInv, IInv', EchoInv, Handler
    PROVE  EchoInv'
PROOF
<1>1. CASE RecvSome \/ RecvEnds \/ RearmOut
  BY <1>1, RecvSomeEcho, RecvEndsEcho, RearmEcho
<1>2. CASE SendSome \/ SendFails \/ RearmIn \/ CloseClient
  BY <1>2, SendSomeEcho, SendFailsEcho, RearmEcho, CloseClientEcho
<1>3. QED
  BY <1>1, <1>2 DEF Handler

LEMMA EnvironmentEcho ==
    ASSUME IInv, EchoInv, Environment
    PROVE  EchoInv'
PROOF
<1>1. PICK c \in Clients : ClientStep(c) /\ UNCHANGED <<process, buffers>>
  BY DEF Environment
<1>2. QED
  BY <1>1, ClientEcho

LEMMA StutterEcho ==
    ASSUME EchoInv, UNCHANGED vars
    PROVE  EchoInv'
PROOF
<1>1. UNCHANGED <<phase, backlog, wrote, taken, echoed, peer, interest,
                  pc, cur, cnt, data, data_len>>
  BY DEF vars, kernel, process, buffers
<1>2. QED
  BY <1>1, EchoFrame

LEMMA NextEcho ==
    ASSUME AnswersAreTaken, IInv, IInv', EchoInv, [Next]_vars
    PROVE  EchoInv'
PROOF
<1>1. CASE Environment
  BY <1>1, EnvironmentEcho
<1>2. CASE EpollWait \/ EpollWaitFails
  BY <1>2, LoopEcho
<1>3. ASSUME NEW e \in batch,
             HandleListen(e) \/ HandleListenFails(e) \/ HandleIn(e) \/ HandleOut(e)
      PROVE  EchoInv'
  BY <1>3, HandleListenEcho, LoopEcho, EnterEcho
<1>4. CASE Handler
  BY <1>4, HandlerEcho
<1>5. CASE UNCHANGED vars
  BY <1>5, StutterEcho
<1>6. QED
  BY <1>1, <1>2, <1>3, <1>4, <1>5 DEF Next, Server, Working, Dispatch

-----------------------------------------------------------------------------
(* EndInv is inductive.                                                    *)

LEMMA RecvEndsAtEnd ==
    ASSUME RequestsAreShort, IInv, EchoInv, RecvEnds
    PROVE  EndInv'
PROOF
<1> DEFINE c == peer[cur]
<1>1. /\ pc = "recv" /\ pc \in HandlerLabels
      /\ UNCHANGED <<phase, wrote, taken, echoed, peer, cur>>
      /\ pc' = "close" /\ phase[c] = "shut" => Unread(c) = 0
  BY DEF RecvEnds, HandlerLabels, kernel
<1>2. cur \in Fds /\ c \in Clients
  BY <1>1, HandlerFacts
<1>3. /\ wrote[c] \in Nat /\ taken[c] \in Nat /\ Len(echoed[c]) \in Nat /\ cnt \in Nat
      /\ BUFFLEN \in Nat /\ Window \in Nat
  BY <1>2, ServerAssumption, KernelAssumption DEF IInv, StateTypeOK, KernelTypeOK, LoopTypeOK
<1>4. /\ taken[c] = Len(echoed[c]) + cnt
      /\ cnt = 0 \/ cnt >= BUFFLEN
      /\ wrote[c] <= Len(echoed[c]) + Window
      /\ Window < BUFFLEN
  BY <1>1, <1>2 DEF EchoInv, Holds, IInv, BytesInv, RequestsAreShort
<1>5. Unread(c) = 0 => wrote[c] = taken[c]
  BY <1>3 DEF Unread
<1>6. Unread(c) = 0 => Len(echoed[c]) = wrote[c]
  BY <1>3, <1>4, <1>5
<1>7. QED
  BY <1>1, <1>6 DEF EndInv

LEMMA EnvironmentAtEnd ==
    ASSUME IInv, EndInv, Environment
    PROVE  EndInv'
PROOF
<1>1. PICK c \in Clients : ClientStep(c) /\ UNCHANGED <<process, buffers>>
  BY DEF Environment
<1>2. /\ UNCHANGED <<pc, cur, peer, echoed>>
      /\ \A d \in Clients : \/ wrote'[d] = wrote[d]
                            \/ phase[d] = "open" /\ phase'[d] = "open"
      /\ \A d \in Clients : phase'[d] = "shut" => phase[d] \in {"open", "shut"}
  BY <1>1 DEF ClientStep, Connect, ClientWrite, ClientRead, ClientShutdown, ClientReset,
              process, IInv, StateTypeOK, KernelTypeOK
<1>3. pc = "close" => peer[cur] \in Clients /\ phase[peer[cur]] \in {"shut", "reset"}
  BY HandlerFacts DEF HandlerLabels, IInv, LoopInv
<1>4. QED
  BY <1>2, <1>3 DEF EndInv

LEMMA HandlerAtEnd ==
    ASSUME AnswersAreTaken, RequestsAreShort, IInv, EchoInv, Handler
    PROVE  EndInv'
PROOF
<1>1. CASE RecvEnds
  BY <1>1, RecvEndsAtEnd
<1>2. CASE SendSome
  BY <1>2, SendsWholeAnswer DEF EndInv
<1>3. CASE SendFails
  <2>1. pc' = "close" /\ phase[peer[cur]] = "reset"
    BY <1>3, SendFailsEcho
  <2>2. UNCHANGED <<phase, peer, cur>>
    BY <1>3 DEF SendFails, kernel
  <2>3. QED
    BY <2>1, <2>2 DEF EndInv
<1>4. CASE RecvSome \/ RearmOut \/ RearmIn \/ CloseClient
  BY <1>4 DEF RecvSome, RearmOut, RearmIn, CloseClient, Leave, LoopLabel, EndInv
<1>5. QED
  BY <1>1, <1>2, <1>3, <1>4 DEF Handler

LEMMA NextAtEnd ==
    ASSUME AnswersAreTaken, RequestsAreShort, IInv, EchoInv, EndInv, [Next]_vars
    PROVE  EndInv'
PROOF
<1>1. CASE Environment
  BY <1>1, EnvironmentAtEnd
<1>2. CASE Handler
  BY <1>2, HandlerAtEnd
<1>3. CASE Server /\ ~Handler
  BY <1>3
  DEF Server, Working, Dispatch, EpollWait, EpollWaitFails, HandleListen,
      HandleListenFails, HandleIn, HandleOut, Enter, LoopLabel, EndInv
<1>4. CASE UNCHANGED vars
  BY <1>4 DEF EndInv, vars, kernel, process
<1>5. QED
  BY <1>1, <1>2, <1>3, <1>4 DEF Next

-----------------------------------------------------------------------------
(* What follows.                                                           *)

(* Whatever the buffers went through, and whoever had the descriptor       *)
(* before: what a client is sent is a prefix of what it wrote.  This needs *)
(* no short requests.                                                      *)
THEOREM EchoInvariance == AnswersAreTaken /\ Spec => [](IInv /\ EchoInv)
PROOF
<1> SUFFICES ASSUME AnswersAreTaken PROVE Spec => [](IInv /\ EchoInv)
  OBVIOUS
<1>1. Init => EchoInv
  BY InitEcho
<1>2. IInv /\ IInv' /\ EchoInv /\ [Next]_vars => EchoInv'
  BY NextEcho
<1>3. QED
  BY <1>1, <1>2, Invariance, PTL DEF Spec

THEOREM EchoIsExact == AnswersAreTaken /\ Spec => []EchoIsPrefix
PROOF
<1>1. EchoInv => EchoIsPrefix
  BY DEF EchoInv
<1>2. QED
  BY <1>1, EchoInvariance, PTL

THEOREM AnsweredBeforeEnd == AnswersAreTaken /\ RequestsAreShort /\ Spec => [](IInv /\ EchoInv /\ EndInv)
PROOF
<1> SUFFICES ASSUME AnswersAreTaken, RequestsAreShort
             PROVE  Spec => [](IInv /\ EchoInv /\ EndInv)
  OBVIOUS
<1>1. Init => EndInv
  BY DEF Init, EndInv
<1>2. IInv /\ EchoInv /\ EndInv /\ [Next]_vars => EndInv'
  BY NextAtEnd
<1>3. QED
  BY <1>1, <1>2, EchoInvariance, PTL DEF Spec

-----------------------------------------------------------------------------
(* EpollServer implements EchoService.  A service step is a step of a      *)
(* client, accept, the send of an answer, or close; everything else the    *)
(* server does is internal.                                                *)

LEMMA ServedFrame ==
    ASSUME UNCHANGED peer
    PROVE  UNCHANGED {c \in Clients : Accepted(c)}
BY DEF Accepted

LEMMA Internal ==
    ASSUME UNCHANGED <<phase, peer, wrote, echoed>>
    PROVE  UNCHANGED Service!vars
BY ServedFrame DEF Service!vars

LEMMA ClientServes ==
    ASSUME NEW c \in Clients, IInv, ClientStep(c)
    PROVE  [Service!Next]_(Service!vars)
PROOF
<1>1. UNCHANGED <<peer, echoed>> /\ UNCHANGED {d \in Clients : Accepted(d)}
  BY ServedFrame DEF ClientStep, Connect, ClientWrite, ClientRead, ClientShutdown, ClientReset
<1>2. CASE Connect(c)
  BY <1>1, <1>2 DEF Connect, Service!Next, Service!Dial
<1>3. CASE ClientWrite(c)
  BY <1>1, <1>3 DEF ClientWrite, Service!Next, Service!Ask
<1>4. CASE ClientRead(c)
  BY <1>4, Internal DEF ClientRead
<1>5. CASE ClientShutdown(c) \/ ClientReset(c)
  BY <1>1, <1>5 DEF ClientShutdown, ClientReset, Service!Next, Service!Leave
<1>6. QED
  BY <1>2, <1>3, <1>4, <1>5 DEF ClientStep

LEMMA AcceptServes ==
    ASSUME IInv, NEW c \in backlog, NEW fd \in Fds, Accept(c, fd),
           UNCHANGED <<phase, wrote, echoed>>
    PROVE  Service!Next
PROOF
<1>1. c \in Clients /\ c # NoClient /\ Connected(c) /\ ~Accepted(c)
  BY KernelAssumption DEF IInv, RegistrationInv, Accepted, StateTypeOK, KernelTypeOK
<1>2. peer[fd] = NoClient /\ peer' = [peer EXCEPT ![fd] = c]
  BY DEF Accept, IsLowestFree, IsFree
<1>3. \A d \in Clients : Accepted(d)' <=> Accepted(d) \/ d = c
  BY <1>2, KernelAssumption DEF Accepted, IInv, StateTypeOK, KernelTypeOK
<1>4. {d \in Clients : Accepted(d)}' = {d \in Clients : Accepted(d)} \cup {c}
  BY <1>1, <1>3
<1>5. Service!Serve(c)
  BY <1>1, <1>4 DEF Service!Serve, Connected
<1>6. QED
  BY <1>1, <1>5 DEF Service!Next

LEMMA SendSomeServes ==
    ASSUME AnswersAreTaken, IInv, EchoInv, SendSome
    PROVE  Service!Next
PROOF
<1> DEFINE c == peer[cur]
<1>1. /\ c \in Clients
      /\ phase[c] \in {"open", "shut"}
      /\ taken[c] \in (Len(echoed[c]) + 1)..wrote[c]
      /\ echoed' = [echoed EXCEPT ![c] = [k \in 1..taken[c] |-> Service!Byte(c, k)]]
  BY SendsWholeAnswer DEF Byte, Service!Byte
<1>2. cur \in Fds /\ Accepted(c)
  BY HandlerFacts DEF Accepted, SendSome, HandlerLabels
<1>3. UNCHANGED <<phase, wrote, peer>>
  BY DEF SendSome
<1>4. Service!Answer(c)
  BY <1>1, <1>2, <1>3, ServedFrame DEF Service!Answer
<1>5. QED
  BY <1>1, <1>4 DEF Service!Next

LEMMA CloseClientServes ==
    ASSUME IInv, EndInv, CloseClient
    PROVE  Service!Next
PROOF
<1> DEFINE c == peer[cur]
<1>1. /\ pc = "close" /\ pc \in HandlerLabels
      /\ phase' = [phase EXCEPT ![c] = "closed"]
      /\ peer' = [peer EXCEPT ![cur] = NoClient]
      /\ UNCHANGED <<wrote, echoed>>
  BY DEF CloseClient, Close, HandlerLabels
<1>2. /\ cur \in Fds /\ c \in Clients /\ c # NoClient
      /\ \A fd \in Fds : fd # cur /\ peer[fd] # NoClient => peer[fd] # c
  BY <1>1, HandlerFacts
<1>3. phase[c] = "reset" \/ (phase[c] = "shut" /\ Len(echoed[c]) = wrote[c])
  BY <1>1 DEF IInv, LoopInv, EndInv
<1>4. Accepted(c)
  BY <1>2 DEF Accepted
<1>5. \A d \in Clients : Accepted(d)' <=> Accepted(d) /\ d # c
  BY <1>1, <1>2, KernelAssumption DEF Accepted, IInv, StateTypeOK, KernelTypeOK
<1>6. {d \in Clients : Accepted(d)}' = {d \in Clients : Accepted(d)} \ {c}
  BY <1>5
<1>7. Service!End(c)
  BY <1>1, <1>2, <1>3, <1>4, <1>6 DEF Service!End
<1>8. QED
  BY <1>2, <1>7 DEF Service!Next

LEMMA HandlerServes ==
    ASSUME AnswersAreTaken, IInv, EchoInv, EndInv, Handler
    PROVE  [Service!Next]_(Service!vars)
PROOF
<1>1. CASE SendSome
  BY <1>1, SendSomeServes
<1>2. CASE CloseClient
  BY <1>2, CloseClientServes
<1>3. CASE RecvSome \/ RecvEnds \/ RearmOut \/ SendFails \/ RearmIn
  BY <1>3, Internal DEF RecvSome, RecvEnds, RearmOut, SendFails, RearmIn, sockets, kernel
<1>4. QED
  BY <1>1, <1>2, <1>3 DEF Handler

LEMMA LoopServes ==
    ASSUME IInv, \/ EpollWait \/ EpollWaitFails \/ UNCHANGED vars
                 \/ \E e \in batch : HandleListen(e) \/ HandleListenFails(e) \/ HandleOut(e)
    PROVE  [Service!Next]_(Service!vars)
PROOF
<1>1. CASE EpollWait \/ EpollWaitFails \/ UNCHANGED vars
  BY <1>1, Internal DEF EpollWait, EpollWaitFails, vars, sockets, kernel
<1>2. ASSUME NEW e \in batch, HandleListen(e)
      PROVE  Service!Next
  BY <1>2, AcceptServes DEF HandleListen, AcceptAndAdd
<1>3. ASSUME NEW e \in batch, HandleListenFails(e) \/ HandleOut(e)
      PROVE  UNCHANGED Service!vars
  BY <1>3, Internal DEF HandleListenFails, HandleOut, Enter, kernel
<1>4. QED
  BY <1>1, <1>2, <1>3

(* Every step of the server and its clients is a step of the service, or   *)
(* none.                                                                   *)
LEMMA StepServes ==
    ASSUME AnswersAreTaken, IInv, EchoInv, EndInv, [Next]_vars
    PROVE  [Service!Next]_(Service!vars)
PROOF
<1>1. CASE Environment
  BY <1>1, ClientServes DEF Environment
<1>2. CASE Handler
  BY <1>2, HandlerServes
<1>3. ASSUME NEW e \in batch, HandleIn(e)
      PROVE  UNCHANGED Service!vars
  BY <1>3, Internal DEF HandleIn, Enter, kernel
<1>4. QED
  BY <1>1, <1>2, <1>3, LoopServes DEF Next, Server, Working, Dispatch

(* The server is an echo service.                                          *)
THEOREM ServesEcho == AnswersAreTaken /\ RequestsAreShort /\ Spec => ServiceSafety
PROOF
<1> SUFFICES ASSUME AnswersAreTaken, RequestsAreShort PROVE Spec => Service!Spec
  BY DEF ServiceSafety
<1>1. Init => Service!Init
  <2>1. Init => {c \in Clients : Accepted(c)} = {}
    BY KernelAssumption DEF Init, KernelInit, Accepted
  <2>2. QED
    BY <2>1 DEF Init, KernelInit, Service!Init
<1>2. IInv /\ EchoInv /\ EndInv /\ [Next]_vars => [Service!Next]_(Service!vars)
  BY StepServes
<1>3. QED
  BY <1>1, <1>2, AnsweredBeforeEnd, PTL DEF Spec, Service!Spec

-----------------------------------------------------------------------------
(* The server stays up.                                                    *)

LEMMA NextListen ==
    ASSUME IInv, ListenInv, [Next]_vars
    PROVE  ListenInv'
PROOF
<1>1. CASE EpollWait
  <2>1. PICK S \in Batches : batch' = {[fd |-> fd, ev |-> Revents(fd)] : fd \in S}
    BY <1>1 DEF EpollWait
  <2>2. UNCHANGED backlog
    BY <1>1 DEF EpollWait, sockets
  <2>3. \A fd \in S : Revents(fd) # {}
    BY DEF Batches, Reportable
  <2>4. Revents(LISTEN) # {} => backlog # {}
    BY DEF Revents, Reports, Poll
  <2>5. QED
    BY <2>1, <2>2, <2>3, <2>4 DEF ListenInv
<1>2. ASSUME NEW e \in batch, HandleListen(e)
      PROVE  ListenInv'
  BY <1>2 DEF HandleListen, Take, ListenInv, IInv, LoopInv
<1>3. CASE Environment
  BY <1>3
  DEF Environment, ClientStep, Connect, ClientWrite, ClientRead, ClientShutdown, ClientReset,
      process, ListenInv
<1>4. ASSUME NEW e \in batch, HandleListenFails(e) \/ HandleIn(e) \/ HandleOut(e)
      PROVE  ListenInv'
  BY <1>4 DEF HandleListenFails, HandleIn, HandleOut, Enter, Take, kernel, ListenInv
<1>5. CASE EpollWaitFails \/ Handler \/ UNCHANGED vars
  <2>1. UNCHANGED <<batch, backlog>>
    BY <1>5
    DEF EpollWaitFails, Handler, RecvSome, RecvEnds, RearmOut, SendSome, SendFails, RearmIn,
        CloseClient, Leave, vars, process, kernel, sockets
  <2>2. QED
    BY <2>1 DEF ListenInv
<1>6. QED
  BY <1>1, <1>2, <1>3, <1>4, <1>5 DEF Next, Server, Working, Dispatch

(* A connection that waits finds a descriptor: those in use belong to as   *)
(* many other clients.                                                     *)
LEMMA DescriptorsLast ==
    ASSUME IInv, IsFiniteSet(Clients), IsFiniteSet(Fds),
           Cardinality(Clients) <= Cardinality(Fds), backlog # {}
    PROVE  \E fd \in Fds : IsFree(fd)
PROOF
<1>1. SUFFICES ASSUME \A fd \in Fds : peer[fd] # NoClient PROVE FALSE
  BY DEF IsFree
<1>2. PICK c \in backlog : TRUE
  OBVIOUS
<1> DEFINE Others == Clients \ {c}
<1>3. c \in Clients
  BY DEF IInv, StateTypeOK, KernelTypeOK
<1>4. IsFiniteSet(Others) /\ Cardinality(Others) = Cardinality(Clients) - 1
  BY <1>3, FS_RemoveElement
<1>5. peer \in Injection(Fds, Others)
  <2>1. \A fd \in Fds : peer[fd] \in Others
    BY <1>1 DEF IInv, RegistrationInv, StateTypeOK, KernelTypeOK
  <2>2. peer \in [Fds -> Others]
    BY <2>1 DEF IInv, StateTypeOK, KernelTypeOK
  <2>3. \A f, g \in Fds : peer[f] = peer[g] => f = g
    BY <1>1 DEF IInv, RegistrationInv
  <2>4. QED
    BY <2>2, <2>3 DEF Injection, IsInjective
<1>6. Cardinality(Fds) <= Cardinality(Others)
  <2> HIDE DEF Others
  <2>1. QED
    BY <1>4, <1>5, FS_Injection
<1>7. Cardinality(Clients) \in Nat /\ Cardinality(Fds) \in Nat
  BY FS_CardinalityType
<1>8. QED
  BY <1>4, <1>6, <1>7

(* As long as epoll_wait is not interrupted and registering succeeds, no   *)
(* client makes the server exit while there is a descriptor for each: it   *)
(* only accepts when a connection waits.                                   *)
THEOREM ServerStaysUp ==
    /\ ~Faults
    /\ IsFiniteSet(Clients) /\ IsFiniteSet(Fds)
    /\ Cardinality(Clients) <= Cardinality(Fds)
    /\ Spec
    => []StaysUp
PROOF
<1> SUFFICES ASSUME ~Faults, IsFiniteSet(Clients), IsFiniteSet(Fds),
                    Cardinality(Clients) <= Cardinality(Fds)
             PROVE  Spec => []StaysUp
  OBVIOUS
<1>1. Init => ListenInv /\ StaysUp
  BY DEF Init, ListenInv, StaysUp
<1>2. IInv /\ ListenInv /\ [Next]_vars => ListenInv'
  BY NextListen
<1>3. IInv /\ ListenInv /\ StaysUp /\ [Next]_vars => StaysUp'
  <2>1. SUFFICES ASSUME IInv, ListenInv, StaysUp, [Next]_vars PROVE StaysUp'
    OBVIOUS
  <2>2. ASSUME NEW e \in batch PROVE ~HandleListenFails(e)
    <3>1. SUFFICES ASSUME e.fd = LISTEN, AcceptFails PROVE FALSE
      BY DEF HandleListenFails
    <3>2. backlog # {}
      BY <2>1, <3>1 DEF ListenInv
    <3>3. QED
      BY <2>1, <3>1, <3>2, DescriptorsLast DEF AcceptFails
  <2>3. ~EpollWaitFails
    BY DEF EpollWaitFails
  <2>4. QED
    BY <2>1, <2>2, <2>3
    DEF Next, Server, Working, Dispatch, Handler, EpollWait, HandleListen, HandleIn, HandleOut,
        Enter, RecvSome, RecvEnds, RearmOut, SendSome, SendFails, RearmIn, CloseClient, Leave,
        LoopLabel, Environment, vars, process, StaysUp
<1>4. QED
  BY <1>1, <1>2, <1>3, Invariance, PTL DEF Spec
=============================================================================
