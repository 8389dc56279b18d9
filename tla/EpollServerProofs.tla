-------------------------- MODULE EpollServerProofs --------------------------
(***************************************************************************)
(* The safety properties of EpollServer (server-3.c), proved for every     *)
(* number of clients, descriptors, bytes and events, every size of the     *)
(* buffers, and whatever the faults: IInv is inductive and implies them.   *)
(***************************************************************************)
EXTENDS EpollServer, SequenceTheorems, TLAPS

-----------------------------------------------------------------------------
(* Lemmas about the operators.                                             *)

(* The smaller of two numbers is one of them and no larger than either.    *)
LEMMA Min2Is ==
    ASSUME NEW a \in Int, NEW b \in Int
    PROVE  /\ Min2(a, b) \in Int
           /\ Min2(a, b) <= a
           /\ Min2(a, b) <= b
           /\ Min2(a, b) = a \/ Min2(a, b) = b
BY DEF Min2

(* Elements of client[fd].data are at least one byte: what lies behind the *)
(* i-th of them, up to byte n of the request, is inside the buffer.        *)
LEMMA AtFits ==
    ASSUME NEW i \in Nat, NEW n \in Nat, i + n <= BUFFLEN
    PROVE  At(i) \in Nat /\ At(i) + n <= Stride * BUFFLEN
PROOF
<1>1. Stride * BUFFLEN = Stride * i + Stride * (BUFFLEN - i)
  BY ServerAssumption
<1>2. ASSUME NEW k \in Nat  PROVE Stride * k >= k
  BY ServerAssumption
<1>3. Stride * (BUFFLEN - i) >= BUFFLEN - i
  BY <1>2, ServerAssumption
<1>4. QED
  BY <1>1, <1>3, ServerAssumption DEF At

(* Sending appends n bytes of the buffer.                                  *)
LEMMA AppendFromIs ==
    ASSUME NEW s \in Seq(Bytes), NEW fd \in Fds, NEW n \in Nat,
           StateTypeOK, cnt + n <= BUFFLEN
    PROVE  /\ AppendFrom(s, fd, n) \in Seq(Bytes)
           /\ Len(AppendFrom(s, fd, n)) = Len(s) + n
PROOF
<1>1. cnt \in Nat /\ Len(s) \in Nat
  BY DEF StateTypeOK, LoopTypeOK
<1>2. At(cnt) \in Nat /\ At(cnt) + n <= Stride * BUFFLEN
  BY <1>1, AtFits, ServerAssumption
<1>3. ASSUME NEW k \in 1..(Len(s) + n)
      PROVE  (IF k <= Len(s) THEN s[k] ELSE data[fd][At(cnt) + (k - Len(s))]) \in Bytes
  <2>1. CASE k <= Len(s)
    BY <1>1, <2>1
  <2>2. CASE k > Len(s)
    <3>1. At(cnt) + (k - Len(s)) \in Offsets
      BY <1>1, <1>2, <2>2, ServerAssumption DEF Offsets
    <3>2. QED
      BY <1>1, <2>2, <3>1 DEF StateTypeOK, BuffersTypeOK
  <2>3. QED
    BY <1>1, <2>1, <2>2
<1>4. QED
  BY <1>1, <1>3 DEF AppendFrom

-----------------------------------------------------------------------------
(* The initial state.                                                      *)

LEMMA InitInv == Init => IInv
PROOF
<1>1. ASSUME Init PROVE IInv
  <2>1. StateTypeOK
    BY <1>1, KernelAssumption, ServerAssumption
    DEF Init, KernelInit, StateTypeOK, KernelTypeOK, LoopTypeOK, BuffersTypeOK, Phases,
        Bytes, NoByte, Byte, Watched, Offsets
  <2>2. RegistrationInv
    BY <1>1, KernelAssumption DEF Init, KernelInit, RegistrationInv, Watched
  <2>3. LoopInv
    BY <1>1 DEF Init, LoopInv, HandlerLabels, InBatch
  <2>4. BytesInv
    <3>1. \A fd \in Fds : interest[fd] = {}
      BY <1>1, KernelAssumption DEF Init, KernelInit, Watched
    <3>2. \A fd \in Fds : data_len[fd] = 0 /\ interest[fd] # {"OUT"}
      BY <1>1, <3>1 DEF Init
    <3>3. \A c \in Clients : Len(echoed[c]) = 0 /\ taken[c] = 0 /\ wrote[c] = 0
      BY <1>1 DEF Init, KernelInit
    <3>4. pc = "wait"
      BY <1>1 DEF Init
    <3>5. QED
      BY <3>2, <3>3, <3>4, KernelAssumption, ServerAssumption DEF BytesInv
  <2>5. NoIdleHandler /\ NoLostWakeup
    BY <1>1 DEF Init, KernelInit, NoIdleHandler, NoLostWakeup
  <2>6. QED
    BY <2>1, <2>2, <2>3, <2>4, <2>5 DEF IInv
<1>2. QED
  BY <1>1

-----------------------------------------------------------------------------
(* What keeps the parts of the invariant that an action does not touch.    *)

LEMMA RegistrationFrame ==
    ASSUME RegistrationInv, UNCHANGED <<phase, backlog, peer, interest>>
    PROVE  RegistrationInv'
BY DEF RegistrationInv, Connected

(* A client that has ended its side of the connection, or has more bytes   *)
(* for the server, disturbs no handler and no event.                       *)
LEMMA LoopFrame ==
    ASSUME LoopInv, RegistrationInv, UNCHANGED <<process, peer, interest>>,
           \A c \in Clients : Readable(c) => Readable(c)',
           \A c \in Clients : phase[c] \in {"shut", "reset"} => phase'[c] \in {"shut", "reset"},
           StateTypeOK
    PROVE  LoopInv'
PROOF
<1>1. \A e \in batch : e.fd \in Watched
  BY DEF StateTypeOK, LoopTypeOK, Events
<1>2. \A fd \in Fds : peer[fd] # NoClient => peer[fd] \in Clients
  BY DEF StateTypeOK, KernelTypeOK
<1>3. \A e \in batch : e.fd # LISTEN => peer[e.fd] \in Clients
  BY <1>1, <1>2 DEF Watched, LoopInv, RegistrationInv
<1>4. pc = "close" => peer[cur] \in Clients
  BY <1>2 DEF LoopInv, HandlerLabels, StateTypeOK, LoopTypeOK, Watched
<1>5. InBatch(cur)' = InBatch(cur)
  BY DEF process, InBatch
<1>6. pc' = "close" => phase'[peer'[cur']] \in {"shut", "reset"}
  BY <1>4 DEF LoopInv, process
<1>7. \A e \in batch' : e.fd # LISTEN /\ "IN" \in e.ev => Readable(peer[e.fd])'
  BY <1>3 DEF LoopInv, process
<1>8. QED
  BY <1>5, <1>6, <1>7 DEF LoopInv, process

LEMMA BytesFrame ==
    ASSUME BytesInv, UNCHANGED <<wrote, taken, echoed, peer, interest, pc, cur, cnt, data_len>>
    PROVE  BytesInv'
BY DEF BytesInv, Owes

(* A registered descriptor has something to report if it can be read, or   *)
(* written, whichever it is armed for: the errors come with both.          *)
Due(fd) ==
    \/ interest[fd] = {"IN"} /\ Readable(peer[fd])
    \/ interest[fd] = {"OUT"} /\ Writable(peer[fd])

LEMMA ReportsIn ==
    ASSUME NEW fd \in Fds, peer[fd] # NoClient
    PROVE  Reports(fd, {"IN"}) # {} <=> Readable(peer[fd])
BY KernelAssumption DEF Reports, Poll, PollConnection, Masks, Readable

LEMMA ReportsOut ==
    ASSUME NEW fd \in Fds, peer[fd] # NoClient
    PROVE  Reports(fd, {"OUT"}) # {} <=> Writable(peer[fd])
BY KernelAssumption DEF Reports, Poll, PollConnection, Masks, Writable

LEMMA ReventsDue ==
    ASSUME RegistrationInv, NEW fd \in Fds, peer[fd] # NoClient
    PROVE  Revents(fd) # {} <=> Due(fd)
BY ReportsIn, ReportsOut DEF RegistrationInv, Revents, Due

LEMMA ReportsInNext ==
    ASSUME NEW fd \in Fds, peer'[fd] # NoClient
    PROVE  Reports(fd, {"IN"})' # {} <=> Readable(peer[fd])'
BY KernelAssumption DEF Reports, Poll, PollConnection, Masks, Readable

LEMMA ReportsOutNext ==
    ASSUME NEW fd \in Fds, peer'[fd] # NoClient
    PROVE  Reports(fd, {"OUT"})' # {} <=> Writable(peer[fd])'
BY KernelAssumption DEF Reports, Poll, PollConnection, Masks, Writable

LEMMA ReventsDueNext ==
    ASSUME RegistrationInv', NEW fd \in Fds, peer'[fd] # NoClient
    PROVE  Revents(fd)' # {} <=> Due(fd)'
BY ReportsInNext, ReportsOutNext DEF RegistrationInv, Revents, Due

(* No wakeup is lost in a step after which every descriptor that is due is *)
(* attended to, or was due before and has not been taken away from.        *)
LEMMA WakeupStep ==
    ASSUME NoLostWakeup, RegistrationInv, RegistrationInv',
           \A fd \in Fds : peer'[fd] # NoClient /\ Due(fd)' =>
                \/ Attended(fd)'
                \/ peer[fd] # NoClient /\ Due(fd) /\ (Attended(fd) => Attended(fd)')
    PROVE  NoLostWakeup'
BY ReventsDue, ReventsDueNext DEF NoLostWakeup


-----------------------------------------------------------------------------
(* The steps of the clients.                                               *)

LEMMA ConnectInv ==
    ASSUME NEW c \in Clients, IInv, Connect(c), UNCHANGED <<process, buffers>>
    PROVE  IInv'
PROOF
<1>1. StateTypeOK'
  BY DEF IInv, Connect, StateTypeOK, KernelTypeOK, LoopTypeOK, BuffersTypeOK, process, buffers, Phases, Watched
<1>2. RegistrationInv'
  <2>1. \A d \in Clients : Connected(d) => Connected(d)'
    BY DEF IInv, Connect, Connected, StateTypeOK, KernelTypeOK
  <2>2. Connected(c)' /\ ~Connected(c)
    BY DEF IInv, Connect, Connected, StateTypeOK, KernelTypeOK
  <2>3. \A fd \in Fds : peer[fd] # NoClient => peer[fd] \in Clients
    BY DEF IInv, StateTypeOK, KernelTypeOK
  <2>4. backlog \subseteq Clients
    BY DEF IInv, StateTypeOK, KernelTypeOK
  <2>5. QED
    BY <2>1, <2>2, <2>3, <2>4 DEF IInv, Connect, RegistrationInv
<1>3. LoopInv'
  BY LoopFrame DEF IInv, Connect, Readable, Unread, StateTypeOK, KernelTypeOK
<1>4. BytesInv'
  BY BytesFrame DEF IInv, Connect, process, buffers
<1>5. NoIdleHandler'
  BY <1>3 DEF IInv, Connect, NoIdleHandler, Readable, Unread, process, buffers, StateTypeOK, KernelTypeOK
<1>6. NoLostWakeup'
  <2>1. ASSUME NEW fd \in Fds, peer'[fd] # NoClient, Due(fd)'
        PROVE  Due(fd) /\ (Attended(fd) => Attended(fd)')
    BY <2>1 DEF IInv, Connect, Due, Attended, InBatch, Readable, Writable, Unread, Room, process, RegistrationInv, Connected, StateTypeOK, KernelTypeOK
  <2>2. QED
    BY <1>2, <2>1, WakeupStep DEF IInv, Connect
<1>7. QED
  BY <1>1, <1>2, <1>3, <1>4, <1>5, <1>6 DEF IInv

LEMMA ClientWriteInv ==
    ASSUME NEW c \in Clients, IInv, ClientWrite(c), UNCHANGED <<process, buffers>>
    PROVE  IInv'
PROOF
<1>1. StateTypeOK'
  BY DEF IInv, ClientWrite, Wake, StateTypeOK, KernelTypeOK, LoopTypeOK, BuffersTypeOK, process, buffers, Watched
<1>2. RegistrationInv'
  BY RegistrationFrame DEF IInv, ClientWrite
<1>3. \A d \in Clients : Readable(d) => Readable(d)'
  BY DEF IInv, ClientWrite, Readable, Unread, StateTypeOK, KernelTypeOK
<1>4. LoopInv'
  BY <1>3, LoopFrame DEF IInv, ClientWrite
<1>5. BytesInv'
  <2>1. \A d \in Clients : /\ wrote'[d] \in Nat /\ wrote[d] \in Nat
                          /\ taken[d] \in Nat /\ Len(echoed[d]) \in Nat
    BY <1>1 DEF IInv, StateTypeOK, KernelTypeOK
  <2>2. \A d \in Clients : wrote[d] <= wrote'[d] /\ wrote'[d] <= Len(echoed[d]) + Window
    BY SMTT(30), <2>1, KernelAssumption DEF IInv, ClientWrite, BytesInv, StateTypeOK, KernelTypeOK
  <2>3. \A d \in Clients : taken[d] <= wrote'[d]
    BY <2>1, <2>2 DEF IInv, BytesInv
  <2>4. QED
    BY <2>2, <2>3 DEF IInv, ClientWrite, BytesInv, Owes, process, buffers
<1>6. NoIdleHandler'
  BY <1>3 DEF IInv, ClientWrite, NoIdleHandler, LoopInv, HandlerLabels, process, buffers, StateTypeOK, KernelTypeOK, LoopTypeOK, Watched
<1>7. NoLostWakeup'
  <2>1. ASSUME NEW fd \in Fds, peer'[fd] # NoClient, Due(fd)'
        PROVE  Attended(fd)' \/ (Due(fd) /\ (Attended(fd) => Attended(fd)'))
    <3>1. CASE peer[fd] = c /\ interest[fd] = {"IN"}
      BY <3>1 DEF ClientWrite, Wake, Attended
    <3>2. CASE interest[fd] = {"OUT"}
      BY <2>1, <3>2 DEF ClientWrite, Wake, Attended, InBatch, process, Due, Writable, Room
    <3>3. CASE peer[fd] # c
      BY <2>1, <3>3 DEF IInv, ClientWrite, Wake, Attended, InBatch, process, Due, Readable, Writable, Unread, Room, StateTypeOK, KernelTypeOK
    <3>4. QED
      BY <2>1, <3>1, <3>2, <3>3 DEF ClientWrite, Due
  <2>2. QED
    BY <1>2, <2>1, WakeupStep DEF IInv, ClientWrite
<1>8. QED
  BY <1>1, <1>2, <1>4, <1>5, <1>6, <1>7 DEF IInv

LEMMA ClientReadInv ==
    ASSUME NEW c \in Clients, IInv, ClientRead(c), UNCHANGED <<process, buffers>>
    PROVE  IInv'
PROOF
<1>1. StateTypeOK'
  BY DEF IInv, ClientRead, Wake, StateTypeOK, KernelTypeOK, LoopTypeOK, BuffersTypeOK, process, buffers, Watched
<1>2. RegistrationInv'
  BY RegistrationFrame DEF IInv, ClientRead
<1>3. LoopInv'
  BY LoopFrame DEF IInv, ClientRead, Readable, Unread
<1>4. BytesInv'
  BY BytesFrame DEF IInv, ClientRead, process, buffers
<1>5. NoIdleHandler'
  BY DEF IInv, ClientRead, NoIdleHandler, Readable, Unread, process, buffers
<1>6. NoLostWakeup'
  <2>1. ASSUME NEW fd \in Fds, peer'[fd] # NoClient, Due(fd)'
        PROVE  Attended(fd)' \/ (Due(fd) /\ (Attended(fd) => Attended(fd)'))
    <3>1. Attended(fd) => Attended(fd)'
      BY DEF ClientRead, Wake, Attended, InBatch, process
    <3>2. CASE interest[fd] = {"IN"}
      BY <2>1, <3>1, <3>2 DEF ClientRead, Due, Readable, Unread
    <3>3. CASE interest[fd] = {"OUT"} /\ peer[fd] # c
      BY <2>1, <3>1, <3>3 DEF IInv, ClientRead, Due, Writable, Room, StateTypeOK, KernelTypeOK
    <3>4. CASE interest[fd] = {"OUT"} /\ peer[fd] = c
      <4>1. Room(c)' = Room(c) + 1 /\ Room(c) \in Int
        <5>1. drained[c] \in Nat /\ Len(echoed[c]) \in Nat /\ SndBuf \in Nat
          BY KernelAssumption DEF IInv, StateTypeOK, KernelTypeOK
        <5>2. drained'[c] = drained[c] + 1 /\ echoed' = echoed
          BY DEF IInv, ClientRead, StateTypeOK, KernelTypeOK
        <5>3. Room(c)' = SndBuf - (Len(echoed[c]) - (drained[c] + 1))
          BY <5>2 DEF Room
        <5>4. Room(c) = SndBuf - (Len(echoed[c]) - drained[c])
          BY DEF Room
        <5>5. Room(c) \in Int
          BY <5>1, <5>4
        <5>6. Room(c)' = Room(c) + 1
          BY <5>1, <5>3, <5>4
        <5>7. QED
          BY <5>5, <5>6
      <4>2. CASE Room(c) = 0
        BY <3>4, <4>2 DEF ClientRead, Wake, Attended
      <4>3. CASE Room(c) > 0
        BY <3>1, <3>4, <4>3 DEF Due, Writable
      <4>4. CASE Room(c) < 0
        <5>1. phase'[c] # "reset" /\ interest' = interest /\ peer' = peer
          BY DEF ClientRead
        <5>2. Writable(c)'
          BY <2>1, <3>4, <5>1 DEF Due
        <5>3. Room(c)' > 0
          BY <5>1, <5>2 DEF Writable
        <5>4. QED
          BY <4>1, <4>4, <5>3
      <4>5. QED
        BY <4>1, <4>2, <4>3, <4>4
    <3>5. QED
      BY <2>1, <3>2, <3>3, <3>4 DEF ClientRead, Due
  <2>2. QED
    BY <1>2, <2>1, WakeupStep DEF IInv, ClientRead
<1>7. QED
  BY <1>1, <1>2, <1>3, <1>4, <1>5, <1>6 DEF IInv

(* Both ways of leaving: the phase of c moves on, everything that waits    *)
(* for c to be readable is woken, and a reset wakes the rest too.          *)
LEMMA ClientEndsInv ==
    ASSUME NEW c \in Clients, IInv, ClientShutdown(c) \/ ClientReset(c),
           UNCHANGED <<process, buffers>>
    PROVE  IInv'
PROOF
<1> DEFINE last == IF phase'[c] = "shut" THEN {"IN"} ELSE {"IN", "OUT"}
<1>1. /\ phase' = [phase EXCEPT ![c] = "shut"] \/ phase' = [phase EXCEPT ![c] = "reset"]
      /\ phase[c] \in {"open", "shut"}
      /\ ready' = Wake(c, last)
      /\ UNCHANGED <<wrote, taken, echoed, drained, backlog, peer, interest>>
  BY DEF IInv, ClientShutdown, ClientReset, StateTypeOK, KernelTypeOK
<1>2. StateTypeOK'
  BY <1>1 DEF IInv, Wake, StateTypeOK, KernelTypeOK, LoopTypeOK, BuffersTypeOK, process, buffers, Phases, Watched
<1>3. \A d \in Clients : phase'[d] = phase[d] \/ (d = c /\ phase'[d] \in {"shut", "reset"})
  BY <1>1 DEF IInv, StateTypeOK, KernelTypeOK
<1>4. RegistrationInv'
  <2>1. \A d \in Clients : Connected(d) => Connected(d)'
    BY <1>3 DEF Connected
  <2>2. \A fd \in Fds : peer[fd] # NoClient => peer[fd] \in Clients
    BY DEF IInv, StateTypeOK, KernelTypeOK
  <2>3. QED
    BY <1>1, <2>1, <2>2 DEF IInv, RegistrationInv, StateTypeOK, KernelTypeOK
<1>5. \A d \in Clients : Readable(d) => Readable(d)'
  BY <1>1, <1>3 DEF Readable, Unread
<1>6. LoopInv'
  <2>1. \A d \in Clients : phase[d] \in {"shut", "reset"} => phase'[d] \in {"shut", "reset"}
    BY <1>3
  <2>2. QED
    BY <1>1, <1>5, <2>1, LoopFrame DEF IInv
<1>7. BytesInv'
  BY <1>1, BytesFrame DEF IInv, process, buffers
<1>8. NoIdleHandler'
  BY <1>1, <1>5 DEF IInv, NoIdleHandler, LoopInv, HandlerLabels, process, buffers, StateTypeOK, KernelTypeOK, LoopTypeOK, Watched
<1>9. NoLostWakeup'
  <2>1. ASSUME NEW fd \in Fds, peer'[fd] # NoClient, Due(fd)'
        PROVE  Attended(fd)' \/ (Due(fd) /\ (Attended(fd) => Attended(fd)'))
    <3>1. Attended(fd) => Attended(fd)'
      BY <1>1 DEF Wake, Attended, InBatch, process
    <3>2. CASE peer[fd] # c
      BY <1>1, <1>3, <2>1, <3>1, <3>2 DEF IInv, Due, Readable, Writable, Unread, Room, StateTypeOK, KernelTypeOK
    <3>3. CASE peer[fd] = c /\ interest[fd] = {"IN"}
      BY <1>1, <3>3 DEF Wake, Attended
    <3>4. CASE peer[fd] = c /\ interest[fd] = {"OUT"} /\ phase'[c] = "shut"
      BY <1>1, <2>1, <3>1, <3>4 DEF Due, Writable, Room
    <3>5. CASE peer[fd] = c /\ interest[fd] = {"OUT"} /\ phase'[c] # "shut"
      BY <1>1, <3>5 DEF Wake, Attended
    <3>6. QED
      BY <1>1, <2>1, <3>2, <3>3, <3>4, <3>5 DEF Due
  <2>2. QED
    BY <1>1, <1>4, <2>1, WakeupStep DEF IInv
<1>10. QED
  BY <1>2, <1>4, <1>6, <1>7, <1>8, <1>9 DEF IInv


-----------------------------------------------------------------------------
(* The steps of the server.                                                *)

LEMMA HandlerFacts ==
    ASSUME IInv, pc \in HandlerLabels
    PROVE  /\ cur \in Fds /\ cur # LISTEN
           /\ peer[cur] \in Clients /\ peer[cur] # NoClient
           /\ Connected(peer[cur])
           /\ ~InBatch(cur)
           /\ \A fd \in Fds : fd # cur /\ peer[fd] # NoClient => peer[fd] # peer[cur]
PROOF
<1>1. cur \in Fds /\ cur # LISTEN /\ peer[cur] # NoClient /\ ~InBatch(cur)
  BY DEF IInv, LoopInv, StateTypeOK, LoopTypeOK, Watched
<1>2. peer[cur] \in Clients
  BY <1>1 DEF IInv, StateTypeOK, KernelTypeOK
<1>3. QED
  BY <1>1, <1>2 DEF IInv, RegistrationInv

LEMMA BatchFacts ==
    ASSUME IInv, NEW e \in batch
    PROVE  /\ e \in Events
           /\ e.fd \in Watched
           /\ e.fd # LISTEN => e.fd \in Fds /\ peer[e.fd] \in Clients /\ peer[e.fd] # NoClient
PROOF
<1>1. e \in Events /\ e.fd \in Watched
  BY DEF IInv, StateTypeOK, LoopTypeOK, Events
<1>2. e.fd # LISTEN => e.fd \in Fds /\ peer[e.fd] # NoClient
  BY <1>1 DEF IInv, LoopInv, RegistrationInv, Watched
<1>3. QED
  BY <1>1, <1>2 DEF IInv, StateTypeOK, KernelTypeOK

(* A step of a handler that only changes pc, cnt and data_len.             *)
LEMMA KernelFrame ==
    ASSUME IInv, UNCHANGED <<kernel, batch, cur>>
    PROVE  /\ RegistrationInv'
           /\ KernelTypeOK'
           /\ NoLostWakeup'
PROOF
<1>1. RegistrationInv'
  BY RegistrationFrame DEF IInv, kernel
<1>2. KernelTypeOK'
  BY DEF IInv, StateTypeOK, KernelTypeOK, kernel
<1>3. NoLostWakeup'
  BY <1>1, WakeupStep
  DEF IInv, kernel, Due, Attended, InBatch, Readable, Writable, Unread, Room
<1>4. QED
  BY <1>1, <1>2, <1>3

LEMMA EpollWaitInv ==
    ASSUME IInv, EpollWait
    PROVE  IInv'
PROOF
<1>1. PICK S \in Batches : /\ batch' = {[fd |-> fd, ev |-> Revents(fd)] : fd \in S}
                           /\ ready' = Reportable \ S
  BY DEF EpollWait
<1>2. /\ pc = "wait" /\ pc' = "dispatch" /\ cur = LISTEN /\ cnt = 0 /\ batch = {}
      /\ UNCHANGED <<sockets, interest, cur, cnt, buffers>>
  BY DEF IInv, EpollWait, LoopInv, HandlerLabels
<1>3. S \subseteq Reportable /\ Reportable \subseteq ready /\ ready \subseteq Watched
  BY DEF Batches, Reportable, IInv, StateTypeOK, KernelTypeOK
<1>4. \A fd \in Watched : Revents(fd) \subseteq Masks
  BY DEF Revents, Reports, Poll, PollConnection, Masks
<1>5. StateTypeOK'
  <2>1. batch' \in SUBSET Events
    BY <1>1, <1>3, <1>4 DEF Events
  <2>2. ready' \in SUBSET Watched
    BY <1>1, <1>3
  <2>3. QED
    BY <1>2, <2>1, <2>2
    DEF IInv, StateTypeOK, KernelTypeOK, LoopTypeOK, BuffersTypeOK, sockets, buffers
<1>6. RegistrationInv'
  BY <1>2, RegistrationFrame DEF IInv, sockets
<1>7. LoopInv'
  <2>1. ASSUME NEW e \in batch', e.fd # LISTEN
        PROVE  /\ interest[e.fd] # {}
               /\ e.ev \cap {"IN", "OUT"} \subseteq interest[e.fd]
               /\ "IN" \in e.ev => Readable(peer[e.fd])
    <3>1. e.fd \in S /\ e.ev = Revents(e.fd)
      BY <1>1
    <3>2. e.fd \in Fds /\ Revents(e.fd) # {}
      BY <1>3, <2>1, <3>1 DEF Reportable, Watched
    <3>3. interest[e.fd] # {} /\ peer[e.fd] # NoClient
      BY <3>2 DEF IInv, RegistrationInv, Revents
    <3>4. e.ev = PollConnection(peer[e.fd]) \cap (interest[e.fd] \cup {"ERR"})
      BY <2>1, <3>1, <3>3 DEF Revents, Reports, Poll
    <3>5. QED
      BY <3>3, <3>4 DEF PollConnection
  <2>2. \A e, f \in batch' : f.fd = e.fd => f = e
    BY <1>1
  <2>3. UNCHANGED <<peer, wrote, taken, phase, interest>>
    BY <1>2 DEF sockets
  <2>4. QED
    BY <1>2, <2>1, <2>2, <2>3 DEF LoopInv, HandlerLabels, Readable, Unread
<1>8. BytesInv'
  BY <1>2 DEF IInv, BytesInv, Owes, sockets, buffers
<1>9. NoIdleHandler'
  BY <1>2 DEF NoIdleHandler
<1>10. NoLostWakeup'
  <2>1. ASSUME NEW fd \in Fds, peer'[fd] # NoClient, Due(fd)'
        PROVE  Attended(fd)'
    <3>1. peer[fd] # NoClient /\ Due(fd)
      BY <1>2, <2>1 DEF sockets, Due, Readable, Writable, Unread, Room
    <3>2. Revents(fd) # {}
      BY <3>1, ReventsDue DEF IInv
    <3>3. fd \in ready
      BY <1>2, <3>1, <3>2, KernelAssumption DEF IInv, NoLostWakeup, Attended, InBatch
    <3>4. fd \in Reportable
      BY <3>2, <3>3 DEF Reportable
    <3>5. CASE fd \in S
      <4>1. [fd |-> fd, ev |-> Revents(fd)] \in batch'
        BY <1>1, <3>5
      <4>2. QED
        BY <4>1 DEF Attended, InBatch
    <3>6. CASE fd \notin S
      BY <1>1, <3>4, <3>6 DEF Attended
    <3>7. QED
      BY <3>5, <3>6
  <2>2. QED
    BY <1>6, <2>1, WakeupStep DEF IInv
<1>11. QED
  BY <1>5, <1>6, <1>7, <1>8, <1>9, <1>10 DEF IInv

LEMMA ExitInv ==
    ASSUME IInv, EpollWaitFails \/ \E e \in batch : HandleListenFails(e)
    PROVE  IInv'
PROOF
<1>1. /\ cur = LISTEN /\ cnt = 0 /\ pc' = "exit" /\ batch' \subseteq batch
      /\ UNCHANGED <<kernel, cur, cnt, buffers>>
  BY DEF IInv, LoopInv, HandlerLabels, EpollWaitFails, HandleListenFails, Take
<1>2. StateTypeOK'
  BY <1>1 DEF IInv, StateTypeOK, KernelTypeOK, LoopTypeOK, BuffersTypeOK, kernel, buffers
<1>3. RegistrationInv'
  BY <1>1, RegistrationFrame DEF IInv, kernel
<1>4. LoopInv'
  BY <1>1 DEF IInv, LoopInv, HandlerLabels, kernel, Readable, Unread
<1>5. BytesInv'
  BY <1>1 DEF IInv, BytesInv, Owes, kernel, buffers
<1>6. NoIdleHandler'
  BY <1>1 DEF NoIdleHandler
<1>7. NoLostWakeup'
  <2>1. \A e \in batch : e \notin batch' => e.fd = LISTEN
    BY DEF EpollWaitFails, HandleListenFails, Take
  <2>2. \A fd \in Fds : Attended(fd) => Attended(fd)'
    BY <1>1, <2>1, KernelAssumption DEF Attended, InBatch, kernel
  <2>3. \A fd \in Fds : peer'[fd] # NoClient /\ Due(fd)' => peer[fd] # NoClient /\ Due(fd)
    BY <1>1 DEF kernel, Due, Readable, Writable, Unread, Room
  <2>4. QED
    BY <1>3, <2>2, <2>3, WakeupStep DEF IInv
<1>8. QED
  BY <1>2, <1>3, <1>4, <1>5, <1>6, <1>7 DEF IInv


LEMMA HandleListenInv ==
    ASSUME IInv, NEW e \in batch, HandleListen(e)
    PROVE  IInv'
PROOF
<1>1. PICK c \in backlog, fd \in Fds : AcceptAndAdd(c, fd, {"IN"})
  BY DEF HandleListen
<1>2. /\ pc = "dispatch" /\ cur = LISTEN /\ cnt = 0
      /\ e.fd = LISTEN /\ batch' = batch \ {e}
      /\ pc' = LoopLabel(batch')
      /\ UNCHANGED <<phase, wrote, taken, echoed, drained, cur, cnt, buffers>>
  BY DEF IInv, LoopInv, HandlerLabels, HandleListen, Take
<1>3. /\ peer[fd] = NoClient
      /\ backlog' = backlog \ {c}
      /\ peer' = [peer EXCEPT ![fd] = c]
      /\ interest' = [interest EXCEPT ![fd] = {"IN"}]
      /\ ready' = IF PollConnection(c) \cap {"IN", "ERR"} # {} THEN ready \cup {fd} ELSE ready
  <2>1. {"IN"} \cup {"ERR"} = {"IN", "ERR"}
    OBVIOUS
  <2>2. QED
    BY <1>1, <2>1 DEF AcceptAndAdd, Accept, IsLowestFree, IsFree
<1>4. c \in Clients /\ c # NoClient /\ Connected(c) /\ fd # LISTEN /\ fd \in Watched
  BY KernelAssumption DEF IInv, StateTypeOK, KernelTypeOK, RegistrationInv, Watched
<1>5. pc' \in {"wait", "dispatch"} /\ (pc' = "wait" => batch' = {})
  BY <1>2 DEF LoopLabel
<1>6. StateTypeOK'
  BY <1>2, <1>3, <1>4, <1>5
  DEF IInv, StateTypeOK, KernelTypeOK, LoopTypeOK, BuffersTypeOK, buffers
<1>7. \A g \in Fds : /\ g # fd => peer'[g] = peer[g] /\ interest'[g] = interest[g]
                     /\ peer'[fd] = c /\ interest'[fd] = {"IN"}
  BY <1>3, <1>4 DEF IInv, StateTypeOK, KernelTypeOK, Watched
<1>8. RegistrationInv'
  <2>1. interest'[LISTEN] = {"IN"}
    BY <1>3, <1>4 DEF IInv, RegistrationInv, StateTypeOK, KernelTypeOK
  <2>2. \A g \in Fds : peer[g] # c
    BY <1>4 DEF IInv, RegistrationInv
  <2>3. UNCHANGED phase
    BY <1>2
  <2>4. QED
    BY <1>3, <1>4, <1>7, <2>1, <2>2, <2>3 DEF IInv, RegistrationInv, Connected
<1>9. LoopInv'
  <2>1. \A f \in batch' : f.fd # LISTEN => f.fd # fd /\ f.fd \in Fds
    BY <1>2, <1>3, BatchFacts
  <2>2. QED
    BY <1>2, <1>5, <1>7, <2>1 DEF IInv, LoopInv, HandlerLabels, Readable, Unread
<1>10. BytesInv'
  BY <1>2, <1>5, <1>7 DEF IInv, BytesInv, Owes, buffers
<1>11. NoIdleHandler'
  BY <1>5 DEF NoIdleHandler
<1>12. NoLostWakeup'
  <2>1. ASSUME NEW g \in Fds, g # fd
        PROVE  (Due(g)' => Due(g)) /\ (Attended(g) => Attended(g)')
    <3>1. Attended(g) => Attended(g)'
      BY <1>2, <1>3, KernelAssumption DEF Attended, InBatch
    <3>2. Due(g)' => Due(g)
      BY <1>2, <1>7, <2>1 DEF Due, Readable, Writable, Unread, Room
    <3>3. QED
      BY <3>1, <3>2
  <2>2. Due(fd)' => Attended(fd)'
    <3>1. SUFFICES ASSUME Due(fd)' PROVE fd \in ready'
      BY DEF Attended
    <3>2. Readable(c)
      BY <1>2, <1>7, <3>1 DEF Due, Readable, Unread
    <3>3. "IN" \in PollConnection(c)
      BY <3>2 DEF PollConnection, Masks
    <3>4. QED
      BY <1>3, <3>3
  <2>3. QED
    BY <1>7, <1>8, <2>1, <2>2, WakeupStep DEF IInv
<1>13. QED
  BY <1>6, <1>8, <1>9, <1>10, <1>11, <1>12 DEF IInv

(* Both ways into a handler.                                               *)
LEMMA EnterInv ==
    ASSUME IInv, NEW e \in batch, HandleIn(e) \/ HandleOut(e)
    PROVE  IInv'
PROOF
<1>1. /\ pc = "dispatch" /\ cnt = 0 /\ batch' = batch \ {e} /\ cur' = e.fd
      /\ UNCHANGED <<kernel, cnt, buffers>>
  BY DEF IInv, LoopInv, HandlerLabels, HandleIn, HandleOut, Enter, Take
<1>2. e.fd \in Fds /\ e.fd # LISTEN /\ peer[e.fd] # NoClient /\ peer[e.fd] \in Clients
  BY BatchFacts DEF HandleIn, HandleOut, Enter
<1>3. interest[e.fd] \in {{"IN"}, {"OUT"}}
  BY <1>2 DEF IInv, RegistrationInv, LoopInv
<1>4. \/ pc' = "recv" /\ interest[e.fd] = {"IN"} /\ Readable(peer[e.fd])
      \/ pc' = "send" /\ interest[e.fd] = {"OUT"}
  <2>1. CASE HandleIn(e)
    BY <1>2, <1>3, <2>1 DEF IInv, LoopInv, HandleIn, Enter
  <2>2. CASE HandleOut(e)
    BY <1>2, <1>3, <2>2 DEF IInv, LoopInv, HandleOut, Enter
  <2>3. QED
    BY <2>1, <2>2
<1>5. StateTypeOK'
  BY <1>1, <1>2, <1>4
  DEF IInv, StateTypeOK, KernelTypeOK, LoopTypeOK, BuffersTypeOK, Watched, kernel, buffers
<1>6. RegistrationInv'
  BY <1>1, RegistrationFrame DEF IInv, kernel
<1>7. LoopInv'
  <2>1. ~InBatch(cur)'
    BY <1>1 DEF IInv, LoopInv, InBatch
  <2>2. \A f \in batch' : f \in batch
    BY <1>1
  <2>3. UNCHANGED <<peer, interest, phase, wrote, taken>>
    BY <1>1 DEF kernel
  <2>4. QED
    BY <1>1, <1>2, <1>4, <2>1, <2>2, <2>3 DEF IInv, LoopInv, HandlerLabels, Readable, Unread
<1>8. cur = LISTEN
  BY <1>1 DEF IInv, LoopInv, HandlerLabels
<1>9. pc' = "send" => data_len[e.fd] > 0 /\ Owes(e.fd, data_len[e.fd])
  BY <1>2, <1>4, <1>8 DEF IInv, BytesInv
<1>10. BytesInv'
  <2>1. Len(echoed[peer[e.fd]]) <= taken[peer[e.fd]]
    BY <1>2 DEF IInv, BytesInv
  <2>2. pc' = "recv" => Owes(e.fd, 0)
    BY <1>2, <2>1 DEF Owes, IInv, StateTypeOK, KernelTypeOK
  <2>3. pc' = "send" => Owes(e.fd, data_len[e.fd] - 0)
    BY <1>2, <1>9 DEF IInv, StateTypeOK, BuffersTypeOK
  <2>4. UNCHANGED <<peer, interest, wrote, taken, echoed, data_len>>
    BY <1>1 DEF kernel, buffers
  <2>5. \A fd \in Fds : interest[fd] = {"OUT"} => data_len[fd] > 0 /\ Owes(fd, data_len[fd])
    BY <1>8, KernelAssumption DEF IInv, BytesInv
  <2>6. QED
    BY <1>1, <1>4, <1>9, <2>2, <2>3, <2>4, <2>5 DEF IInv, BytesInv, Owes
<1>11. NoIdleHandler'
  BY <1>1, <1>4, <1>9 DEF NoIdleHandler, kernel, buffers, Readable, Unread
<1>12. NoLostWakeup'
  <2>1. \A fd \in Fds : Attended(fd) => Attended(fd)'
    BY <1>1, <1>8, KernelAssumption DEF Attended, InBatch, kernel
  <2>2. \A fd \in Fds : peer'[fd] # NoClient /\ Due(fd)' => peer[fd] # NoClient /\ Due(fd)
    BY <1>1 DEF kernel, Due, Readable, Writable, Unread, Room
  <2>3. QED
    BY <1>6, <2>1, <2>2, WakeupStep DEF IInv
<1>13. QED
  BY <1>5, <1>6, <1>7, <1>10, <1>11, <1>12 DEF IInv


LEMMA RecvSomeInv ==
    ASSUME IInv, RecvSome
    PROVE  IInv'
PROOF
<1> DEFINE c == peer[cur]
           n == Min2(Unread(c), BUFFLEN)
<1>1. /\ pc = "recv" /\ pc \in HandlerLabels
      /\ n > 0
      /\ data' = [data EXCEPT ![cur] = [k \in Offsets |->
                     IF At(cnt) < k /\ k <= At(cnt) + n
                     THEN Byte(c, taken[c] + (k - At(cnt))) ELSE @[k]]]
      /\ taken' = [taken EXCEPT ![c] = @ + n]
      /\ cnt' = cnt + n
      /\ \/ pc' = "rearmOut" /\ data_len' = [data_len EXCEPT ![cur] = cnt + n]
         \/ pc' = "recv" /\ UNCHANGED data_len
      /\ UNCHANGED <<phase, wrote, echoed, drained, backlog, peer, epoll, batch, cur>>
  BY DEF RecvSome, HandlerLabels
<1>2. /\ cur \in Fds /\ cur # LISTEN /\ c \in Clients
      /\ \A fd \in Fds : fd # cur /\ peer[fd] # NoClient => peer[fd] # c
  BY <1>1, HandlerFacts
<1>3. /\ wrote[c] \in Nat /\ taken[c] \in Nat /\ Len(echoed[c]) \in Nat
      /\ cnt \in Nat /\ BUFFLEN \in Nat /\ Stride \in Nat
  BY <1>2, ServerAssumption DEF IInv, StateTypeOK, KernelTypeOK, LoopTypeOK
<1>4. n \in Nat /\ n <= Unread(c) /\ Unread(c) = wrote[c] - taken[c]
  <2>1. Unread(c) = wrote[c] - taken[c] /\ Unread(c) \in Int
    BY <1>3 DEF Unread
  <2>2. n \in Int /\ n <= Unread(c)
    <3>1. Unread(c) \in Int /\ BUFFLEN \in Int
      BY <1>3, <2>1
    <3>2. QED
      BY <3>1, Min2Is
  <2>3. QED
    BY <1>1, <2>1, <2>2
<1>5. taken'[c] = taken[c] + n /\ \A d \in Clients : d # c => taken'[d] = taken[d]
  BY <1>1, <1>2 DEF IInv, StateTypeOK, KernelTypeOK
<1>6. Len(echoed[c]) + cnt <= taken[c] /\ wrote[c] <= Len(echoed[c]) + Window
  BY <1>1, <1>2 DEF IInv, BytesInv, Owes
<1>7. cnt + n <= BUFFLEN
  BY SMTT(30), <1>3, <1>4, <1>6, ServerAssumption, KernelAssumption
<1>8. StateTypeOK'
  <2>1. taken' \in [Clients -> Nat]
    <3>1. taken[c] + n \in Nat
      BY <1>3, <1>4
    <3>2. QED
      BY <1>1, <3>1 DEF IInv, StateTypeOK, KernelTypeOK
  <2>2. data' \in [Fds -> [Offsets -> Bytes]]
    <3>1. \A k \in Offsets : k \in Int
      BY <1>3 DEF Offsets
    <3>2. At(cnt) \in Nat
      BY <1>3 DEF At
    <3>3. ASSUME NEW k \in Offsets, At(cnt) < k
          PROVE  Byte(c, taken[c] + (k - At(cnt))) \in Bytes
      <4>1. taken[c] + (k - At(cnt)) \in Nat
        BY <1>3, <3>1, <3>2, <3>3
      <4>2. QED
        BY <1>2, <4>1 DEF Byte, Bytes
    <3>4. [k \in Offsets |->
             IF At(cnt) < k /\ k <= At(cnt) + n
             THEN Byte(c, taken[c] + (k - At(cnt))) ELSE data[cur][k]] \in [Offsets -> Bytes]
      BY <1>2, <3>3 DEF IInv, StateTypeOK, BuffersTypeOK
    <3>5. QED
      BY <1>1, <1>2, <3>4 DEF IInv, StateTypeOK, BuffersTypeOK
  <2>3. data_len' \in [Fds -> Nat] /\ cnt' \in Nat
    BY <1>1, <1>3, <1>4 DEF IInv, StateTypeOK, BuffersTypeOK
  <2>4. QED
    BY <1>1, <2>1, <2>2, <2>3
    DEF IInv, StateTypeOK, KernelTypeOK, LoopTypeOK, BuffersTypeOK, epoll
<1>9. RegistrationInv'
  BY <1>1, RegistrationFrame DEF IInv, epoll
<1>10. LoopInv'
  <2>1. UNCHANGED <<phase, wrote, peer, interest, batch, cur>> /\ InBatch(cur)' = InBatch(cur)
    BY <1>1 DEF epoll, InBatch
  <2>2. \A e \in batch : e.fd # LISTEN => peer[e.fd] \in Clients /\ peer[e.fd] # c
    BY <1>1, <1>2, BatchFacts, HandlerFacts DEF InBatch
  <2>3. \A d \in Clients : d # c => Readable(d)' = Readable(d)
    BY <1>5, <2>1 DEF Readable, Unread
  <2>4. QED
    BY <1>1, <2>1, <2>2, <2>3 DEF IInv, LoopInv, HandlerLabels
<1>11. BytesInv'
  <2>1. UNCHANGED <<wrote, echoed, peer, interest, cur>>
    BY <1>1 DEF epoll
  <2>2. \A d \in Clients : taken'[d] <= wrote'[d] /\ Len(echoed'[d]) <= taken'[d]
    BY SMTT(30), <1>3, <1>4, <1>5, <1>6, <2>1 DEF IInv, BytesInv
  <2>3. Owes(cur, cnt)'
    BY <1>1, <1>3, <1>4, <1>5, <1>6, <2>1 DEF Owes
  <2>4. \A fd \in Fds : data_len'[fd] <= BUFFLEN /\ (fd # cur => data_len'[fd] = data_len[fd])
    BY <1>1, <1>2, <1>7 DEF IInv, BytesInv, StateTypeOK, BuffersTypeOK
  <2>5. \A fd \in Fds : fd # cur /\ interest[fd] = {"OUT"} => peer[fd] \in Clients /\ peer[fd] # c
    BY <1>2 DEF IInv, RegistrationInv, StateTypeOK, KernelTypeOK
  <2>6. \A fd \in Fds : interest'[fd] = {"OUT"} /\ cur' # fd =>
            data_len'[fd] > 0 /\ Owes(fd, data_len[fd])'
    BY <1>5, <2>1, <2>4, <2>5 DEF IInv, BytesInv, Owes
  <2>7. pc' = "rearmOut" => data_len'[cur] = cnt' /\ cnt' > 0
    BY <1>1, <1>2, <1>3, <1>4 DEF IInv, StateTypeOK, BuffersTypeOK
  <2>8. pc' # "send"
    BY <1>1
  <2>9. QED
    BY <2>1, <2>2, <2>3, <2>4, <2>6, <2>7, <2>8 DEF IInv, BytesInv, Owes
<1>12. NoIdleHandler'
  BY <1>1, <1>3, <1>4 DEF NoIdleHandler
<1>13. NoLostWakeup'
  <2>1. ASSUME NEW fd \in Fds, fd # cur, peer[fd] # NoClient, Due(fd)'
        PROVE  Due(fd)
    BY <1>1, <1>2, <1>5, <2>1
    DEF epoll, Due, Readable, Writable, Unread, Room, IInv, StateTypeOK, KernelTypeOK
  <2>2. \A fd \in Fds : Attended(fd)' = Attended(fd) /\ Attended(cur)
    BY <1>1 DEF Attended, InBatch, epoll
  <2>3. QED
    BY <1>1, <1>9, <2>1, <2>2, WakeupStep DEF IInv
<1>14. QED
  BY <1>8, <1>9, <1>10, <1>11, <1>12, <1>13 DEF IInv

LEMMA RecvEndsInv ==
    ASSUME IInv, RecvEnds
    PROVE  IInv'
PROOF
<1> DEFINE c == peer[cur]
<1>1. /\ pc = "recv" /\ pc \in HandlerLabels
      /\ \/ Unread(c) = 0 /\ phase[c] = "open" /\ pc' = "rearmOut"
         \/ phase[c] \in {"shut", "reset"} /\ pc' = "close"
      /\ data_len' = [data_len EXCEPT ![cur] = cnt]
      /\ UNCHANGED <<kernel, batch, cur, cnt, data>>
  BY DEF RecvEnds, HandlerLabels
<1>2. cur \in Fds /\ cur # LISTEN /\ c \in Clients
  BY <1>1, HandlerFacts
<1>3. /\ wrote[c] \in Nat /\ taken[c] \in Nat /\ Len(echoed[c]) \in Nat /\ cnt \in Nat
      /\ Len(echoed[c]) + cnt <= taken[c]
      /\ taken[c] <= wrote[c] /\ wrote[c] <= Len(echoed[c]) + Window
  BY <1>1, <1>2 DEF IInv, BytesInv, Owes, StateTypeOK, KernelTypeOK, LoopTypeOK
<1>4. pc' = "rearmOut" => cnt > 0
  BY <1>1, <1>3 DEF IInv, NoIdleHandler, Readable
<1>5. cnt <= BUFFLEN
  BY <1>3, ServerAssumption, KernelAssumption
<1>6. \A fd \in Fds : data_len'[fd] = IF fd = cur THEN cnt ELSE data_len[fd]
  BY <1>1 DEF IInv, StateTypeOK, BuffersTypeOK
<1>7. StateTypeOK' /\ RegistrationInv' /\ NoLostWakeup'
  <2>1. KernelTypeOK' /\ RegistrationInv' /\ NoLostWakeup'
    BY <1>1, KernelFrame
  <2>2. LoopTypeOK'
    BY <1>1 DEF IInv, StateTypeOK, LoopTypeOK
  <2>3. BuffersTypeOK'
    BY <1>1, <1>3 DEF IInv, StateTypeOK, BuffersTypeOK
  <2>4. QED
    BY <2>1, <2>2, <2>3 DEF StateTypeOK
<1>8. LoopInv'
  BY <1>1, <1>2 DEF IInv, LoopInv, HandlerLabels, kernel, InBatch, Readable, Unread
<1>9. BytesInv'
  <2>1. UNCHANGED <<wrote, taken, echoed, peer, interest, cur, cnt>>
    BY <1>1 DEF kernel
  <2>2. pc' = "rearmOut" => data_len'[cur] > 0 /\ Owes(cur, data_len[cur])'
    BY <1>2, <1>3, <1>4, <1>6, <2>1 DEF Owes
  <2>3. pc' \notin {"recv", "send"}
    BY <1>1
  <2>4. QED
    BY <1>5, <1>6, <2>1, <2>2, <2>3 DEF IInv, BytesInv, Owes
<1>10. NoIdleHandler'
  BY <1>1 DEF NoIdleHandler
<1>11. QED
  BY <1>7, <1>8, <1>9, <1>10 DEF IInv


(* Arming a descriptor, for what it waits for next, and leaving: for       *)
(* EPOLLOUT there must be an answer in its buffer.                         *)
LEMMA RearmInv ==
    ASSUME IInv, pc \in {"rearmOut", "rearmIn"},
           NEW mask \in {{"IN"}, {"OUT"}}, EpollMod(cur, mask), Leave,
           UNCHANGED <<sockets, buffers>>,
           mask = {"OUT"} => data_len[cur] > 0 /\ Owes(cur, data_len[cur])
    PROVE  IInv'
PROOF
<1>1. /\ interest' = [interest EXCEPT ![cur] = mask]
      /\ ready' = IF Reports(cur, mask) # {} THEN ready \cup {cur} ELSE ready
      /\ cur' = LISTEN /\ cnt' = 0 /\ batch' = batch
      /\ pc' \in {"wait", "dispatch"} /\ (pc' = "wait" => batch' = {})
      /\ UNCHANGED <<phase, wrote, taken, echoed, drained, backlog, peer, data, data_len>>
  BY DEF EpollMod, Leave, LoopLabel, sockets, buffers
<1>2. cur \in Fds /\ cur # LISTEN /\ peer[cur] # NoClient /\ ~InBatch(cur)
  BY HandlerFacts DEF HandlerLabels
<1>3. \A fd \in Fds : interest'[fd] = IF fd = cur THEN mask ELSE interest[fd]
  BY <1>1, <1>2 DEF IInv, StateTypeOK, KernelTypeOK, Watched
<1>4. StateTypeOK'
  BY <1>1, <1>2 DEF IInv, StateTypeOK, KernelTypeOK, LoopTypeOK, BuffersTypeOK, Watched
<1>5. RegistrationInv'
  <2>1. interest'[LISTEN] = {"IN"}
    BY <1>1, <1>2 DEF IInv, RegistrationInv, StateTypeOK, KernelTypeOK
  <2>2. mask # {}
    OBVIOUS
  <2>3. QED
    BY <1>1, <1>2, <1>3, <2>1, <2>2 DEF IInv, RegistrationInv, Connected
<1>6. LoopInv'
  <2>1. \A e \in batch : e.fd # LISTEN => e.fd \in Fds /\ e.fd # cur
    BY <1>2, BatchFacts DEF InBatch
  <2>2. QED
    BY <1>1, <1>3, <2>1 DEF IInv, LoopInv, HandlerLabels, Readable, Unread
<1>7. BytesInv'
  BY <1>1, <1>3 DEF IInv, BytesInv, Owes
<1>8. NoIdleHandler'
  BY <1>1 DEF NoIdleHandler
<1>9. NoLostWakeup'
  <2>1. ASSUME NEW fd \in Fds, fd # cur
        PROVE  (Attended(fd) => Attended(fd)') /\ (Due(fd)' => Due(fd))
    <3>1. Attended(fd) => Attended(fd)'
      BY <1>1, <2>1 DEF Attended, InBatch
    <3>2. Due(fd)' => Due(fd)
      BY <1>1, <1>3, <2>1 DEF Due, Readable, Writable, Unread, Room
    <3>3. QED
      BY <3>1, <3>2
  <2>2. ASSUME NEW fd \in Fds, fd = cur, Due(fd)'
        PROVE  fd \in ready'
    <3>1. CASE mask = {"IN"}
      <4>1. Readable(peer[fd])
        BY <1>1, <1>3, <2>2, <3>1 DEF Due, Readable, Unread
      <4>2. QED
        BY <1>1, <1>2, <2>2, <3>1, <4>1, ReportsIn
    <3>2. CASE mask = {"OUT"}
      <4>1. Writable(peer[fd])
        BY <1>1, <1>3, <2>2, <3>2 DEF Due, Writable, Room
      <4>2. QED
        BY <1>1, <1>2, <2>2, <3>2, <4>1, ReportsOut
    <3>3. QED
      BY <3>1, <3>2
  <2>3. \A fd \in Fds : peer'[fd] # NoClient /\ Due(fd)' =>
            \/ Attended(fd)'
            \/ peer[fd] # NoClient /\ Due(fd) /\ (Attended(fd) => Attended(fd)')
    BY <1>1, <2>1, <2>2 DEF Attended
  <2>4. QED
    BY <1>5, <2>3, WakeupStep DEF IInv
<1>10. QED
  BY <1>4, <1>5, <1>6, <1>7, <1>8, <1>9 DEF IInv

LEMMA SendSomeInv ==
    ASSUME IInv, SendSome
    PROVE  IInv'
PROOF
<1> DEFINE c == peer[cur]
           n == Min2(Room(c), data_len[cur] - cnt)
<1>1. /\ pc = "send" /\ pc \in HandlerLabels
      /\ Room(c) > 0
      /\ echoed' = [echoed EXCEPT ![c] = AppendFrom(@, cur, n)]
      /\ cnt' = cnt + n
      /\ pc' = IF n = 0 THEN "close" ELSE IF cnt + n = data_len[cur] THEN "rearmIn" ELSE "send"
      /\ UNCHANGED <<phase, wrote, taken, drained, backlog, peer, epoll, batch, cur, buffers>>
  BY DEF SendSome, HandlerLabels
<1>2. /\ cur \in Fds /\ cur # LISTEN /\ c \in Clients
      /\ \A fd \in Fds : fd # cur /\ peer[fd] # NoClient => peer[fd] # c
  BY <1>1, HandlerFacts
<1>3. /\ echoed[c] \in Seq(Bytes) /\ Len(echoed[c]) \in Nat
      /\ taken[c] \in Nat /\ wrote[c] \in Nat /\ drained[c] \in Nat
      /\ cnt \in Nat /\ data_len[cur] \in Nat /\ SndBuf \in Nat /\ BUFFLEN \in Nat
  BY <1>2, KernelAssumption, ServerAssumption
  DEF IInv, StateTypeOK, KernelTypeOK, LoopTypeOK, BuffersTypeOK
<1>4. /\ cnt < data_len[cur] /\ data_len[cur] <= BUFFLEN
      /\ Len(echoed[c]) + (data_len[cur] - cnt) <= taken[c]
      /\ wrote[c] <= Len(echoed[c]) + Window /\ taken[c] <= wrote[c]
  BY <1>1, <1>2 DEF IInv, BytesInv, Owes
<1>5. n \in Nat /\ n > 0 /\ n <= data_len[cur] - cnt
  <2>1. Room(c) \in Int
    BY <1>3 DEF Room
  <2>2. data_len[cur] - cnt \in Int /\ data_len[cur] - cnt > 0
    BY <1>3, <1>4
  <2>3. n \in Int /\ n <= data_len[cur] - cnt /\ (n = Room(c) \/ n = data_len[cur] - cnt)
    BY <2>1, <2>2, Min2Is
  <2>4. QED
    BY <1>1, <2>1, <2>2, <2>3
<1>6. /\ AppendFrom(echoed[c], cur, n) \in Seq(Bytes)
      /\ Len(AppendFrom(echoed[c], cur, n)) = Len(echoed[c]) + n
  <2>1. cnt + n <= BUFFLEN
    BY <1>3, <1>4, <1>5
  <2>2. QED
    BY <1>2, <1>3, <1>5, <2>1, AppendFromIs DEF IInv
<1>7. /\ Len(echoed'[c]) = Len(echoed[c]) + n
      /\ \A d \in Clients : d # c => echoed'[d] = echoed[d]
  BY <1>1, <1>2, <1>6 DEF IInv, StateTypeOK, KernelTypeOK
<1>8. StateTypeOK'
  <2>1. echoed' \in [Clients -> Seq(Bytes)]
    BY <1>1, <1>6 DEF IInv, StateTypeOK, KernelTypeOK
  <2>2. cnt' \in Nat
    BY <1>1, <1>3, <1>5
  <2>3. QED
    BY <1>1, <2>1, <2>2
    DEF IInv, StateTypeOK, KernelTypeOK, LoopTypeOK, BuffersTypeOK, epoll, buffers
<1>9. RegistrationInv'
  BY <1>1, RegistrationFrame DEF IInv, epoll
<1>10. LoopInv'
  <2>1. pc' \in {"rearmIn", "send"}
    BY <1>1, <1>5
  <2>2. UNCHANGED <<phase, wrote, taken, peer, interest, batch, cur>> /\ InBatch(cur)' = InBatch(cur)
    BY <1>1 DEF epoll, InBatch
  <2>3. QED
    BY <1>1, <1>2, <2>1, <2>2 DEF IInv, LoopInv, HandlerLabels, Readable, Unread
<1>11. BytesInv'
  <2>1. UNCHANGED <<wrote, taken, peer, interest, cur, data_len>>
    BY <1>1 DEF epoll, buffers
  <2>2. \A d \in Clients : /\ Len(echoed'[d]) <= taken[d]
                          /\ wrote[d] <= Len(echoed'[d]) + Window
    <3>1. Len(echoed'[c]) <= taken[c] /\ wrote[c] <= Len(echoed'[c]) + Window
      <4> HIDE DEF n, c
      <4>1. Window \in Nat
        BY KernelAssumption
      <4>2. Len(echoed[c]) + n <= taken[c]
        BY SMTT(30), <1>3, <1>4, <1>5
      <4>3. wrote[c] <= (Len(echoed[c]) + n) + Window
        BY <1>3, <1>4, <1>5, <4>1
      <4>4. QED
        BY <1>7, <4>2, <4>3
    <3>2. QED
      BY <1>7, <3>1 DEF IInv, BytesInv
  <2>3. pc' = "send" => cnt' < data_len[cur] /\ Owes(cur, data_len[cur] - cnt)'
    <3>1. SUFFICES ASSUME pc' = "send" PROVE cnt' < data_len[cur] /\ Owes(cur, data_len[cur] - cnt)'
      OBVIOUS
    <3>2. cnt + n < data_len[cur]
      BY <1>1, <1>3, <1>5, <3>1
    <3>3. Len(echoed'[c]) + (data_len[cur] - (cnt + n)) <= taken[c]
      BY <1>3, <1>4, <1>5, <1>7
    <3>4. QED
      BY <1>1, <2>1, <3>2, <3>3 DEF Owes
  <2>4. \A fd \in Fds : fd # cur /\ interest[fd] = {"OUT"} => peer[fd] \in Clients /\ peer[fd] # c
    BY <1>2 DEF IInv, RegistrationInv, StateTypeOK, KernelTypeOK
  <2>5. \A fd \in Fds : interest'[fd] = {"OUT"} /\ cur' # fd =>
            data_len'[fd] > 0 /\ Owes(fd, data_len[fd])'
    BY <1>7, <2>1, <2>4 DEF IInv, BytesInv, Owes
  <2>6. pc' \notin {"recv", "rearmOut"}
    BY <1>1
  <2>7. QED
    BY <2>1, <2>2, <2>3, <2>5, <2>6 DEF IInv, BytesInv
<1>12. NoIdleHandler'
  BY <1>1, <1>11 DEF NoIdleHandler, BytesInv
<1>13. NoLostWakeup'
  <2>1. ASSUME NEW fd \in Fds, fd # cur, peer[fd] # NoClient, Due(fd)'
        PROVE  Due(fd)
    <3>1. peer[fd] \in Clients /\ peer[fd] # c
      BY <1>2, <2>1 DEF IInv, StateTypeOK, KernelTypeOK
    <3>2. QED
      BY <1>1, <1>7, <2>1, <3>1 DEF epoll, Due, Readable, Writable, Unread, Room
  <2>2. \A fd \in Fds : Attended(fd)' = Attended(fd) /\ Attended(cur)
    BY <1>1 DEF Attended, InBatch, epoll
  <2>3. QED
    BY <1>1, <1>9, <2>1, <2>2, WakeupStep DEF IInv
<1>14. QED
  BY <1>8, <1>9, <1>10, <1>11, <1>12, <1>13 DEF IInv

LEMMA SendFailsInv ==
    ASSUME IInv, SendFails
    PROVE  IInv'
PROOF
<1>1. /\ pc = "send" /\ pc \in HandlerLabels
      /\ \/ pc' = "rearmIn"
         \/ pc' = "close" /\ phase[peer[cur]] = "reset"
      /\ UNCHANGED <<kernel, batch, cur, cnt, buffers>>
  BY DEF SendFails, HandlerLabels
<1>2. StateTypeOK' /\ RegistrationInv' /\ NoLostWakeup'
  <2>1. KernelTypeOK' /\ RegistrationInv' /\ NoLostWakeup'
    BY <1>1, KernelFrame
  <2>2. QED
    BY <1>1, <2>1 DEF IInv, StateTypeOK, LoopTypeOK, BuffersTypeOK, buffers
<1>3. LoopInv'
  BY <1>1 DEF IInv, LoopInv, HandlerLabels, kernel, InBatch, Readable, Unread
<1>4. BytesInv' /\ NoIdleHandler'
  BY <1>1 DEF IInv, BytesInv, Owes, NoIdleHandler, kernel, buffers
<1>5. QED
  BY <1>2, <1>3, <1>4 DEF IInv

LEMMA CloseClientInv ==
    ASSUME IInv, CloseClient
    PROVE  IInv'
PROOF
<1> DEFINE c == peer[cur]
<1>1. /\ pc = "close" /\ pc \in HandlerLabels
      /\ phase' = [phase EXCEPT ![c] = "closed"]
      /\ peer' = [peer EXCEPT ![cur] = NoClient]
      /\ interest' = [interest EXCEPT ![cur] = {}]
      /\ ready' = ready \ {cur}
      /\ cur' = LISTEN /\ cnt' = 0 /\ batch' = batch
      /\ pc' \in {"wait", "dispatch"} /\ (pc' = "wait" => batch' = {})
      /\ UNCHANGED <<wrote, taken, echoed, drained, backlog, data, data_len>>
  BY DEF CloseClient, Close, Leave, LoopLabel, HandlerLabels, buffers
<1>2. /\ cur \in Fds /\ cur # LISTEN /\ c \in Clients /\ ~InBatch(cur) /\ c # NoClient
      /\ \A fd \in Fds : fd # cur /\ peer[fd] # NoClient => peer[fd] # c
  BY <1>1, HandlerFacts
<1>3. /\ \A fd \in Fds : fd # cur => peer'[fd] = peer[fd] /\ interest'[fd] = interest[fd]
      /\ peer'[cur] = NoClient /\ interest'[cur] = {}
      /\ \A d \in Clients : d # c => phase'[d] = phase[d]
  BY <1>1, <1>2 DEF IInv, StateTypeOK, KernelTypeOK, Watched
<1>4. StateTypeOK'
  BY <1>1, <1>2
  DEF IInv, StateTypeOK, KernelTypeOK, LoopTypeOK, BuffersTypeOK, Watched, Phases
<1>5. RegistrationInv'
  <2>1. interest'[LISTEN] = {"IN"}
    BY <1>1, <1>2 DEF IInv, RegistrationInv, StateTypeOK, KernelTypeOK
  <2>2. \A d \in backlog : d \in Clients /\ d # c
    BY <1>2 DEF IInv, RegistrationInv, StateTypeOK, KernelTypeOK
  <2>3. \A fd \in Fds : peer[fd] # NoClient => peer[fd] \in Clients
    BY DEF IInv, StateTypeOK, KernelTypeOK
  <2>4. QED
    BY <1>1, <1>2, <1>3, <2>1, <2>2, <2>3 DEF IInv, RegistrationInv, Connected
<1>6. LoopInv'
  <2>1. \A e \in batch : e.fd # LISTEN =>
            e.fd \in Fds /\ e.fd # cur /\ peer[e.fd] \in Clients /\ peer[e.fd] # c
    BY <1>2, BatchFacts DEF InBatch
  <2>2. QED
    BY <1>1, <1>3, <2>1 DEF IInv, LoopInv, HandlerLabels, Readable, Unread
<1>7. BytesInv'
  <2>1. \A fd \in Fds : interest'[fd] = {"OUT"} => fd # cur
    BY <1>3
  <2>2. QED
    BY <1>1, <1>3, <2>1 DEF IInv, BytesInv, Owes
<1>8. NoIdleHandler'
  BY <1>1 DEF NoIdleHandler
<1>9. NoLostWakeup'
  <2>1. ASSUME NEW fd \in Fds, fd # cur, peer[fd] # NoClient, Due(fd)'
        PROVE  Due(fd)
    <3>1. peer[fd] \in Clients /\ peer[fd] # c
      BY <1>2, <2>1 DEF IInv, StateTypeOK, KernelTypeOK
    <3>2. QED
      BY <1>1, <1>3, <2>1, <3>1 DEF Due, Readable, Writable, Unread, Room
  <2>2. \A fd \in Fds : fd # cur => (Attended(fd) => Attended(fd)')
    BY <1>1 DEF Attended, InBatch
  <2>3. QED
    BY <1>3, <1>5, <2>1, <2>2, WakeupStep DEF IInv
<1>10. QED
  BY <1>4, <1>5, <1>6, <1>7, <1>8, <1>9 DEF IInv


-----------------------------------------------------------------------------
(* Every step.                                                             *)

LEMMA RearmOutInv ==
    ASSUME IInv, RearmOut
    PROVE  IInv'
BY RearmInv DEF RearmOut, IInv, BytesInv

LEMMA RearmInInv ==
    ASSUME IInv, RearmIn
    PROVE  IInv'
BY RearmInv DEF RearmIn

LEMMA HandlerInv ==
    ASSUME IInv, Handler
    PROVE  IInv'
PROOF
<1>1. CASE RecvSome
  BY <1>1, RecvSomeInv
<1>2. CASE RecvEnds
  BY <1>2, RecvEndsInv
<1>3. CASE RearmOut
  BY <1>3, RearmOutInv
<1>4. CASE SendSome
  BY <1>4, SendSomeInv
<1>5. CASE SendFails
  BY <1>5, SendFailsInv
<1>6. CASE RearmIn
  BY <1>6, RearmInInv
<1>7. CASE CloseClient
  BY <1>7, CloseClientInv
<1>8. QED
  BY <1>1, <1>2, <1>3, <1>4, <1>5, <1>6, <1>7 DEF Handler

LEMMA ServerInv ==
    ASSUME IInv, Server
    PROVE  IInv'
PROOF
<1>1. CASE EpollWait
  BY <1>1, EpollWaitInv
<1>2. CASE EpollWaitFails
  BY <1>2, ExitInv
<1>3. ASSUME NEW e \in batch,
             HandleListen(e) \/ HandleListenFails(e) \/ HandleIn(e) \/ HandleOut(e)
      PROVE  IInv'
  BY <1>3, HandleListenInv, ExitInv, EnterInv
<1>4. CASE Handler
  BY <1>4, HandlerInv
<1>5. QED
  BY <1>1, <1>2, <1>3, <1>4 DEF Server, Working, Dispatch

LEMMA EnvironmentInv ==
    ASSUME IInv, Environment
    PROVE  IInv'
PROOF
<1>1. PICK c \in Clients : ClientStep(c) /\ UNCHANGED <<process, buffers>>
  BY DEF Environment
<1>2. QED
  BY <1>1, ConnectInv, ClientWriteInv, ClientReadInv, ClientEndsInv DEF ClientStep

LEMMA StutterInv ==
    ASSUME IInv, UNCHANGED vars
    PROVE  IInv'
PROOF
<1>1. UNCHANGED <<kernel, process, buffers>>
  BY DEF vars
<1>2. StateTypeOK'
  BY <1>1 DEF IInv, StateTypeOK, KernelTypeOK, LoopTypeOK, BuffersTypeOK, kernel, process, buffers
<1>3. RegistrationInv' /\ NoLostWakeup'
  BY <1>1, KernelFrame DEF process
<1>4. LoopInv'
  BY <1>1 DEF IInv, LoopInv, HandlerLabels, InBatch, Readable, Unread, kernel, process
<1>5. BytesInv' /\ NoIdleHandler'
  BY <1>1
  DEF IInv, BytesInv, Owes, NoIdleHandler, Readable, Unread, kernel, process, buffers
<1>6. QED
  BY <1>2, <1>3, <1>4, <1>5 DEF IInv

(* IInv is inductive: it holds of every reachable state.                   *)
THEOREM Invariance == Spec => []IInv
PROOF
<1>1. Init => IInv
  BY InitInv
<1>2. IInv /\ [Next]_vars => IInv'
  BY ServerInv, EnvironmentInv, StutterInv DEF Next
<1>3. QED
  BY <1>1, <1>2, PTL DEF Spec

-----------------------------------------------------------------------------
(* What follows.                                                           *)

LEMMA LabelsStep ==
    ASSUME pc \in Labels, [Next]_vars
    PROVE  pc' \in Labels
BY DEF Labels, Next, Server, Working, Dispatch, Handler, EpollWait, EpollWaitFails,
       HandleListen, HandleListenFails, HandleIn, HandleOut, Enter, RecvSome, RecvEnds,
       RearmOut, SendSome, SendFails, RearmIn, CloseClient, Leave, LoopLabel, Environment,
       process, vars

(* Every variable has its type.                                            *)
THEOREM TypeCorrect == Spec => []TypeOK
PROOF
<1>1. Init => pc \in Labels
  BY DEF Init, Labels
<1>2. pc \in Labels /\ [Next]_vars => (pc \in Labels)'
  BY LabelsStep
<1>3. IInv /\ pc \in Labels => TypeOK
  BY DEF IInv, TypeOK
<1>4. QED
  BY <1>1, <1>2, <1>3, Invariance, PTL DEF Spec

(* An edge-triggered registration never sleeps on a condition it waits     *)
(* for: every due descriptor is on the ready list, in the batch, or in the *)
(* hands of the handler that runs.                                         *)
THEOREM WakeupsAreKept == Spec => []NoLostWakeup
PROOF
<1>1. IInv => NoLostWakeup
  BY DEF IInv
<1>2. QED
  BY <1>1, Invariance, PTL

(* recv_sock_data never reads past the end of client[fd].data while no     *)
(* client has more than BUFFLEN bytes in flight.                           *)
THEOREM RequestsFit == Spec => []BufferHoldsRequest
PROOF
<1>1. IInv => BufferHoldsRequest
  <2>1. SUFFICES ASSUME IInv PROVE BufferHoldsRequest
    OBVIOUS
  <2>2. \A fd \in Fds : data_len[fd] <= BUFFLEN
    BY <2>1 DEF IInv, BytesInv
  <2>3. ASSUME pc = "recv"
        PROVE  cnt + Min2(Unread(peer[cur]), BUFFLEN) <= BUFFLEN
    <3> DEFINE c == peer[cur]
    <3>1. c \in Clients
      BY <2>1, <2>3, HandlerFacts DEF HandlerLabels
    <3>2. /\ wrote[c] \in Nat /\ taken[c] \in Nat /\ Len(echoed[c]) \in Nat /\ cnt \in Nat
          /\ BUFFLEN \in Nat /\ Window \in Nat /\ Window <= BUFFLEN
      BY <2>1, <3>1, KernelAssumption, ServerAssumption
      DEF IInv, StateTypeOK, KernelTypeOK, LoopTypeOK
    <3>3. Len(echoed[c]) + cnt <= taken[c] /\ wrote[c] <= Len(echoed[c]) + Window
      BY <2>1, <2>3, <3>1 DEF IInv, BytesInv, Owes
    <3>4. Unread(c) = wrote[c] - taken[c] /\ Unread(c) \in Int
      BY <3>2 DEF Unread
    <3>5. Min2(Unread(c), BUFFLEN) <= Unread(c) /\ Min2(Unread(c), BUFFLEN) \in Int
      <4>1. Unread(c) \in Int /\ BUFFLEN \in Int
        BY <3>2, <3>4
      <4>2. QED
        BY <4>1, Min2Is
    <3>6. QED
      BY SMTT(30), <3>2, <3>3, <3>4, <3>5
  <2>4. QED
    BY <2>2, <2>3 DEF BufferHoldsRequest
<1>2. QED
  BY <1>1, Invariance, PTL

(* No handler runs in vain: the first recv finds the descriptor readable,  *)
(* and every send has bytes to send.                                       *)
THEOREM HandlersAreNeeded == Spec => []NoIdleHandler
PROOF
<1>1. IInv => NoIdleHandler
  BY DEF IInv
<1>2. QED
  BY <1>1, Invariance, PTL

(* The server closes no connection that its client has not ended.          *)
THEOREM OnlyEndedIsClosed == Spec => ClosesOnlyEnded
PROOF
<1>1. ASSUME IInv, [Next]_vars, NEW c \in Clients, Closes(c)
      PROVE  phase[c] \in {"shut", "reset"}
  <2>1. CASE CloseClient
    <3>1. phase' = [phase EXCEPT ![peer[cur]] = "closed"] /\ pc = "close"
      BY <2>1 DEF CloseClient, Close
    <3>2. c = peer[cur]
      BY <1>1, <3>1 DEF Closes, IInv, StateTypeOK, KernelTypeOK
    <3>3. QED
      BY <1>1, <3>1, <3>2 DEF IInv, LoopInv
  <2>2. CASE Server /\ ~CloseClient
    <3>1. UNCHANGED phase
      BY <2>2
      DEF Server, Working, Dispatch, Handler, EpollWait, EpollWaitFails, HandleListen,
          HandleListenFails, HandleIn, HandleOut, Enter, RecvSome, RecvEnds, RearmOut, SendSome, SendFails,
          RearmIn, sockets, kernel
    <3>2. QED
      BY <1>1, <3>1 DEF Closes
  <2>3. CASE Environment
    <3>1. PICK d \in Clients : ClientStep(d)
      BY <2>3 DEF Environment
    <3>2. \/ UNCHANGED phase
          \/ \E p \in {"open", "shut", "reset"} : phase' = [phase EXCEPT ![d] = p]
      BY <3>1 DEF ClientStep, Connect, ClientWrite, ClientRead, ClientShutdown, ClientReset
    <3>3. QED
      BY <1>1, <3>2 DEF Closes, IInv, StateTypeOK, KernelTypeOK
  <2>4. CASE UNCHANGED vars
    BY <1>1, <2>4 DEF Closes, vars, kernel
  <2>5. QED
    BY <1>1, <2>1, <2>2, <2>3, <2>4 DEF Next
<1>2. IInv /\ [Next]_vars => [\A c \in Clients : Closes(c) => phase[c] \in {"shut", "reset"}]_vars
  BY <1>1
<1>3. QED
  BY <1>2, Invariance, PTL DEF Spec, ClosesOnlyEnded
=============================================================================
