----------------------------- MODULE EpollServer -----------------------------
(***************************************************************************)
(* src/src/server-3.c: the single-threaded echo server.  One loop takes a  *)
(* batch of events from epoll_wait and handles them one after the other:   *)
(* the listening socket is accepted from and the new descriptor registered *)
(* for EPOLLIN; a readable descriptor is read into client[fd] and re-armed *)
(* for EPOLLOUT; a writable one is sent client[fd] and re-armed for        *)
(* EPOLLIN; one that ended is closed.                                      *)
(*                                                                         *)
(* Every system call is a step of its own, so clients act between any two  *)
(* of them.  recv and send that fail with EINTR are retried at once and    *)
(* change nothing: they are stuttering steps.  The elements of a batch are *)
(* handled in any order, which contains the order of the ready list.       *)
(***************************************************************************)
EXTENDS EpollKernel

CONSTANTS
    BUFFLEN,    (* elements of client[fd].data, and bytes asked of each recv *)
    Stride,     (* size of an element of client[fd].data: of a void* here    *)
    Faults      (* whether epoll_wait may be interrupted and ADD may fail    *)

(* The servers assume that a request fits the buffer ("for now, we assume  *)
(* buff no more than BUFFLEN"): what a client may have in flight fits.     *)
ASSUME ServerAssumption ==
    /\ BUFFLEN \in Nat \ {0}
    /\ Stride \in Nat \ {0}
    /\ Window <= BUFFLEN
    /\ Faults \in BOOLEAN

VARIABLES
    pc,         (* where the loop of main is                                *)
    batch,      (* the events of this round that are not handled yet        *)
    cur,        (* the descriptor whose handler runs; LISTEN between two    *)
    cnt,        (* read_cnt or write_cnt of that handler                    *)
    data,       (* client[fd].data, byte by byte                            *)
    data_len    (* client[fd].data_len                                      *)

process == <<pc, batch, cur, cnt>>
buffers == <<data, data_len>>
vars == <<kernel, process, buffers>>

Offsets == 1..(Stride * BUFFLEN)
Events == [fd : Watched, ev : SUBSET Masks]
Labels == {"wait", "dispatch", "recv", "rearmOut", "send", "rearmIn", "close", "exit"}

(* The types of everything but pc, which has more labels in server-4.c.    *)
LoopTypeOK ==
    /\ batch \in SUBSET Events
    /\ cur \in Watched
    /\ cnt \in Nat

BuffersTypeOK ==
    /\ data \in [Fds -> [Offsets -> Bytes]]
    /\ data_len \in [Fds -> Nat]

StateTypeOK == KernelTypeOK /\ LoopTypeOK /\ BuffersTypeOK

TypeOK == pc \in Labels /\ StateTypeOK

Init ==
    /\ KernelInit
    /\ pc = "wait"
    /\ batch = {}
    /\ cur = LISTEN
    /\ cnt = 0
    /\ data = [fd \in Fds |-> [k \in Offsets |-> NoByte]]
    /\ data_len = [fd \in Fds |-> 0]

-----------------------------------------------------------------------------
(* The loop of main.                                                       *)

EpollWait ==
    /\ pc = "wait"
    /\ \E S \in Batches :
        /\ batch' = {[fd |-> fd, ev |-> Revents(fd)] : fd \in S}
        /\ ready' = Reportable \ S
    /\ pc' = "dispatch"
    /\ UNCHANGED <<sockets, interest, cur, cnt, buffers>>

EpollWaitFails ==
    /\ pc = "wait"
    /\ Faults
    /\ pc' = "exit"
    /\ UNCHANGED <<kernel, batch, cur, cnt, buffers>>

TakeAndStay(e) == pc = "dispatch" /\ e \in batch /\ UNCHANGED batch   \* mutant: no ++i

Take(e) == pc = "dispatch" /\ e \in batch /\ batch' = batch \ {e}

(* The label after the handler of the last event of a batch, or another.   *)
LoopLabel(rest) == IF rest = {} THEN "wait" ELSE "dispatch"

HandleListen(e) ==
    /\ Take(e)
    /\ e.fd = LISTEN
    /\ \E c \in backlog, fd \in Fds : AcceptAndAdd(c, fd, {"IN"})
    /\ pc' = LoopLabel(batch')
    /\ UNCHANGED <<phase, wrote, taken, echoed, drained, cur, cnt, buffers>>

HandleListenFails(e) ==
    /\ Take(e)
    /\ e.fd = LISTEN
    /\ AcceptFails \/ Faults
    /\ pc' = "exit"
    /\ UNCHANGED <<kernel, cur, cnt, buffers>>

(* Enter the handler of e at label.                                        *)
Enter(e, label) ==
    /\ Take(e)
    /\ e.fd # LISTEN
    /\ cur' = e.fd
    /\ pc'  = label
    /\ UNCHANGED <<kernel, cnt, buffers>>

HandleErrorFirst(e) ==      \* mutant: looks at EPOLLERR before EPOLLIN, and only prints
    /\ "IN" \in e.ev
    /\ IF "ERR" \in e.ev
       THEN Take(e) /\ pc' = LoopLabel(batch') /\ UNCHANGED <<kernel, cur, cnt, buffers>>
       ELSE Enter(e, "recv")

HandleIn(e)  == "IN" \in e.ev /\ Enter(e, "recv")
HandleOut(e) == "IN" \notin e.ev /\ "OUT" \in e.ev /\ Enter(e, "send")

(* Leave the handler of cur.  Its counter is gone: the next one starts     *)
(* from zero.                                                              *)
LeaveKeepingCount ==        \* mutant: the counter is static
    /\ pc'  = LoopLabel(batch)
    /\ cur' = LISTEN
    /\ UNCHANGED <<batch, cnt>>

Leave ==
    /\ pc'  = LoopLabel(batch)
    /\ cur' = LISTEN
    /\ cnt' = 0
    /\ UNCHANGED batch

-----------------------------------------------------------------------------
(* recv_sock_data                                                          *)

Min2(a, b) == IF a <= b THEN a ELSE b

(* The address client[fd].data + i is i elements, not i bytes, further on. *)
At(i) == Stride * i

(* recv returns n bytes: a short read ends the loop, a full one does not.  *)
RecvSome ==
    /\ pc = "recv"
    /\ LET c == peer[cur]
           n == Min2(Unread(c), BUFFLEN)
       IN  /\ n > 0
           /\ data'  = [data EXCEPT ![cur] = [k \in Offsets |->
                          IF At(cnt) < k /\ k <= At(cnt) + n
                          THEN Byte(c, taken[c] + (k - At(cnt))) ELSE @[k]]]
           /\ taken' = [taken EXCEPT ![c] = @ + n]
           /\ cnt'   = cnt + n
           /\ IF n < BUFFLEN
              THEN /\ data_len' = [data_len EXCEPT ![cur] = cnt + n]
                   /\ pc' = "rearmOut"
              ELSE UNCHANGED <<data_len, pc>>
    /\ UNCHANGED <<phase, wrote, echoed, drained, backlog, peer, epoll, batch, cur>>

(* recv has nothing more: EAGAIN, the FIN of the client, or an error (the  *)
(* reset of the client may discard what it had written before).            *)
RecvEndsOffByOne ==         \* mutant: adds the -1 of recv to read_cnt
    /\ pc = "recv"
    /\ LET c == peer[cur]
       IN  \/ Unread(c) = 0 /\ phase[c] = "open" /\ pc' = "rearmOut"
           \/ Unread(c) = 0 /\ phase[c] = "shut" /\ pc' = "close"
           \/ phase[c] = "reset" /\ pc' = "close"
    /\ data_len' = [data_len EXCEPT ![cur] = cnt - 1]
    /\ UNCHANGED <<kernel, batch, cur, cnt, data>>

RecvEnds ==
    /\ pc = "recv"
    /\ LET c == peer[cur]
       IN  \/ Unread(c) = 0 /\ phase[c] = "open" /\ pc' = "rearmOut"
           \/ Unread(c) = 0 /\ phase[c] = "shut" /\ pc' = "close"
           \/ phase[c] = "reset" /\ pc' = "close"
    /\ data_len' = [data_len EXCEPT ![cur] = cnt]
    /\ UNCHANGED <<kernel, batch, cur, cnt, data>>

RearmOut ==
    /\ pc = "rearmOut"
    /\ EpollMod(cur, {"OUT"})
    /\ Leave
    /\ UNCHANGED <<sockets, buffers>>

-----------------------------------------------------------------------------
(* send_sock_data                                                          *)

(* The n bytes at client[fd].data + cnt, after s.                          *)
AppendFrom(s, fd, n) ==
    [k \in 1..(Len(s) + n) |-> IF k <= Len(s) THEN s[k] ELSE data[fd][At(cnt) + (k - Len(s))]]

(* send takes as many bytes as there is room for; zero bytes can only be   *)
(* taken when none are left, and are taken for the FIN of the client.      *)
SendSome ==
    /\ pc = "send"
    /\ LET c == peer[cur]
           n == Min2(Room(c), data_len[cur] - cnt)
       IN  /\ phase[c] # "reset"
           /\ Room(c) > 0
           /\ echoed' = [echoed EXCEPT ![c] = AppendFrom(@, cur, n)]
           /\ cnt' = cnt + n
           /\ pc'  = IF n = 0 THEN "close"
                     ELSE IF cnt + n = data_len[cur] THEN "rearmIn" ELSE "send"
    /\ UNCHANGED <<phase, wrote, taken, drained, backlog, peer, epoll, batch, cur, buffers>>

(* send returns -1: EAGAIN counts as having sent everything.               *)
SendFailsForGood ==         \* mutant: EAGAIN is an error like the others
    /\ pc = "send"
    /\ Room(peer[cur]) = 0 \/ phase[peer[cur]] = "reset"
    /\ pc' = "close"
    /\ UNCHANGED <<kernel, batch, cur, cnt, buffers>>

SendFails ==
    /\ pc = "send"
    /\ LET c == peer[cur]
       IN  \/ Room(c) = 0 /\ phase[c] # "reset" /\ pc' = "rearmIn"
           \/ phase[c] = "reset" /\ pc' = "close"
    /\ UNCHANGED <<kernel, batch, cur, cnt, buffers>>

RearmInNot ==               \* mutant: no epoll_ctl after the answer is sent
    /\ pc = "rearmIn"
    /\ Leave
    /\ UNCHANGED <<kernel, buffers>>

RearmIn ==
    /\ pc = "rearmIn"
    /\ EpollMod(cur, {"IN"})
    /\ Leave
    /\ UNCHANGED <<sockets, buffers>>

CloseClient ==
    /\ pc = "close"
    /\ Close(cur)
    /\ Leave
    /\ UNCHANGED <<wrote, taken, echoed, drained, backlog, buffers>>

-----------------------------------------------------------------------------
Handler ==
    \/ RecvSome
    \/ RecvEnds
    \/ RearmOut
    \/ SendSome
    \/ SendFails
    \/ RearmIn
    \/ CloseClient

Dispatch ==
    \E e \in batch :
        \/ HandleListen(e)
        \/ HandleListenFails(e)
        \/ HandleIn(e)
        \/ HandleOut(e)

Working == EpollWait \/ Dispatch \/ Handler

Server == Working \/ EpollWaitFails

Environment == \E c \in Clients : ClientStep(c) /\ UNCHANGED <<process, buffers>>
Reads(c)    == ClientRead(c) /\ UNCHANGED <<process, buffers>>

Next == Server \/ Environment

Spec == Init /\ [][Next]_vars

(* The server is one thread that the operating system keeps scheduling;    *)
(* epoll_wait is not obliged to fail, nor a client to read, to write or to *)
(* leave.                                                                  *)
FairSpec == Spec /\ WF_vars(Working)

(* For what needs it: clients that read what they are sent.                *)
FairSpecWithReaders == FairSpec /\ \A c \in Clients : WF_vars(Reads(c))

-----------------------------------------------------------------------------
(* Safety.                                                                 *)

InBatch(fd)  == \E e \in batch : e.fd = fd
Attended(fd) == fd \in ready \/ InBatch(fd) \/ cur = fd
Accepted(c)  == \E fd \in Fds : peer[fd] = c

(* The hazard of EPOLLET: a connection on which something can be done that *)
(* its registration waits for is never one that nothing will call the      *)
(* server's attention to.  It rests on every handler re-arming its         *)
(* descriptor after its last recv or send, on every path.                  *)
NoLostWakeup ==
    \A fd \in Fds : peer[fd] # NoClient /\ Revents(fd) # {} => Attended(fd)

(* No client makes the server exit: as long as descriptors last, accept is *)
(* only called when a connection waits for it.                             *)
StaysUp == pc # "exit"

(* The reads of a handler stay inside client[fd].data, although a full     *)
(* read makes it recv once more behind what it has.                        *)
BufferHoldsRequest ==
    /\ pc = "recv" => cnt + Min2(Unread(peer[cur]), BUFFLEN) <= BUFFLEN
    /\ \A fd \in Fds : data_len[fd] <= BUFFLEN

(* A handler never finds nothing to do: recv is first called on a readable *)
(* descriptor, and send always has bytes left.  (send_sock_data takes a    *)
(* send of no bytes for the FIN of the client and closes the connection.)  *)
NoIdleHandler ==
    /\ pc = "recv" /\ cnt = 0 => Readable(peer[cur])
    /\ pc = "send" => cnt < data_len[cur]

(* Whatever the server's buffers went through, and whoever had the         *)
(* descriptor before: what a client is sent is a prefix of what it wrote.  *)
EchoIsPrefix ==
    \A c \in Clients : \A i \in DOMAIN echoed[c] : echoed[c][i] = Byte(c, i)

(* "we have send it all" (EAGAIN), "all data send": when the server waits  *)
(* for the next request of a connection, it has sent all of the last one.  *)
(* A client that does not make room for its answer shows otherwise: what   *)
(* the kernel did not take is not sent later, either.                      *)
AllDataSend ==
    \A fd \in Fds : interest[fd] = {"IN"} /\ cur # fd =>
        Len(echoed[peer[fd]]) = taken[peer[fd]]

-----------------------------------------------------------------------------
(* The inductive invariant behind the safety properties.  It is one of     *)
(* server-4.c, too, where a connection may have a descriptor that is not   *)
(* registered, and where the way from an event into its handler is longer. *)

HandlerLabels == {"recv", "rearmOut", "send", "rearmIn", "close"}
Connected(c)  == phase[c] \in {"open", "shut", "reset"}

(* Descriptors, connections and registrations agree.                       *)
RegistrationInv ==
    /\ interest[LISTEN] = {"IN"}
    /\ \A c \in backlog : Connected(c)
    /\ \A fd \in Fds :
        /\ interest[fd] \in {{}, {"IN"}, {"OUT"}}
        /\ peer[fd] = NoClient => interest[fd] = {}
        /\ peer[fd] # NoClient => Connected(peer[fd]) /\ peer[fd] \notin backlog
        /\ \A g \in Fds : peer[fd] = peer[g] /\ peer[fd] # NoClient => fd = g

(* What the handler that runs, and the events that are left, rely on.      *)
LoopInv ==
    /\ pc = "wait" => batch = {}
    /\ pc \in {"wait", "dispatch"} => cur = LISTEN
    /\ pc \notin HandlerLabels => cnt = 0
    /\ pc \in HandlerLabels => cur # LISTEN /\ peer[cur] # NoClient /\ ~InBatch(cur)
    /\ pc \in {"recv", "rearmOut"} => interest[cur] = {"IN"}
    /\ pc \in {"send", "rearmIn"} => interest[cur] = {"OUT"}
    /\ pc = "close" => phase[peer[cur]] \in {"shut", "reset"}
    /\ \A e \in batch :
        /\ \A f \in batch : f.fd = e.fd => f = e
        /\ e.fd # LISTEN =>
            /\ interest[e.fd] # {}
            /\ e.ev \cap {"IN", "OUT"} \subseteq interest[e.fd]
            /\ "IN" \in e.ev => Readable(peer[e.fd])

(* n bytes that were taken from the client of fd are not echoed yet.       *)
Owes(fd, n) == Len(echoed[peer[fd]]) + n <= taken[peer[fd]]

(* Every byte is written, then taken, then echoed; what a buffer still     *)
(* holds is taken and not echoed, and no answer is empty.                  *)
BytesInv ==
    /\ \A c \in Clients :
        /\ Len(echoed[c]) <= taken[c]
        /\ taken[c] <= wrote[c]
        /\ wrote[c] <= Len(echoed[c]) + Window
    /\ \A fd \in Fds :
        /\ data_len[fd] <= BUFFLEN
        /\ interest[fd] = {"OUT"} /\ cur # fd => data_len[fd] > 0 /\ Owes(fd, data_len[fd])
    /\ pc = "recv" => Owes(cur, cnt)
    /\ pc = "rearmOut" => data_len[cur] > 0 /\ Owes(cur, data_len[cur])
    /\ pc = "send" => cnt < data_len[cur] /\ Owes(cur, data_len[cur] - cnt)

IInv ==
    /\ StateTypeOK
    /\ RegistrationInv
    /\ LoopInv
    /\ BytesInv
    /\ NoIdleHandler
    /\ NoLostWakeup

-----------------------------------------------------------------------------
(* Action properties.                                                      *)

Closes(c) == phase[c] # "closed" /\ phase'[c] = "closed"

(* The server never closes a connection the client has not ended.          *)
ClosesOnlyEnded ==
    [][\A c \in Clients : Closes(c) => phase[c] \in {"shut", "reset"}]_vars

-----------------------------------------------------------------------------
(* Liveness.                                                               *)

(* Every connection that ended is closed: descriptors do not leak.  (That  *)
(* takes clients that read.  Armed for EPOLLOUT only, the server does not  *)
(* see the FIN of a client that never makes room for the last answer.)     *)
EveryEndNoticed ==
    \A c \in Clients :
        (Accepted(c) /\ phase[c] \in {"shut", "reset"}) 
            ~> (phase[c] = "closed" \/ pc = "exit")

-----------------------------------------------------------------------------
(* Refinement.                                                             *)

Service == INSTANCE EchoService WITH
    served <- {c \in Clients : Accepted(c)},
    asked  <- wrote,
    answer <- echoed

(* The server is an echo service, as long as the kernel takes every answer *)
(* at once and a request is shorter than the buffer.                       *)
ServiceSafety == Service!Spec

(* It also makes the progress of one.                                      *)
ServiceProgress == Service!FairSpec
=============================================================================
