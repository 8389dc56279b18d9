-------------------------- MODULE SharedBuffServer --------------------------
(***************************************************************************)
(* src/src/server-2.c (src/server-2.c is an older copy without two include *)
(* lines): the first of the epoll servers.  Its loop is the one of         *)
(* server-3.c, but there is a single buffer, buff of main, for all         *)
(* connections: a readable connection is read into it, and a writable one  *)
(* is sent what it holds by then, up to the first zero byte.  Between the  *)
(* two any other connection may have been read into it.                    *)
(*                                                                         *)
(* data is a copy of buff that exists only while one handler runs, so the  *)
(* handler reads buff here.  send_len is not reduced when a part has been  *)
(* sent: a second send takes bytes from behind the answer, and from behind *)
(* data if that is full.  What lies there is up to the compiler: buff, the *)
(* other array, or memory that belongs to neither.                         *)
(***************************************************************************)
EXTENDS EpollKernel

CONSTANTS
    BUFFLEN,        (* sizeof(buff), and bytes asked of each recv           *)
    BuffBehindData, (* whether buff follows data in memory                  *)
    Reach,          (* bound: bytes of neither that strlen runs over        *)
    ZeroWriters,    (* the clients among whose bytes there may be zeros     *)
    Faults          (* whether system calls other than on a connection may  *)
                    (* fail                                                 *)

(* A client never has more to say than fits: "for now, we assume buff no   *)
(* more than BUFFLEN".                                                     *)
ASSUME SharedBuffAssumption ==
    /\ BUFFLEN \in Nat \ {0}
    /\ MaxBytes <= BUFFLEN
    /\ BuffBehindData \in BOOLEAN
    /\ Reach \in Nat
    /\ ZeroWriters \subseteq Clients
    /\ Faults \in BOOLEAN

VARIABLES
    pc,         (* where main is                                            *)
    batch,      (* the events of this round that are not handled yet        *)
    cur,        (* the descriptor whose handler runs; LISTEN between two    *)
    cnt,        (* read_cnt or write_cnt of that handler                    *)
    buff,       (* the buffer of main                                       *)
    data_len    (* strlen(data) of the handler that sends                   *)

process == <<pc, batch, cur, cnt>>
buffers == <<buff, data_len>>
vars == <<kernel, process, buffers>>

Cells  == 1..BUFFLEN
Events == [fd : Watched, ev : SUBSET Masks]
Labels == {"start", "wait", "dispatch", "recv", "rearmOut", "send", "rearmIn",
           "close", "exit"}

ProcessTypeOK(labels) ==
    /\ pc \in labels
    /\ batch \in SUBSET Events
    /\ cur \in Watched
    /\ cnt \in Nat

BuffTypeOK == buff \in [Cells -> Bytes] /\ data_len \in Nat

TypeOK == KernelTypeOK /\ ProcessTypeOK(Labels) /\ BuffTypeOK

EmptyBuff == [k \in Cells |-> NoByte]

Init ==
    /\ KernelInit
    /\ pc = "start"
    /\ batch = {}
    /\ cur = LISTEN
    /\ cnt = 0
    /\ buff = EmptyBuff
    /\ data_len = 0

-----------------------------------------------------------------------------
(* Start-up: socket, bind, listen, epoll_create1, epoll_ctl, calloc.       *)

StartUp ==
    /\ pc = "start"
    /\ \/ pc' = "wait"
       \/ Faults /\ pc' = "exit"
    /\ UNCHANGED <<kernel, batch, cur, cnt, buffers>>

(* The loop of main.                                                       *)

EpollWait ==
    /\ pc = "wait"
    /\ \E S \in Batches :
        /\ batch' = {[fd |-> fd, ev |-> Revents(fd)] : fd \in S}
        /\ ready' = Reportable \ S
    /\ pc' = "dispatch"
    /\ UNCHANGED <<sockets, interest, cur, cnt, buffers>>

EpollWaitFails ==
    /\ pc = "wait"
    /\ Faults
    /\ pc' = "exit"
    /\ UNCHANGED <<kernel, batch, cur, cnt, buffers>>

Take(e) == pc = "dispatch" /\ e \in batch /\ batch' = batch \ {e}

LoopLabel(rest) == IF rest = {} THEN "wait" ELSE "dispatch"

HandleListen(e) ==
    /\ Take(e)
    /\ e.fd = LISTEN
    /\ \E c \in backlog, fd \in Fds : AcceptAndAdd(c, fd, {"IN"})
    /\ pc' = LoopLabel(batch')
    /\ UNCHANGED <<phase, wrote, taken, echoed, drained, cur, cnt, buffers>>

HandleListenFails(e) ==
    /\ Take(e)
    /\ e.fd = LISTEN
    /\ AcceptFails \/ Faults
    /\ pc' = "exit"
    /\ UNCHANGED <<kernel, cur, cnt, buffers>>

Enter(e, label) ==
    /\ Take(e)
    /\ e.fd # LISTEN
    /\ cur' = e.fd
    /\ pc'  = label
    /\ UNCHANGED <<kernel, cnt>>

LeaveLoop ==                \* mutant: break instead of continue
    /\ pc'  = "wait"
    /\ cur' = LISTEN
    /\ cnt' = 0
    /\ data_len' = 0
    /\ batch' = {}
    /\ UNCHANGED buff

Leave ==
    /\ pc'  = LoopLabel(batch)
    /\ cur' = LISTEN
    /\ cnt' = 0
    /\ data_len' = 0
    /\ UNCHANGED <<batch, buff>>

-----------------------------------------------------------------------------
(* The EPOLLIN branch.                                                     *)

EnterReadDirty(e, label) == Enter(e, label) /\ UNCHANGED buffers    \* mutant: no memset

EnterRead(e, label) == Enter(e, label) /\ buff' = EmptyBuff /\ UNCHANGED data_len

HandleIn(e) == "IN" \in e.ev /\ EnterRead(e, "recv")

Min2(a, b) == IF a <= b THEN a ELSE b

RecvSome ==
    /\ pc = "recv"
    /\ LET c == peer[cur]
           n == Min2(Unread(c), BUFFLEN)
       IN  /\ n > 0
           /\ buff'  = [k \in Cells |-> IF cnt < k /\ k <= cnt + n
                                        THEN Byte(c, taken[c] + (k - cnt)) ELSE buff[k]]
           /\ taken' = [taken EXCEPT ![c] = @ + n]
           /\ IF n < BUFFLEN
              THEN pc' = "rearmOut" /\ UNCHANGED cnt
              ELSE cnt' = cnt + BUFFLEN /\ UNCHANGED pc
    /\ UNCHANGED <<phase, wrote, echoed, drained, backlog, peer, epoll, batch, cur, data_len>>

RecvEnds ==
    /\ pc = "recv"
    /\ LET c == peer[cur]
       IN  \/ Unread(c) = 0 /\ phase[c] = "open" /\ pc' = "rearmOut"
           \/ Unread(c) = 0 /\ phase[c] = "shut" /\ pc' = "close"
           \/ phase[c] = "reset" /\ pc' = "close"
    /\ UNCHANGED <<kernel, batch, cur, cnt, buffers>>

RearmOut ==
    /\ pc = "rearmOut"
    /\ EpollMod(cur, {"OUT"})
    /\ Leave
    /\ UNCHANGED sockets

-----------------------------------------------------------------------------
(* The EPOLLOUT branch.                                                    *)

(* data[k - 1], and what lies behind data.                                 *)
Foreign == Byte(NoClient, 1)
Extent  == IF BuffBehindData THEN 2 * BUFFLEN ELSE BUFFLEN

DataAt(k) ==
    IF k \in Cells THEN buff[k]
    ELSE IF k \in 1..Extent THEN buff[k - BUFFLEN]
    ELSE Foreign

(* strlen(data): up to a zero, which may be one of a client, one behind a  *)
(* shorter request (the memset), or, when data is full, anywhere behind.   *)
(* Which bytes of a client are zero is not decided before strlen looks.    *)
MayBeZero(byte) == byte.from \in ZeroWriters \cup {NoClient}

IsLength(n) ==
    /\ \A k \in 1..n : DataAt(k) # NoByte
    /\ MayBeZero(DataAt(n + 1))

StrlensTrimmed ==           \* mutant: without the newline of the request
    {n - 1 : n \in {m \in 0..Extent : IsLength(m)}}

Strlens == {n \in 0..(Extent + Reach) : IsLength(n)}

EnterWrite(e, label) == Enter(e, label) /\ data_len' \in Strlens /\ UNCHANGED buff

HandleOut(e) == "IN" \notin e.ev /\ "OUT" \in e.ev /\ EnterWrite(e, "send")

(* send takes n bytes at data + write_cnt, of the send_len it is given: an *)
(* empty answer counts as the FIN of the client, more than is left of it   *)
(* as an error.                                                            *)
Sent(c, n) ==
    echoed' = [echoed EXCEPT ![c] = @ \o [k \in 1..n |-> DataAt(cnt + k)]]

SendSome ==
    /\ pc = "send"
    /\ LET c == peer[cur]
           n == Min2(Room(c), Min2(data_len, BUFFLEN))
       IN  /\ phase[c] # "reset"
           /\ Room(c) > 0
           /\ Sent(c, n)
           /\ IF n > 0 /\ cnt + n < data_len
              THEN cnt' = cnt + n /\ UNCHANGED pc
              ELSE /\ pc' = IF n > 0 /\ cnt + n = data_len THEN "rearmIn" ELSE "close"
                   /\ UNCHANGED cnt
    /\ UNCHANGED <<phase, wrote, taken, drained, backlog, peer, epoll, batch, cur, buffers>>

(* send returns -1: EAGAIN counts as having sent everything.               *)
SendFails ==
    /\ pc = "send"
    /\ LET c == peer[cur]
       IN  \/ Room(c) = 0 /\ phase[c] # "reset" /\ pc' = "rearmIn"
           \/ phase[c] = "reset" /\ pc' = "close"
    /\ UNCHANGED <<kernel, batch, cur, cnt, buffers>>

RearmIn ==
    /\ pc = "rearmIn"
    /\ EpollMod(cur, {"IN"})
    /\ Leave
    /\ UNCHANGED sockets

CloseClient ==
    /\ pc = "close"
    /\ Close(cur)
    /\ Leave
    /\ UNCHANGED <<wrote, taken, echoed, drained, backlog>>

-----------------------------------------------------------------------------
Loop      == EpollWait \/ EpollWaitFails
Listen(e) == HandleListen(e) \/ HandleListenFails(e)
Reading   == RecvSome \/ RecvEnds \/ RearmOut
Writing   == SendSome \/ SendFails \/ RearmIn \/ CloseClient

Server ==
    \/ StartUp
    \/ Loop
    \/ \E e \in batch : Listen(e) \/ HandleIn(e) \/ HandleOut(e)
    \/ Reading
    \/ Writing

(* When the process exits the kernel ends its connections, and the clients *)
(* are of no interest any more.                                            *)
Environment ==
    /\ pc # "exit"
    /\ \E c \in Clients : ClientStep(c)
    /\ UNCHANGED <<process, buffers>>

Next == Server \/ Environment

Spec == Init /\ [][Next]_vars

-----------------------------------------------------------------------------
InBatch(fd)  == \E e \in batch : e.fd = fd
Attended(fd) == fd \in ready \/ InBatch(fd) \/ cur = fd

(* A connection on which something can be done that its registration waits *)
(* for is one the server's attention will be called to, on whatever path   *)
(* its last handler left: every one ends in epoll_ctl or close.            *)
NoLostWakeup ==
    \A fd \in Fds : peer[fd] # NoClient /\ Revents(fd) # {} => Attended(fd)

Filled == {k \in Cells : buff[k] # NoByte}

(* The buffer is shared, but never patched together: whatever was read     *)
(* before, and however long it was, buff holds consecutive bytes of one    *)
(* client from its start on.  An answer may be somebody else's, it is      *)
(* never a mixture of two.                                                 *)
BuffIsOneRequest ==
    \A k \in Filled : \A j \in 1..(k - 1) :
        /\ buff[j].from = buff[k].from
        /\ buff[j].pos + (k - j) = buff[k].pos

(* The server never closes a connection its client has not ended ("client  *)
(* has send FIN").                                                         *)
ClosesOnlyEnded ==
    [][\A c \in Clients : phase[c] # "closed" /\ phase'[c] = "closed"
            => phase[c] \in {"shut", "reset"}]_vars
=============================================================================
