------------------------------ MODULE EpollLoop ------------------------------
(***************************************************************************)
(* src/epoll.c: the demonstration of edge-triggered epoll the servers grew *)
(* out of.  It prints what its clients write.  Unlike the servers, its     *)
(* handlers go on until there is nothing left: accept until no connection  *)
(* waits, read until no byte does; and an error is looked at before        *)
(* anything else.  Every system call is a step of its own.  An epoll_wait  *)
(* that fails is just called again.                                        *)
(***************************************************************************)
EXTENDS EpollKernel

CONSTANTS
    BUFLEN,     (* sizeof(buf), 512                                         *)
    Addresses,  (* how many addresses getaddrinfo returns                   *)
    Faults      (* whether calls other than on a connection may fail        *)

ASSUME LoopAssumption ==
    /\ BUFLEN \in Nat \ {0}
    /\ Addresses \in Nat \ {0}
    /\ Faults \in BOOLEAN

VARIABLES
    pc,         (* where main is                                            *)
    batch,      (* the events of this round that are not handled yet        *)
    cur,        (* the descriptor that is read; LISTEN otherwise            *)
    buf,        (* what the last read returned                              *)
    tried,      (* the addresses create_and_bind could not bind             *)
    printed     (* standard output                                          *)

process == <<pc, batch, cur, buf, tried, printed>>
vars == <<kernel, process>>

Labels == {"bind", "listen", "wait", "dispatch", "accept", "read", "write", "close", "abort"}

TypeOK ==
    /\ KernelTypeOK
    /\ pc \in Labels
    /\ batch \in SUBSET [fd : Watched, ev : SUBSET Masks]
    /\ cur \in Watched
    /\ buf \in Seq(Bytes)
    /\ tried \in 0..Addresses
    /\ printed \in Seq(Bytes)

Init ==
    /\ KernelInit
    /\ pc = "bind"
    /\ batch = {}
    /\ cur = LISTEN
    /\ buf = << >>
    /\ tried = 0
    /\ printed = << >>

-----------------------------------------------------------------------------
(* create_and_bind: the first address that can be bound.                   *)
CreateAndBindOn ==          \* mutant: does not look for the end of the addresses
    /\ pc = "bind"
    /\ \/ pc' = "listen" /\ UNCHANGED tried
       \/ Faults /\ tried' = tried + 1 /\ UNCHANGED pc
    /\ UNCHANGED <<kernel, batch, cur, buf, printed>>

CreateAndBind ==
    /\ pc = "bind"
    /\ \/ tried < Addresses /\ pc' = "listen" /\ UNCHANGED tried
       \/ tried < Addresses /\ Faults /\ tried' = tried + 1 /\ UNCHANGED pc
       \/ tried = Addresses /\ pc' = "abort" /\ UNCHANGED tried
    /\ UNCHANGED <<kernel, batch, cur, buf, printed>>

(* make_socket_non_blocking, listen, epoll_create1, epoll_ctl.             *)
StartListening ==
    /\ pc = "listen"
    /\ \/ pc' = "wait"
       \/ Faults /\ pc' = "abort"
    /\ UNCHANGED <<kernel, batch, cur, buf, tried, printed>>

EpollWait ==
    /\ pc = "wait"
    /\ \E S \in Batches :
        /\ batch' = {[fd |-> fd, ev |-> Revents(fd)] : fd \in S}
        /\ ready' = Reportable \ S
    /\ pc' = "dispatch"
    /\ UNCHANGED <<sockets, interest, cur, buf, tried, printed>>

Take(e) == pc = "dispatch" /\ e \in batch /\ batch' = batch \ {e}

Resume(rest) == pc' = (IF rest = {} THEN "wait" ELSE "dispatch")

HandleAnyEnd(e) ==          \* mutant: EPOLLRDHUP counts as a hang-up
    /\ Take(e)
    /\ e.fd # LISTEN
    /\ "ERR" \in e.ev \/ "IN" \notin e.ev \/ phase[peer[e.fd]] = "shut"
    /\ Close(e.fd)
    /\ Resume(batch')
    /\ UNCHANGED <<wrote, taken, echoed, drained, backlog, cur, buf, tried, printed>>

(* An error, a hang-up, or an event without EPOLLIN.                       *)
HandleError(e) ==
    /\ Take(e)
    /\ "ERR" \in e.ev \/ "IN" \notin e.ev
    /\ Close(e.fd)
    /\ Resume(batch')
    /\ UNCHANGED <<wrote, taken, echoed, drained, backlog, cur, buf, tried, printed>>

HandleListen(e) ==
    /\ Take(e)
    /\ e.ev = {"IN"}
    /\ e.fd = LISTEN
    /\ pc' = "accept"
    /\ UNCHANGED <<kernel, cur, buf, tried, printed>>

HandleData(e) ==
    /\ Take(e)
    /\ e.ev = {"IN"}
    /\ e.fd # LISTEN
    /\ cur' = e.fd
    /\ pc' = "read"
    /\ UNCHANGED <<kernel, buf, tried, printed>>

-----------------------------------------------------------------------------
(* The loop around accept.                                                 *)

AcceptOne ==                \* mutant: one connection per event, as the servers do
    /\ pc = "accept"
    /\ \E c \in backlog, fd \in Fds : AcceptAndAdd(c, fd, {"IN"})
    /\ Resume(batch)
    /\ UNCHANGED <<phase, wrote, taken, echoed, drained, batch, cur, buf, tried, printed>>

AcceptNext ==
    /\ pc = "accept"
    /\ \/ /\ \E c \in backlog, fd \in Fds : AcceptAndAdd(c, fd, {"IN"})
          /\ UNCHANGED <<phase, wrote, taken, echoed, drained, pc>>
       \/ /\ Faults
          /\ backlog # {}
          /\ pc' = "abort"
          /\ UNCHANGED kernel
    /\ UNCHANGED <<batch, cur, buf, tried, printed>>

(* EAGAIN, and any other error of accept, end the loop.                    *)
AcceptEnds ==
    /\ pc = "accept"
    /\ AcceptFails
    /\ Resume(batch)
    /\ UNCHANGED <<kernel, batch, cur, buf, tried, printed>>

-----------------------------------------------------------------------------
(* The loop around read.                                                   *)

Min2(a, b) == IF a <= b THEN a ELSE b

Leave == Resume(batch) /\ cur' = LISTEN

ReadSome ==
    /\ pc = "read"
    /\ LET c == peer[cur]
           n == Min2(Unread(c), BUFLEN)
       IN  /\ n > 0
           /\ buf' = [k \in 1..n |-> Byte(c, taken[c] + k)]
           /\ taken' = [taken EXCEPT ![c] = @ + n]
    /\ pc' = "write"
    /\ UNCHANGED <<phase, wrote, echoed, drained, backlog, peer, epoll, batch, cur, tried, printed>>

(* No byte is left (EAGAIN), or no byte will come: the end of the file or  *)
(* an error, which may discard what was not read.                          *)
ReadEndsEarly ==            \* mutant: a read of nothing is the end of the loop, not of the file
    /\ pc = "read"
    /\ LET c == peer[cur]
       IN  \/ Unread(c) = 0 /\ phase[c] \in {"open", "shut"} /\ Leave
           \/ phase[c] = "reset" /\ pc' = "close" /\ UNCHANGED cur
    /\ UNCHANGED <<kernel, batch, buf, tried, printed>>

ReadEnds ==
    /\ pc = "read"
    /\ LET c == peer[cur]
       IN  \/ Unread(c) = 0 /\ phase[c] = "open" /\ Leave
           \/ Unread(c) = 0 /\ phase[c] = "shut" /\ pc' = "close" /\ UNCHANGED cur
           \/ phase[c] = "reset" /\ pc' = "close" /\ UNCHANGED cur
    /\ UNCHANGED <<kernel, batch, buf, tried, printed>>

WriteAndLeave ==            \* mutant: no loop around read
    /\ pc = "write"
    /\ printed' = printed \o buf
    /\ buf' = << >>
    /\ Leave
    /\ UNCHANGED <<kernel, batch, tried>>

WriteOrDrop ==              \* mutant: a failed write is overlooked
    /\ pc = "write"
    /\ \/ printed' = printed \o buf
       \/ Faults /\ UNCHANGED printed
    /\ pc' = "read"
    /\ buf' = << >>
    /\ UNCHANGED <<kernel, batch, cur, tried>>

Write ==
    /\ pc = "write"
    /\ \/ pc' = "read" /\ printed' = printed \o buf /\ buf' = << >>
       \/ Faults /\ pc' = "abort" /\ UNCHANGED <<printed, buf>>
    /\ UNCHANGED <<kernel, batch, cur, tried>>

CloseConnection ==
    /\ pc = "close"
    /\ Close(cur)
    /\ Leave
    /\ UNCHANGED <<wrote, taken, echoed, drained, backlog, batch, buf, tried, printed>>

-----------------------------------------------------------------------------
Server ==
    \/ CreateAndBind
    \/ StartListening
    \/ EpollWait
    \/ \E e \in batch :
        \/ HandleError(e)
        \/ HandleListen(e)
        \/ HandleData(e)
    \/ AcceptNext
    \/ AcceptEnds
    \/ ReadSome
    \/ ReadEnds
    \/ Write
    \/ CloseConnection

Environment ==
    /\ pc # "abort"
    /\ \E c \in Clients : ClientStep(c)
    /\ UNCHANGED process

Next == Server \/ Environment

Spec     == Init /\ [][Next]_vars
FairSpec == Spec /\ WF_vars(Server)

-----------------------------------------------------------------------------
Attended(fd) == fd \in ready \/ (\E e \in batch : e.fd = fd) \/ cur = fd

(* Edge-triggered: a handler that stopped before the descriptor had        *)
(* nothing left would never be told of the rest ("we won't get a           *)
(* notification again for the same data"), nor of a second connection that *)
(* waits in the backlog.  (As long as accept finds a free descriptor.)     *)
NoLostWakeup == pc # "abort" =>
    /\ \A fd \in Fds : peer[fd] # NoClient /\ Revents(fd) # {} => Attended(fd)
    /\ backlog # {} => LISTEN \in ready \/ (\E e \in batch : e.fd = LISTEN) \/ pc = "accept"

(* However the reads of several connections follow one another: of each    *)
(* client everything that was read is printed, or about to be by the       *)
(* current read, in the order it was written, and nothing twice.           *)
PrintedInOrder ==
    LET out == printed \o buf
    IN  \A c \in Clients :
            /\ \A n \in 1..taken[c] : \E i \in DOMAIN out : out[i] = Byte(c, n)
            /\ \A i \in DOMAIN out : out[i].from = c =>
                    /\ out[i].pos \in 1..taken[c]
                    /\ \A j \in 1..(i - 1) : out[j].from = c => out[j].pos < out[i].pos

(* A connection is closed only when its client has ended it, and one that  *)
(* was merely shut down only when all it wrote has been read: the order of *)
(* the tests, read before end of file, and the loop around read matter.    *)
ClosesOnlyRead ==
    [][\A c \in Clients : phase[c] # "closed" /\ phase'[c] = "closed" =>
          \/ phase[c] = "reset"
          \/ phase[c] = "shut" /\ taken[c] = wrote[c]]_vars

(* Everything a client writes is printed, unless it resets the connection. *)
EverythingPrinted ==
    \A c \in Clients : \A n \in 1..MaxBytes :
        wrote[c] >= n ~> \/ \E i \in DOMAIN printed : printed[i] = Byte(c, n)
                         \/ phase[c] \in {"reset", "closed"}
                         \/ pc = "abort"

(* Every connection that ends is closed, so descriptors do not run out.    *)
EveryEndNoticed ==
    \A c \in Clients :
        phase[c] \in {"shut", "reset"} ~> (phase[c] = "closed" \/ pc = "abort")
=============================================================================
