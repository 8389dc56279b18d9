----------------------------- MODULE RestServer -----------------------------
(***************************************************************************)
(* src/src/server-4.c: the echo server of EpollServer with a database      *)
(* query in front of every read.  Its loop, recv_sock_data and             *)
(* send_sock_data are those of server-3.c line by line (client[fd].data is *)
(* an array of char here: Stride is 1), so their actions are taken over;   *)
(* what is new is the way into recv:                                       *)
(*                                                                         *)
(*    - mysql_doit runs "SHOW STATUS" to its end on a new connection, and  *)
(*      the one thread of the server waits for it; when it cannot connect  *)
(*      or the query fails, the process exits;                             *)
(*    - accept is called on the listening socket and its result dropped:   *)
(*      a connection that waits there becomes a descriptor that is never   *)
(*      registered, and one that does not is EAGAIN, which nobody looks at.*)
(***************************************************************************)
EXTENDS EpollServer

CONSTANT
    DbFails     (* whether connecting or querying may fail                  *)

ASSUME RestAssumption ==
    /\ DbFails \in BOOLEAN
    /\ Stride = 1

RestTypeOK == pc \in Labels \cup {"db", "accept"} /\ StateTypeOK

-----------------------------------------------------------------------------
(* The EPOLLIN branch up to recv_sock_data.                                *)

RestHandleIn(e) == "IN" \in e.ev /\ Enter(e, "db")

MysqlDoit ==
    /\ pc = "db"
    /\ pc' = "accept"
    /\ UNCHANGED <<kernel, batch, cur, cnt, buffers>>

MysqlDoitGivesUp ==         \* mutant: goes back to the loop without re-arming
    /\ pc = "db"
    /\ DbFails
    /\ Leave
    /\ UNCHANGED <<kernel, buffers>>

MysqlDoitFails ==
    /\ pc = "db"
    /\ DbFails
    /\ pc' = "exit"
    /\ UNCHANGED <<kernel, batch, cur, cnt, buffers>>

AcceptAndUse ==             \* mutant: recv_sock_data(cfd)
    /\ pc = "accept"
    /\ \E c \in backlog, fd \in Fds : Accept(c, fd) /\ cur' = fd
    /\ pc' = "recv"
    /\ UNCHANGED <<phase, wrote, taken, echoed, drained, epoll, batch, cnt, buffers>>

AcceptUnused ==
    /\ pc = "accept"
    /\ \E c \in backlog, fd \in Fds : Accept(c, fd)
    /\ pc' = "recv"
    /\ UNCHANGED <<phase, wrote, taken, echoed, drained, epoll, batch, cur, cnt, buffers>>

AcceptNothing ==
    /\ pc = "accept"
    /\ AcceptFails
    /\ pc' = "recv"
    /\ UNCHANGED <<kernel, batch, cur, cnt, buffers>>

-----------------------------------------------------------------------------
(* The rest of the loop, and the handlers, are those of EpollServer.       *)

RestDispatch ==
    \E e \in batch :
        \/ HandleListen(e)
        \/ HandleListenFails(e)
        \/ RestHandleIn(e)
        \/ HandleOut(e)

RestHandler ==
    \/ MysqlDoit
    \/ MysqlDoitFails
    \/ AcceptUnused
    \/ AcceptNothing
    \/ Handler

RestWorking == EpollWait \/ RestDispatch \/ RestHandler

RestProcess == RestWorking \/ EpollWaitFails

RestNext == RestProcess \/ Environment

RestSpec == Init /\ [][RestNext]_vars

RestFairSpec == RestSpec /\ WF_vars(RestWorking)

-----------------------------------------------------------------------------
(* The server of the code as it stands answers no client it did not        *)
(* register, but whatever accept and the database do, a client it did      *)
(* register has its last request answered before it is read again.         *)
WatchedIsServed ==
    \A c \in Clients : \A n \in 1..MaxBytes :
        (wrote[c] >= n /\ \E fd \in Fds : peer[fd] = c /\ interest[fd] # {})
            ~> (Len(echoed[c]) >= n \/ phase[c] \in {"reset", "closed"} \/ pc = "exit")
=============================================================================
