------------------------------ MODULE MysqlLoop ------------------------------
(***************************************************************************)
(* src/src/mysql.c: MAXCLIENTS queries at once on one epoll instance, each *)
(* a state machine (mysql_query_loop) that is entered once from main and   *)
(* then with every event on its connection, and goes on from library call  *)
(* to library call until one of them would block.                          *)
(*                                                                         *)
(* main never adds the descriptors to the epoll instance: mysql_query_loop *)
(* only modifies them, and add_epoll is called by nobody.  AddEpoll says   *)
(* whether main calls it: {FALSE} is the program as it stands, TRUE lets   *)
(* the state machine run.                                                  *)
(***************************************************************************)
EXTENDS MysqlClient

CONSTANT AddEpoll

ASSUME LoopAssumption == AddEpoll \subseteq BOOLEAN

IsLast(w) == w + 1 \notin Waiters

(* mysql_query_loop returns: to the loop over the waiters, or the events.  *)
Return ==
    IF batch = << >>
    THEN /\ IF IsLast(cur) THEN pc' = "wait" /\ cur' = 0 ELSE pc' = "init" /\ cur' = cur + 1
         /\ UNCHANGED <<program, batch, slot>>
    ELSE /\ batch' = Tail(batch)
         /\ slot' = slot + 1
         /\ pc' = IF Len(batch) = 1 THEN "wait" ELSE "event"
         /\ cur' = 0
         /\ UNCHANGED program

Goto(label) == pc' = label /\ UNCHANGED <<program, cur, batch, slot>>

(* waiter_init: a connection that fails is a NULL pointer to a call that   *)
(* looks into it, before the signal handlers are installed.                *)
WaiterInit ==
    /\ pc = "open"
    /\ \/ IF IsLast(cur) THEN pc' = "init" /\ cur' = 0 ELSE pc' = "open" /\ cur' = cur + 1
       \/ pc' = "done" /\ UNCHANGED cur
    /\ UNCHANGED <<program, batch, slot, waiter, conn, epoll>>

EnterFromMain ==
    /\ pc = "init"
    /\ Goto("loop")
    /\ \/ TRUE \in AddEpoll /\ EpollAdd(cur, {"IN"})
       \/ FALSE \in AddEpoll /\ UNCHANGED epoll
    /\ UNCHANGED <<waiter, conn>>

EpollWait ==
    /\ pc = "wait"
    /\ WaitForEvents
    /\ pc' = "event"
    /\ UNCHANGED <<program, cur, waiter, conn>>

EnterFromEvent ==
    /\ pc = "event"
    /\ cur' = batch[1].w
    /\ pc' = "loop"
    /\ UNCHANGED <<program, batch, slot, waiter, conn, epoll>>

-----------------------------------------------------------------------------
(* mysql_query_loop: the switch, and the labels it falls through to.       *)

QueryStart ==
    /\ pc = "loop"
    /\ waiter[cur].type = "CONN"
    /\ \E out \in Start(conn[cur], "query") :
        /\ conn' = [conn EXCEPT ![cur] = out.conn]
        /\ waiter' = [waiter EXCEPT ![cur].status = out.status, ![cur].type = "QUERY_CONT"]
        /\ Goto(IF out.status = {} THEN "res_start" ELSE "mod")
    /\ UNCHANGED epoll

QueryContAnew ==            \* mutant: QUERY_CONT falls into mysql_query_start
    /\ pc = "loop"
    /\ waiter[cur].type = "QUERY_CONT"
    /\ \E out \in Start(conn[cur], "query") :
        /\ conn' = [conn EXCEPT ![cur] = out.conn]
        /\ waiter' = [waiter EXCEPT ![cur].status = out.status]
        /\ Goto(IF out.status = {} THEN "res_start" ELSE "mod")
    /\ UNCHANGED epoll

QueryCont ==
    /\ pc = "loop"
    /\ waiter[cur].type = "QUERY_CONT"
    /\ \E out \in Cont(conn[cur], waiter[cur].status) :
        /\ conn' = [conn EXCEPT ![cur] = out.conn]
        /\ waiter' = [waiter EXCEPT ![cur].status = out.status]
        /\ Goto(IF out.status = {} THEN "res_start" ELSE "mod")
    /\ UNCHANGED epoll

ResStartAtOnce ==           \* mutant: the status of mysql_store_result is not looked at
    /\ pc = "res_start"
    /\ \E out \in Start(conn[cur], "store"), n \in 0..MaxRows :
        /\ conn' = [conn EXCEPT ![cur] = out.conn]
        /\ waiter' = [waiter EXCEPT ![cur] = [Stored(cur, out, n) EXCEPT !.type = "RES_CONT"]]
        /\ Goto("row")
    /\ UNCHANGED epoll

(* The error of a query is printed and forgotten.                          *)
ResStart ==
    /\ pc = "res_start"
    /\ \E out \in Start(conn[cur], "store"), n \in 0..MaxRows :
        /\ conn' = [conn EXCEPT ![cur] = out.conn]
        /\ waiter' = [waiter EXCEPT ![cur] = [Stored(cur, out, n) EXCEPT !.type = "RES_CONT"]]
        /\ Goto(IF out.status = {} THEN "row" ELSE "mod")
    /\ UNCHANGED epoll

ResCont ==
    /\ pc = "loop"
    /\ waiter[cur].type = "RES_CONT"
    /\ \E out \in Cont(conn[cur], waiter[cur].status), n \in 0..MaxRows :
        /\ conn' = [conn EXCEPT ![cur] = out.conn]
        /\ waiter' = [waiter EXCEPT ![cur] = Stored(cur, out, n)]
        /\ Goto(IF out.status = {} THEN "row" ELSE "mod")
    /\ UNCHANGED epoll

FetchRowPastEnd ==          \* mutant: the NULL behind the last row is not looked for
    /\ pc = "row"
    /\ \/ waiter[cur].res = "NULL" /\ Goto("destroy") /\ UNCHANGED waiter
       \/ waiter[cur].res # "NULL" /\ waiter[cur].rows = 0 /\ Goto("free") /\ UNCHANGED waiter
       \/ /\ waiter[cur].res # "NULL"
          /\ waiter' = [waiter EXCEPT ![cur].rows = @ - 1]
          /\ UNCHANGED main
    /\ UNCHANGED <<conn, epoll>>

(* The rows of a stored result never make fetch_row wait; fetching from a  *)
(* NULL result raises SIGSEGV, whose handler is waiter_destroy.            *)
FetchRow ==
    /\ pc = "row"
    /\ \/ waiter[cur].res = "NULL" /\ Goto("destroy") /\ UNCHANGED waiter
       \/ waiter[cur].res # "NULL" /\ waiter[cur].rows = 0 /\ Goto("free") /\ UNCHANGED waiter
       \/ /\ waiter[cur].res # "NULL"
          /\ waiter[cur].rows > 0
          /\ waiter' = [waiter EXCEPT ![cur].rows = @ - 1]
          /\ UNCHANGED main
    /\ UNCHANGED <<conn, epoll>>

FreeStart ==
    /\ pc = "free"
    /\ waiter' = [waiter EXCEPT ![cur].res = FreeResult(@), ![cur].type = "FIN"]
    /\ Return
    /\ UNCHANGED <<conn, epoll>>

Fin ==
    /\ pc = "loop"
    /\ waiter[cur].type = "FIN"
    /\ EpollDel(cur)
    /\ Return
    /\ UNCHANGED <<waiter, conn>>

UpdateEpollIn ==            \* mutant: always waits for EPOLLIN
    /\ pc = "mod"
    /\ EpollMod(cur, {"IN"})
    /\ Return
    /\ UNCHANGED <<waiter, conn>>

UpdateEpoll ==
    /\ pc = "mod"
    /\ EpollMod(cur, Mask(waiter[cur].status))
    /\ Return
    /\ UNCHANGED <<waiter, conn>>

WaiterDestroy ==
    /\ pc = "destroy"
    /\ Goto("done")
    /\ UNCHANGED <<waiter, conn, epoll>>

-----------------------------------------------------------------------------
LoopMain == WaiterInit \/ EnterFromMain \/ EpollWait \/ EnterFromEvent

QueryLoop ==
    \/ QueryStart
    \/ QueryCont
    \/ ResStart
    \/ ResCont
    \/ FetchRow
    \/ FreeStart
    \/ Fin
    \/ UpdateEpoll

LoopProgram == LoopMain \/ QueryLoop \/ WaiterDestroy
=============================================================================
