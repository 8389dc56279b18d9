----------------------------- MODULE MysqlIfAsyn -----------------------------
(***************************************************************************)
(* src/src/mysql_if_asyn.c: the program of mysql.c with the state machine  *)
(* written out in main, once for the start and once for each kind of       *)
(* event.  It does add its descriptors to the epoll instance.  Its copies  *)
(* differ from each other:                                                 *)
(*    - the first call fetches every row with mysql_fetch_row_start; the   *)
(*      events fetch the first row so and the next with a continuation of  *)
(*      a fetch that is not pending, which returns no row or crashes: the  *)
(*      rows behind the first are lost;                                    *)
(*    - when all rows are fetched the result is freed and the waiter waits *)
(*      for an event on it (type ROW), which continues a fetch on the      *)
(*      freed result;                                                      *)
(*    - an event of type QUERY_CONT continues the query of waiter[i],      *)
(*      where i is the position of the event, not of its waiter, and then  *)
(*      goes on as if it had been that of the event's waiter.              *)
(* QUERY_START is never the type of a waiter: that branch is left out, as  *)
(* is mysql_query_loop, which nobody calls here.                           *)
(***************************************************************************)
EXTENDS MysqlClient

VARIABLE
    crossed     (* whether a query was continued on another's connection    *)

asynVars == <<vars, crossed>>

Step(label) == pc' = label /\ UNCHANGED <<program, cur, batch, slot>>

AtStart == batch = << >>

(* The end of the body of either loop of main.                             *)
NextWaiterOrEvent ==
    IF AtStart
    THEN /\ IF cur + 1 \in Waiters THEN pc' = "add" /\ cur' = cur + 1
                                   ELSE pc' = "wait" /\ cur' = 0
         /\ UNCHANGED <<program, batch, slot>>
    ELSE /\ batch' = Tail(batch)
         /\ slot' = slot + 1
         /\ pc' = IF Len(batch) = 1 THEN "wait" ELSE "event"
         /\ cur' = 0
         /\ UNCHANGED program

AsynWaiterInit ==
    /\ pc = "open"
    /\ \/ IF cur + 1 \in Waiters THEN pc' = "open" /\ cur' = cur + 1
                                 ELSE pc' = "add" /\ cur' = 0
       \/ pc' = "done" /\ UNCHANGED cur
    /\ UNCHANGED <<program, batch, slot, waiter, conn, epoll, crossed>>

AddWaiter ==
    /\ pc = "add"
    /\ EpollAdd(cur, {"IN"})
    /\ Step("query_start")
    /\ UNCHANGED <<waiter, conn, crossed>>

(* Only here is the error of a query looked at, and ends the program.      *)
StartQuery ==
    /\ pc = "query_start"
    /\ \E out \in Start(conn[cur], "query") :
        /\ conn' = [conn EXCEPT ![cur] = out.conn]
        /\ waiter' = [waiter EXCEPT ![cur].status = out.status,
                                    ![cur].type = IF out.status = {} THEN @ ELSE "QUERY_CONT"]
        /\ Step(IF out.status # {} THEN "mod" ELSE IF out.ok THEN "res_start" ELSE "destroy")
    /\ UNCHANGED <<epoll, crossed>>

StoreResult ==
    /\ pc = "res_start"
    /\ \E out \in Start(conn[cur], "store"), n \in 0..MaxRows :
        /\ conn' = [conn EXCEPT ![cur] = out.conn]
        /\ waiter' = [waiter EXCEPT ![cur] = [Stored(cur, out, n)
                         EXCEPT !.type = IF out.status = {} THEN @ ELSE "RES_CONT"]]
        /\ Step(IF out.status # {} THEN "mod"
                ELSE IF AtStart /\ ~out.ok THEN "destroy" ELSE "row")
    /\ UNCHANGED <<epoll, crossed>>

(* mysql_fetch_row_start, again for every row at the start.                *)
FetchRows ==
    /\ pc = "row"
    /\ \/ waiter[cur].res = "NULL" /\ Step("destroy") /\ UNCHANGED waiter
       \/ waiter[cur].res # "NULL" /\ waiter[cur].rows = 0 /\ Step("free") /\ UNCHANGED waiter
       \/ /\ waiter[cur].res # "NULL"
          /\ waiter[cur].rows > 0
          /\ waiter' = [waiter EXCEPT ![cur].rows = @ - 1]
          /\ Step(IF AtStart THEN "row" ELSE "row_cont")
    /\ UNCHANGED <<conn, epoll, crossed>>

(* mysql_fetch_row_cont with nothing pending: out of sync and no row, or   *)
(* the NULL handle of a stored result, depending on the library.           *)
ContinueRows ==
    /\ pc = "row_cont"
    /\ conn' = [conn EXCEPT ![cur].outOfSync = TRUE,
                            ![cur].readFreed = @ \/ waiter[cur].res # "live"]
    /\ Step("free") \/ Step("destroy")
    /\ UNCHANGED <<waiter, epoll, crossed>>

FreeRows ==
    /\ pc = "free"
    /\ waiter' = [waiter EXCEPT ![cur].res = FreeResult(@), ![cur].type = "ROW"]
    /\ Step(IF waiter[cur].type = "ROW" THEN "skip" ELSE "mod")
    /\ UNCHANGED <<conn, epoll, crossed>>

ModifyNot ==                \* mutant: no update_epoll
    /\ pc \in {"mod", "skip"}
    /\ UNCHANGED epoll
    /\ NextWaiterOrEvent
    /\ UNCHANGED <<waiter, conn, crossed>>

(* update_epoll, which the branch of ROW lacks.                            *)
Modify ==
    /\ \/ pc = "mod" /\ EpollMod(cur, Mask(waiter[cur].status))
       \/ pc = "skip" /\ UNCHANGED epoll
    /\ NextWaiterOrEvent
    /\ UNCHANGED <<waiter, conn, crossed>>

-----------------------------------------------------------------------------
AsynEpollWait ==
    /\ pc = "wait"
    /\ WaitForEvents
    /\ pc' = "event"
    /\ UNCHANGED <<program, cur, waiter, conn, crossed>>

FindWaiter ==
    /\ pc = "event"
    /\ cur' = batch[1].w
    /\ pc' = IF waiter[cur'].type = "QUERY_CONT" THEN "query_cont"
             ELSE IF waiter[cur'].type = "RES_CONT" THEN "res_cont" ELSE "row_cont"
    /\ UNCHANGED <<program, batch, slot, waiter, conn, epoll, crossed>>

(* epoll_to_mysql: what happened, which is never that the time is over.    *)
Happened(ev) == {flag \in {"READ", "WRITE"} : \/ flag = "READ"  /\ "IN" \in ev
                                              \/ flag = "WRITE" /\ "OUT" \in ev}

ContinueQuery ==
    /\ pc = "query_cont"
    /\ crossed' = (crossed \/ slot # cur)
    /\ \E out \in Cont(conn[slot], Happened(batch[1].ev)) :
        /\ conn' = [conn EXCEPT ![slot] = out.conn]
        /\ waiter' = [waiter EXCEPT ![cur].status = out.status]
        /\ Step(IF out.status = {} THEN "res_start" ELSE "mod")
    /\ UNCHANGED epoll

ContinueStore ==
    /\ pc = "res_cont"
    /\ \E out \in Cont(conn[cur], Happened(batch[1].ev)), n \in 0..MaxRows :
        /\ conn' = [conn EXCEPT ![cur] = out.conn]
        /\ waiter' = [waiter EXCEPT ![cur] = Stored(cur, out, n)]
        /\ Step(IF out.status = {} THEN "row" ELSE "mod")
    /\ UNCHANGED <<epoll, crossed>>

(* exit, and the handler of SIGSEGV: every result is freed once more.      *)
DestroyWaiters ==
    /\ pc = "destroy"
    /\ waiter' = [w \in Waiters |-> [waiter[w] EXCEPT !.res = FreeResult(@)]]
    /\ Step("done")
    /\ UNCHANGED <<conn, epoll, crossed>>

-----------------------------------------------------------------------------
AsynStart == AsynWaiterInit \/ AddWaiter \/ StartQuery
AsynChain == StoreResult \/ FetchRows \/ ContinueRows \/ FreeRows \/ Modify
AsynEvent == AsynEpollWait \/ FindWaiter \/ ContinueQuery \/ ContinueStore

AsynProgram == AsynStart \/ AsynChain \/ AsynEvent \/ DestroyWaiters
=============================================================================
