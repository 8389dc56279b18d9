----------------------------- MODULE MysqlClient -----------------------------
(***************************************************************************)
(* The non-blocking interface of the MariaDB client library, as the        *)
(* programs of this repository use it, and the sockets of its connections  *)
(* in an edge-triggered epoll instance.  None of this is code of the       *)
(* repository.                                                             *)
(*                                                                         *)
(* X_start begins operation X, X_cont goes on with it.  Both return the    *)
(* empty status when X is done, or what to wait for (READ, WRITE) when it  *)
(* is suspended.  An operation waits at most once for room to send and     *)
(* then once for the reply, and may fail each time it runs.  A time-out    *)
(* (of the option file, for all connections) is kept by the caller.        *)
(***************************************************************************)
EXTENDS Naturals, FiniteSets, Sequences, SequencesExt

CONSTANTS
    Waiters,    (* the indices of the array waiter                          *)
    MaxRows     (* bound: rows of a result                                  *)

ASSUME ClientAssumption ==
    /\ Waiters # {} /\ IsFiniteSet(Waiters) /\ Waiters = 0..(Cardinality(Waiters) - 1)
    /\ MaxRows \in Nat

VARIABLES
    program,    (* which of the programs runs                               *)
    pc,         (* where it is                                              *)
    cur,        (* the waiter it works for                                  *)
    waiter,     (* the array of the programs                                *)
    batch,      (* waiter_event, from the event that is handled on          *)
    slot,       (* the index of that event in waiter_event                  *)
    conn,       (* each connection, as the library and the server see it    *)
    interest,   (* the mask its socket is registered with; {} if none       *)
    ready       (* the ready list of the epoll instance                     *)

main  == <<program, pc, cur, batch, slot>>
epoll == <<interest, ready>>
vars  == <<main, waiter, conn, epoll>>

Ops    == {"none", "connect", "query", "store", "close"}
Status == SUBSET {"READ", "WRITE", "TIMEOUT"}

MysqlTypeOK ==
    /\ cur \in Waiters
    /\ slot \in Nat
    /\ batch \in Seq([w : Waiters, ev : SUBSET {"IN", "OUT"}])
    /\ waiter \in [Waiters ->
           [type : {"CONN", "QUERY_CONT", "RES_CONT", "ROW", "FIN"},
            status : Status, rows : 0..MaxRows,
            res : {"NULL", "live", "freed", "freed twice"}]]
    /\ conn \in [Waiters ->
           [op : Ops, want : Status, can : BOOLEAN, gone : BOOLEAN, answered : BOOLEAN,
            timed : BOOLEAN, failed : BOOLEAN, outOfSync : BOOLEAN, readFreed : BOOLEAN]]
    /\ interest \in [Waiters -> SUBSET {"IN", "OUT"}]
    /\ ready \in SUBSET Waiters

ClientInit ==
    /\ cur = 0
    /\ slot = 0
    /\ batch = << >>
    /\ waiter = [w \in Waiters |->
           [type |-> "CONN", status |-> {}, rows |-> 0, res |-> "NULL"]]
    /\ \E timed \in BOOLEAN : conn = [w \in Waiters |->
           [op |-> "none", want |-> {}, can |-> FALSE, gone |-> FALSE, answered |-> FALSE,
            timed |-> timed, failed |-> FALSE, outOfSync |-> FALSE, readFreed |-> FALSE]]
    /\ interest = [w \in Waiters |-> {}]
    /\ ready = {}

-----------------------------------------------------------------------------
(* The library.  A call has an outcome: the connection after it, the       *)
(* status it returns, and whether an operation that is done succeeded.     *)

Outcome(c, status, ok) == [conn |-> c, status |-> status, ok |-> ok]

(* A connection with a time-out asks to be told when that is over, too.    *)
Wanted(c, flag) == IF c.timed THEN {flag, "TIMEOUT"} ELSE {flag}

Suspended(c, op, flag) == [c EXCEPT !.op = op, !.want = Wanted(c, flag), !.can = FALSE]

Finished(c, op, ok) ==
    [c EXCEPT !.op = "none", !.want = {}, !.can = FALSE,
              !.answered = ok /\ op = "query", !.failed = @ \/ ~ok]

(* Only a query that succeeded has a result to store.                      *)
Possible(c, op) == ~c.gone /\ (op = "store" <=> c.answered)

Waits(c) == IF c.want = {} THEN {"READ", "WRITE"}
            ELSE IF "WRITE" \in c.want THEN {"READ"} ELSE {}

Runs(c, op) ==
    {Outcome(Finished(c, op, FALSE), {}, FALSE)}
        \cup (IF ~Possible(c, op) THEN {}
              ELSE {Outcome(Finished(c, op, TRUE), {}, TRUE)}
                       \cup {Outcome(Suspended(c, op, flag), Wanted(c, flag), FALSE) : flag \in Waits(c)})

(* CR_COMMANDS_OUT_OF_SYNC: a call that does not fit what is pending.      *)
OutOfSync(c) == {Outcome([c EXCEPT !.outOfSync = TRUE, !.failed = TRUE], {}, FALSE)}

Start(c, op) == IF c.op = "none" THEN Runs(c, op) ELSE OutOfSync(c)

(* A continuation goes on with whatever is pending on the connection.  It  *)
(* is told what happened; it looks for itself unless that is a time-out.   *)
Cont(c, status) ==
    IF c.op = "none" THEN OutOfSync(c)
    ELSE IF "TIMEOUT" \in status
    THEN {Outcome(Finished(c, c.op, FALSE), {}, FALSE)}
    ELSE IF c.can \/ c.gone THEN Runs(c, c.op)
    ELSE {Outcome(c, c.want, FALSE)}

(* The result pointer after mysql_store_result on waiter w.                *)
Stored(w, out, n) ==
    IF out.status # {} THEN [waiter[w] EXCEPT !.status = out.status]
    ELSE [waiter[w] EXCEPT !.status = {}, !.rows = IF out.ok THEN n ELSE 0,
                           !.res = IF out.ok THEN "live" ELSE "NULL"]

FreeResult(res) == CASE res = "NULL" -> "NULL"
                     [] res = "live" -> "freed"
                     [] OTHER -> "freed twice"

-----------------------------------------------------------------------------
(* The sockets.                                                            *)

PollFlags(c) ==
    {flag \in {"IN", "OUT"} :
        \/ c.gone
        \/ flag = "IN"  /\ c.can /\ "READ" \in c.want
        \/ flag = "OUT" /\ (c.can \/ "WRITE" \notin c.want)}

Mask(status) ==
    IF status = {} THEN {"IN"}
    ELSE {flag \in {"IN", "OUT"} : \/ flag = "IN"  /\ "READ" \in status
                                   \/ flag = "OUT" /\ "WRITE" \in status}

EpollAdd(w, mask) ==
    /\ interest' = [interest EXCEPT ![w] = mask]
    /\ ready' = IF PollFlags(conn[w]) \cap mask # {} THEN ready \cup {w} ELSE ready

(* A descriptor that was not added cannot be modified (ENOENT).            *)
EpollMod(w, mask) ==
    IF interest[w] = {} THEN UNCHANGED epoll ELSE EpollAdd(w, mask)

EpollDel(w) ==
    /\ interest' = [interest EXCEPT ![w] = {}]
    /\ ready' = ready \ {w}

Reportable == {w \in ready : PollFlags(conn[w]) \cap interest[w] # {}}
Event(w)   == [w |-> w, ev |-> PollFlags(conn[w]) \cap interest[w]]

(* The events come in any order.                                           *)
WaitForEvents ==
    /\ Reportable # {}
    /\ \E order \in SetToSeqs(Reportable) :
           batch' = [k \in DOMAIN order |-> Event(order[k])]
    /\ slot' = 0
    /\ ready' = {}
    /\ UNCHANGED interest

-----------------------------------------------------------------------------
(* The database server: what a suspended operation waits for happens, or   *)
(* the server drops the connection.                                        *)

Notify(w, flags) == ready' = IF interest[w] \cap flags # {} THEN ready \cup {w} ELSE ready

Answer(w) ==
    /\ conn[w].op # "none"
    /\ ~conn[w].can
    /\ ~conn[w].gone
    /\ conn' = [conn EXCEPT ![w].can = TRUE]
    /\ Notify(w, Mask(conn[w].want))
    /\ UNCHANGED <<main, waiter, interest>>

Drop(w) ==
    /\ ~conn[w].gone
    /\ conn' = [conn EXCEPT ![w].gone = TRUE]
    /\ Notify(w, {"IN", "OUT"})
    /\ UNCHANGED <<main, waiter, interest>>

Database == pc \notin {"done", "crash"} /\ \E w \in Waiters : Answer(w) \/ Drop(w)
=============================================================================
