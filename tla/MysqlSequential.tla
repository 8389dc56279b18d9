--------------------------- MODULE MysqlSequential ---------------------------
(***************************************************************************)
(* The programs that run one query at a time on one connection:            *)
(*    - mysql_doit of src/src/server-4.c, one call of it;                  *)
(*    - doit of src/src/async_example.c;                                   *)
(*    - src/src/mysql_while_asyn.c, which repeats a non-blocking and then  *)
(*      a blocking query;                                                  *)
(*    - main of src/src/mysql2.c.                                          *)
(* Each is a list of stages: a library operation, how the program goes on  *)
(* when the operation is suspended, and what it does when it fails.        *)
(*    how     "poll": wait_for_mysql, then X_cont with what happened       *)
(*            "spin": X_cont at once, with the status just returned        *)
(*            "stop": leaves the chain of calls, and the operation pending *)
(*            "block": the call itself waits                               *)
(*    checks  whether a failure ends the program                           *)
(***************************************************************************)
EXTENDS MysqlClient

CONSTANTS
    LOOPS,      (* loop_times                                               *)
    Interrupts  (* whether a signal may interrupt poll                      *)

ASSUME SequentialAssumption ==
    /\ LOOPS \in Nat \ {0}
    /\ Interrupts \in BOOLEAN

VARIABLES
    stage,      (* the index of the stage that runs                         *)
    rounds      (* how often the stages have run                            *)

seqVars == <<vars, stage, rounds>>

Stage(op, how, checks) == [op |-> op, how |-> how, checks |-> checks]

Opened == Stage("connect", "block", TRUE)   \* get_mysql_conn

MysqlDoit ==
    << Opened,
       Stage("query", "poll", TRUE),
       Stage("use", "block", TRUE),
       Stage("free", "block", FALSE),
       Stage("close", "block", FALSE) >>

Doit ==
    << Stage("connect", "spin", TRUE),
       Stage("query", "spin", TRUE),
       Stage("store", "spin", FALSE),
       Stage("rows", "spin", FALSE),
       Stage("free", "block", FALSE),
       Stage("close", "spin", FALSE) >>

mysql_do_query ==
    << Stage("query", "spin", FALSE),
       Stage("store", "spin", FALSE),
       Stage("rows", "spin", FALSE),
       Stage("free", "spin", FALSE) >>

mysql_do_query2 ==
    << Stage("query", "block", FALSE),
       Stage("store", "block", FALSE),
       Stage("rows", "block", FALSE),
       Stage("free", "block", FALSE) >>

mysql2_main ==
    << Opened,
       Stage("query", "stop", FALSE),
       Stage("store", "stop", TRUE),
       Stage("rows", "block", FALSE) >>

SequentialPrograms == {"server-4", "async_example", "mysql_while_asyn", "mysql2"}

(* consume_time1 and consume_time2: LOOPS queries of either kind, on the   *)
(* connection waiter_init opened.                                          *)
Repeats == program = "mysql_while_asyn"

Stages ==
    CASE program = "server-4"         -> MysqlDoit
      [] program = "async_example"    -> Doit
      [] program = "mysql2"           -> mysql2_main
      [] program = "mysql_while_asyn" ->
             IF rounds < LOOPS THEN mysql_do_query ELSE mysql_do_query2

Now == Stages[stage]

At(label, op) == pc = label /\ program \in SequentialPrograms /\ Now.op = op
Move(label)   == pc' = label /\ UNCHANGED <<program, cur, batch, slot>>

-----------------------------------------------------------------------------
AtEnd == stage = Len(Stages)

(* The next stage, the next round, or the end of main.                     *)
Advance ==
    IF ~AtEnd THEN stage' = stage + 1 /\ Move("call") /\ UNCHANGED rounds
    ELSE IF Repeats /\ rounds + 1 < 2 * LOOPS
    THEN stage' = 1 /\ rounds' = rounds + 1 /\ Move("call")
    ELSE Move("done") /\ UNCHANGED <<stage, rounds>>

Stay(label) == Move(label) /\ UNCHANGED <<stage, rounds>>

(* After an operation returned: it is done, has failed and the program     *)
(* looks, or has to be continued.                                          *)
Continue(out) ==
    IF out.status # {}
    THEN Stay(CASE Now.how = "poll" -> "poll" [] Now.how = "stop" -> "done" [] OTHER -> "cont")
    ELSE IF ~out.ok /\ Now.checks THEN Stay("done")
    ELSE Advance

Makes(outs) ==
    \E out \in outs, n \in 0..MaxRows :
        /\ conn' = [conn EXCEPT ![0] = out.conn]
        /\ waiter' = [waiter EXCEPT ![0] =
               IF Now.op = "store" THEN Stored(0, out, n) ELSE [@ EXCEPT !.status = out.status]]
        /\ Continue(out)

CallStart ==
    /\ pc = "call"
    /\ program \in SequentialPrograms
    /\ Now.op \in Ops
    /\ Makes(Start(conn[0], Now.op))
    /\ UNCHANGED epoll

(* "spin" asks again at once, and hands the status it got to X_cont as     *)
(* what happened, a time-out included.                                     *)
CallCont ==
    /\ pc = "cont"
    /\ Now.how = "spin"
    /\ Makes(Cont(conn[0], waiter[0].status))
    /\ UNCHANGED epoll

(* wait_for_mysql and the continuation, with what happened; a blocking     *)
(* call waits so inside the library.                                       *)
Waiting == pc = "poll" \/ (pc = "cont" /\ Now.how = "block")

WaitAndCont ==
    /\ Waiting
    /\ conn[0].can \/ conn[0].gone
    /\ Makes(Cont(conn[0], conn[0].want \ {"TIMEOUT"}))
    /\ UNCHANGED epoll

(* Either may wait for as long as the connection allows; a poll of         *)
(* wait_for_mysql that a signal interrupts is reported as a time-out too.  *)
WaitGivesUp ==
    /\ Waiting
    /\ conn[0].timed \/ (pc = "poll" /\ Interrupts)
    /\ Makes(Cont(conn[0], {"TIMEOUT"}))
    /\ UNCHANGED epoll

(* mysql_use_result only looks whether a query was answered.               *)
UseResult ==
    /\ At("call", "use")
    /\ waiter' = [waiter EXCEPT ![0].res = IF conn[0].answered THEN "live" ELSE "NULL"]
    /\ IF conn[0].answered THEN Advance ELSE Stay("done")
    /\ UNCHANGED <<conn, epoll>>

(* The rows of a stored result; from no result, SIGSEGV.                   *)
SequentialRows ==
    /\ At("call", "rows")
    /\ \/ waiter[0].res = "NULL" /\ Stay("crash") /\ UNCHANGED waiter
       \/ /\ waiter[0].res # "NULL"
          /\ waiter[0].rows > 0
          /\ waiter' = [waiter EXCEPT ![0].rows = @ - 1]
          /\ UNCHANGED <<main, stage, rounds>>
       \/ /\ waiter[0].res # "NULL"
          /\ waiter[0].rows = 0
          /\ Advance
          /\ UNCHANGED waiter
    /\ UNCHANGED <<conn, epoll>>

(* Freeing a result that was not read to its end discards what is left.    *)
FreeNot ==                  \* mutant: the result is not freed
    /\ At("call", "free")
    /\ UNCHANGED waiter
    /\ Advance
    /\ UNCHANGED <<conn, epoll>>

Free ==
    /\ At("call", "free")
    /\ waiter' = [waiter EXCEPT ![0].res = FreeResult(@)]
    /\ conn' = [conn EXCEPT ![0].answered = FALSE]
    /\ Advance
    /\ UNCHANGED epoll

SequentialWorking ==
    \/ CallStart
    \/ CallCont
    \/ WaitAndCont
    \/ UseResult
    \/ SequentialRows
    \/ Free

SequentialProgram == SequentialWorking \/ WaitGivesUp
=============================================================================
