---------------------------- MODULE MysqlPrograms ----------------------------
(***************************************************************************)
(* The programs that use the MariaDB client library without blocking, side *)
(* by side: which one runs is chosen at the start.                         *)
(***************************************************************************)
EXTENDS MysqlLoop, MysqlIfAsyn, MysqlSequential

allVars == <<vars, crossed, stage, rounds>>

Init ==
    /\ ClientInit
    /\ program \in {"mysql", "mysql_if_asyn"} \cup SequentialPrograms
    /\ pc = IF program \in SequentialPrograms THEN "call" ELSE "open"
    /\ crossed = FALSE
    /\ stage = 1
    /\ rounds = 0

Working ==
    \/ program = "mysql" /\ LoopProgram /\ UNCHANGED <<crossed, stage, rounds>>
    \/ program = "mysql_if_asyn" /\ AsynProgram /\ UNCHANGED <<stage, rounds>>
    \/ program \in SequentialPrograms /\ SequentialWorking /\ UNCHANGED crossed

Interrupted == program \in SequentialPrograms /\ WaitGivesUp /\ UNCHANGED crossed

Client == Working \/ Interrupted

Server == Database /\ UNCHANGED <<crossed, stage, rounds>>

Next == Client \/ Server

Spec == Init /\ [][Next]_allVars

(* The programs are single threads that run on; the database server gets   *)
(* around to every connection.  No wait is obliged to give up.             *)
Answers(w) == Answer(w) /\ UNCHANGED <<crossed, stage, rounds>>
FairSpec   == Spec /\ WF_allVars(Working) /\ \A w \in Waiters : WF_allVars(Answers(w))

-----------------------------------------------------------------------------
Pending(w) == conn[w].op # "none"

(* A continuation is called exactly when its operation is pending, however *)
(* often it was suspended and whatever other connections do meanwhile.     *)
(* mysql_if_asyn.c alone breaks this rule of the library, in two places:   *)
(* once a query has been continued on another's connection, and on a       *)
(* connection whose rows are fetched or have been.                         *)
Fetched(w) == waiter[w].type = "ROW" \/ (cur = w /\ pc \in {"free", "destroy", "done"})

ContinuesPending ==
    \A w \in Waiters : conn[w].outOfSync =>
        program = "mysql_if_asyn" /\ (crossed \/ Fetched(w))

(* An operation that is pending while main sleeps in epoll_wait is watched *)
(* for what it waits for, and the event is on its way if that has happened *)
(* already: epoll_ctl after every call, with the status of that call.  (Of *)
(* descriptors that are registered; and in mysql_if_asyn.c until a query   *)
(* is continued on the connection of another waiter.)                      *)
PendingIsWatched ==
    \A w \in Waiters :
        pc = "wait" /\ Pending(w) /\ interest[w] # {} /\ ~crossed =>
            /\ Mask(conn[w].want) \subseteq interest[w]
            /\ conn[w].can \/ conn[w].gone => w \in ready

(* Nothing but an error nobody looked at makes the programs crash: as long *)
(* as every operation succeeds, no rows are fetched from a NULL result.    *)
CrashOnlyAfterError ==
    pc \in {"destroy", "crash"} =>
        \E w \in Waiters : conn[w].failed \/ conn[w].outOfSync

(* A result is freed once: not again by a later event, and not left over   *)
(* when a program that frees its results ends.  (mysql_if_asyn.c does free *)
(* it again, for an event on a finished query and when it is terminated.)  *)
ResultFreedOnce ==
    /\ \A w \in Waiters : waiter[w].res = "freed twice" =>
           program = "mysql_if_asyn" /\ (conn[w].readFreed \/ pc = "done")
    /\ pc = "done" /\ program \in SequentialPrograms \ {"mysql2"} =>
           waiter[0].res # "live"

(* Every operation that is waited for ends: the wake-up is not lost between*)
(* the call that was suspended, epoll_ctl and epoll_wait, a program that   *)
(* spins sees the answer, and one that polls is not left polling.          *)
EveryOperationEnds ==
    \A w \in Waiters :
        (Pending(w) /\ (interest[w] # {} \/ program \in SequentialPrograms))
            ~> (~Pending(w) \/ crossed \/ pc \in {"done", "crash"})
=============================================================================
