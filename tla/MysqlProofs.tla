----------------------------- MODULE MysqlProofs -----------------------------
(***************************************************************************)
(* The programs that use the MariaDB client library, proved for every      *)
(* number of waiters, every length of a result and every number of rounds, *)
(* whichever of them runs.  The argument is that a program never loses     *)
(* step with the library: the status it keeps for a waiter is what the     *)
(* connection waits for, until mysql_if_asyn.c continues a query on the    *)
(* connection of another waiter.                                           *)
(***************************************************************************)
EXTENDS MysqlPrograms, FiniteSetTheorems, SequenceTheorems, TLAPS

LoopLabels ==
    {"open", "init", "loop", "res_start", "row", "free", "mod", "wait", "event", "destroy", "done"}
AsynLabels ==
    {"open", "add", "query_start", "res_start", "row", "row_cont", "free", "mod", "skip", "wait",
     "event", "query_cont", "res_cont", "destroy", "done"}
SequentialLabels == {"call", "cont", "poll", "done", "crash"}

(* Where no waiter is worked for, and where the call on it has returned.   *)
Between  == {"open", "init", "add", "wait", "event"}
Returned == {"res_start", "row", "row_cont", "free", "skip"}

Types  == {"CONN", "QUERY_CONT", "RES_CONT", "ROW", "FIN"}
Results == {"NULL", "live", "freed", "freed twice"}
Records == [type : Types, status : Status, rows : 0..MaxRows, res : Results]
Events == [w : Waiters, ev : SUBSET {"IN", "OUT"}]
Conns ==
    [op : Ops, want : Status, can : BOOLEAN, gone : BOOLEAN, answered : BOOLEAN, timed : BOOLEAN,
     failed : BOOLEAN, outOfSync : BOOLEAN, readFreed : BOOLEAN]

(* A connection: an operation is pending when it waits for something.      *)
WellFormed(c) ==
    /\ c.want = {} <=> c.op = "none"
    /\ c.op # "none" => "READ" \in c.want \/ "WRITE" \in c.want
    /\ "TIMEOUT" \in c.want => c.timed

(* Where the programs are, and which event they handle.                    *)
ControlInv ==
    /\ program \in {"mysql", "mysql_if_asyn"} \cup SequentialPrograms
    /\ program = "mysql" => pc \in LoopLabels
    /\ program = "mysql_if_asyn" => pc \in AsynLabels
    /\ program \in SequentialPrograms => pc \in SequentialLabels
    /\ crossed \in BOOLEAN /\ (crossed => program = "mysql_if_asyn")
    /\ pc \in {"open", "init", "add", "query_start", "wait"} => batch = << >>
    /\ pc \in {"event", "query_cont", "res_cont"} => batch # << >>
    /\ batch # << >> => /\ slot + Len(batch) <= Cardinality(Waiters)
                        /\ pc \notin Between => batch[1].w = cur

(* Every waiter and its connection are in step.                            *)
ConnInv ==
    \A w \in Waiters :
        /\ WellFormed(conn[w])
        /\ ~crossed => waiter[w].status = conn[w].want
        /\ conn[w].outOfSync => program = "mysql_if_asyn"
        /\ waiter[w].res = "freed twice" =>
              program = "mysql_if_asyn" /\ (conn[w].readFreed \/ pc = "done")

(* What the call that comes next relies on.                                *)
HandlerInv ==
    /\ pc \in Returned => waiter[cur].status = {}
    /\ pc = "query_cont" => waiter[cur].type = "QUERY_CONT"
    /\ pc = "res_cont" => waiter[cur].type = "RES_CONT"
    /\ pc = "row" => \/ waiter[cur].res = "live"
                     \/ waiter[cur].res = "NULL" /\ conn[cur].failed
    /\ pc = "free" => \/ waiter[cur].res = "live"
                      \/ program = "mysql_if_asyn" /\ conn[cur].readFreed
    /\ CrashOnlyAfterError

(* The type of a waiter tells whether an operation of it is pending.       *)
IdleTypes    == {"CONN", "ROW", "FIN"}
PendingTypes == {"QUERY_CONT", "RES_CONT"}

TypesInv ==
    \A w \in Waiters :
        /\ program \notin SequentialPrograms /\ waiter[w].type \in IdleTypes =>
              waiter[w].status = {}
        /\ program = "mysql" /\ waiter[w].type \in PendingTypes =>
              waiter[w].status # {} \/ (w = cur /\ pc \in Returned \cup {"destroy", "done"})

(* mysql_if_asyn.c starts the queries in the order of the waiters.         *)
StartInv ==
    program = "mysql_if_asyn" /\ batch = << >> => \A w \in Waiters :
        \/ pc = "open"
        \/ pc \in {"add", "query_start"} /\ w >= cur
        \/ pc \in Returned \cup {"mod"} /\ w > cur
        => conn[w].op = "none"

(* Whoever waits is watched, unless the call on it has just been made.     *)
Reported(w) == \E k \in DOMAIN batch : batch[k].w = w

Guarded(w) ==
    Pending(w) /\ interest[w] # {} =>
        /\ Mask(conn[w].want) \subseteq interest[w]
        /\ conn[w].can \/ conn[w].gone => w \in ready \/ Reported(w)

WatchInv ==
    ~crossed /\ program \notin SequentialPrograms =>
        \A w \in Waiters : w # cur \/ pc \in Between => Guarded(w)

(* The stages of the programs that run one query at a time.                *)
StageInv ==
    program \in SequentialPrograms =>
        /\ rounds \in Nat /\ stage \in 1..Len(Stages)
        /\ pc = "call" => conn[0].op = "none"
        /\ pc \in {"cont", "poll"} => conn[0].op # "none" /\ Now.op \in Ops
        /\ pc = "poll" => program = "server-4"
        /\ pc # "done" =>
            /\ Now.op \in Ops \cup {"use"} => waiter[0].res \in {"NULL", "freed"}
            /\ Now.op = "rows" => \/ waiter[0].res = "live"
                                  \/ waiter[0].res = "NULL" /\ conn[0].failed
            /\ Now.op = "free" => waiter[0].res = "live"
        /\ pc = "done" => program = "mysql2" \/ waiter[0].res \in {"NULL", "freed"}

MysqlInv ==
    MysqlTypeOK /\ ControlInv /\ ConnInv /\ HandlerInv /\ TypesInv /\ StartInv /\ WatchInv /\ StageInv

-----------------------------------------------------------------------------
(* The library: what a call makes of the connection.                       *)

Ran(c, out) ==
    /\ out.conn \in Conns /\ WellFormed(out.conn)
    /\ out.status \in Status /\ out.ok \in BOOLEAN
    /\ out.conn.timed = c.timed /\ out.conn.readFreed = c.readFreed
    /\ c.failed => out.conn.failed
    /\ out.status = {} /\ ~out.ok => out.conn.failed

InStep(c, out) == out.status = out.conn.want /\ out.conn.outOfSync = c.outOfSync

LEMMA SuspendedIs ==
    ASSUME NEW c \in Conns, NEW op \in Ops \ {"none"}, NEW flag \in {"READ", "WRITE"},
           NEW out, out = Outcome(Suspended(c, op, flag), Wanted(c, flag), FALSE)
    PROVE  Ran(c, out) /\ InStep(c, out)
PROOF
<1>1. Wanted(c, flag) \in Status /\ flag \in Wanted(c, flag)
      /\ ("TIMEOUT" \in Wanted(c, flag) => c.timed)
  BY DEF Wanted, Status
<1>2. QED
  BY <1>1 DEF Ran, InStep, Outcome, Suspended, Conns, WellFormed

LEMMA FinishedIs ==
    ASSUME NEW c \in Conns, NEW op \in Ops, NEW ok \in BOOLEAN,
           NEW out, out = Outcome(Finished(c, op, ok), {}, ok)
    PROVE  Ran(c, out) /\ InStep(c, out)
BY ZenonT(60) DEF Ran, InStep, Outcome, Finished, Conns, WellFormed, Status, Ops

LEMMA RunsAre ==
    ASSUME NEW c \in Conns, NEW op \in Ops \ {"none"}, NEW out \in Runs(c, op)
    PROVE  Ran(c, out) /\ InStep(c, out)
PROOF
<1>1. Waits(c) \subseteq {"READ", "WRITE"}
  BY DEF Waits
<1>2. \/ \E ok \in BOOLEAN : out = Outcome(Finished(c, op, ok), {}, ok)
      \/ \E flag \in {"READ", "WRITE"} : out = Outcome(Suspended(c, op, flag), Wanted(c, flag), FALSE)
  BY <1>1 DEF Runs
<1>3. CASE \E ok \in BOOLEAN : out = Outcome(Finished(c, op, ok), {}, ok)
  <2>1. PICK ok \in BOOLEAN : out = Outcome(Finished(c, op, ok), {}, ok)
    BY <1>3
  <2>2. op \in Ops
    OBVIOUS
  <2>3. QED
    BY <2>1, <2>2, FinishedIs
<1>4. CASE \E flag \in {"READ", "WRITE"} :
               out = Outcome(Suspended(c, op, flag), Wanted(c, flag), FALSE)
  <2>1. PICK flag \in {"READ", "WRITE"} :
               out = Outcome(Suspended(c, op, flag), Wanted(c, flag), FALSE)
    BY <1>4
  <2>2. QED
    BY <2>1, SuspendedIs
<1>5. QED
  BY <1>2, <1>3, <1>4

LEMMA OutOfSyncIs ==
    ASSUME NEW c \in Conns, WellFormed(c), NEW out \in OutOfSync(c)
    PROVE  Ran(c, out) /\ out.status = {}
           /\ out.conn.want = c.want
PROOF
<1> DEFINE d == [c EXCEPT !.outOfSync = TRUE, !.failed = TRUE]
<1>1. out = Outcome(d, {}, FALSE)
  BY DEF OutOfSync
<1>2. d \in Conns /\ d.failed /\ d.want = c.want /\ d.op = c.op /\ d.timed = c.timed
      /\ d.readFreed = c.readFreed
  BY DEF Conns
<1> HIDE DEF d
<1>3. out.conn = d /\ out.status = {} /\ out.ok = FALSE
  BY <1>1 DEF Outcome
<1>4. QED
  BY <1>2, <1>3 DEF Ran, WellFormed, Status

LEMMA StartIs ==
    ASSUME NEW c \in Conns, WellFormed(c), NEW op \in Ops \ {"none"}, NEW out \in Start(c, op)
    PROVE  /\ Ran(c, out)
           /\ c.op = "none" => InStep(c, out)
BY RunsAre, OutOfSyncIs DEF Start

LEMMA ContIs ==
    ASSUME NEW c \in Conns, WellFormed(c), NEW status \in Status, NEW out \in Cont(c, status)
    PROVE  /\ Ran(c, out)
           /\ out.status = out.conn.want
           /\ c.op # "none" => out.conn.outOfSync = c.outOfSync
PROOF
<1>1. CASE c.op = "none"
  BY <1>1, OutOfSyncIs DEF Cont, WellFormed
<1>2. CASE c.op # "none" /\ "TIMEOUT" \in status
  <2>1. out = Outcome(Finished(c, c.op, FALSE), {}, FALSE)
    BY <1>2 DEF Cont
  <2>2. QED
    BY ZenonT(60), <1>2, <2>1 DEF Ran, Outcome, Finished, Conns, WellFormed, Status, Ops
<1>3. CASE c.op # "none" /\ "TIMEOUT" \notin status /\ (c.can \/ c.gone)
  <2>1. out \in Runs(c, c.op) /\ c.op \in Ops \ {"none"}
    BY <1>3 DEF Cont, Conns
  <2>2. QED
    BY <1>3, <2>1, RunsAre DEF InStep
<1>4. CASE c.op # "none" /\ "TIMEOUT" \notin status /\ ~(c.can \/ c.gone)
  <2>1. out = Outcome(c, c.want, FALSE)
    BY <1>4 DEF Cont
  <2>2. QED
    BY <1>4, <2>1 DEF Ran, Outcome, Conns, WellFormed, Status
<1>5. QED
  BY <1>1, <1>2, <1>3, <1>4

LEMMA MysqlTypeIs ==
    MysqlTypeOK <=>
        /\ cur \in Waiters /\ slot \in Nat
        /\ batch \in Seq(Events)
        /\ waiter \in [Waiters -> Records] /\ conn \in [Waiters -> Conns]
        /\ interest \in [Waiters -> SUBSET {"IN", "OUT"}] /\ ready \in SUBSET Waiters
BY DEF MysqlTypeOK, Records, Conns, Types, Results, Events

LEMMA TailIs ==
    ASSUME NEW S, NEW s \in Seq(S), s # << >>
    PROVE  /\ Len(s) \in Nat /\ Len(s) > 0 /\ Len(Tail(s)) = Len(s) - 1
           /\ Tail(s) \in Seq(S)
           /\ Tail(s) = << >> <=> Len(s) = 1
           /\ \A k \in DOMAIN s : k # 1 => k - 1 \in DOMAIN Tail(s) /\ Tail(s)[k - 1] = s[k]
PROOF
<1>1. Len(s) \in Nat /\ Len(s) > 0
  BY EmptySeq
<1>2. /\ Tail(s) \in Seq(S) /\ Len(Tail(s)) = Len(s) - 1
      /\ \A i \in 1..Len(Tail(s)) : Tail(s)[i] = s[i + 1]
  BY HeadTailProperties
<1>3. DOMAIN s = 1..Len(s) /\ DOMAIN Tail(s) = 1..(Len(s) - 1)
  BY <1>2, LenProperties
<1>4. Tail(s) = << >> <=> Len(s) = 1
  <2>1. Len(<< >>) = 0 /\ (Tail(s) # << >> => Len(Tail(s)) \in Nat \ {0})
    BY <1>2, EmptySeq
  <2>2. Tail(s) = << >> => Len(Tail(s)) = 0
    BY <2>1
  <2>3. QED
    BY <1>1, <1>2, <2>1, <2>2
<1>5. ASSUME NEW k \in DOMAIN s, k # 1
      PROVE  k - 1 \in DOMAIN Tail(s) /\ Tail(s)[k - 1] = s[k]
  <2>1. k - 1 \in 1..(Len(s) - 1) /\ (k - 1) + 1 = k
    BY <1>1, <1>3, <1>5
  <2>2. QED
    BY <1>2, <1>3, <2>1
<1>6. QED
  BY <1>1, <1>2, <1>4, <1>5

LEMMA WaitersAre ==
    /\ 0 \in Waiters /\ Waiters \subseteq Nat /\ Cardinality(Waiters) \in Nat
    /\ \A n \in Nat : n < Cardinality(Waiters) => n \in Waiters
PROOF
<1>1. Cardinality(Waiters) \in Nat
  BY ClientAssumption, FS_CardinalityType
<1>2. QED
  BY <1>1, ClientAssumption

-----------------------------------------------------------------------------
(* A call for waiter y that works on connection x, which are the same one  *)
(* unless it crosses.                                                      *)
LEMMA CallFrame ==
    ASSUME MysqlInv, NEW x \in Waiters, NEW y \in Waiters, NEW out, Ran(conn[x], out),
           conn' = [conn EXCEPT ![x] = out.conn],
           waiter' \in [Waiters -> Records],
           \A w \in Waiters \ {y} : waiter'[w] = waiter[w],
           waiter'[y].status = out.status,
           waiter'[y].res \in {waiter[y].res, "NULL", "live"},
           program' = program, pc # "done",
           ~crossed' => ~crossed /\ x = y /\ out.status = out.conn.want,
           out.conn.outOfSync => conn[x].outOfSync \/ program = "mysql_if_asyn"
    PROVE  /\ conn' \in [Waiters -> Conns] /\ ConnInv'
           /\ conn'[x] = out.conn /\ \A w \in Waiters \ {x} : conn'[w] = conn[w]
           /\ \A w \in Waiters : conn[w].failed => conn'[w].failed
PROOF
<1>1. conn \in [Waiters -> Conns] /\ out.conn \in Conns
  BY MysqlTypeIs DEF MysqlInv, Ran
<1>2. conn'[x] = out.conn /\ \A w \in Waiters \ {x} : conn'[w] = conn[w]
  BY <1>1
<1>3. conn' \in [Waiters -> Conns]
  BY <1>1
<1>4. ASSUME NEW w \in Waiters
      PROVE  /\ WellFormed(conn'[w])
             /\ conn'[w].timed = conn[w].timed /\ conn'[w].readFreed = conn[w].readFreed
             /\ conn[w].failed => conn'[w].failed
  BY <1>2 DEF Ran, MysqlInv, ConnInv
<1>5. ASSUME NEW w \in Waiters
      PROVE  /\ ~crossed' => waiter'[w].status = conn'[w].want
             /\ conn'[w].outOfSync => program = "mysql_if_asyn"
             /\ waiter'[w].res = "freed twice" =>
                   program = "mysql_if_asyn" /\ conn[w].readFreed
  <2>1. ~crossed' => waiter'[w].status = conn'[w].want
    <3>1. SUFFICES ASSUME ~crossed' PROVE waiter'[w].status = conn'[w].want
      OBVIOUS
    <3>2. CASE w = x
      BY <1>2, <3>1, <3>2
    <3>3. CASE w # x
      <4>1. waiter'[w] = waiter[w] /\ conn'[w] = conn[w] /\ ~crossed
        BY <1>2, <3>1, <3>3
      <4>2. QED
        BY <4>1 DEF MysqlInv, ConnInv
    <3>4. QED
      BY <3>2, <3>3
  <2>2. conn'[w].outOfSync => program = "mysql_if_asyn"
    BY <1>2 DEF MysqlInv, ConnInv
  <2>3. waiter'[w].res = "freed twice" => program = "mysql_if_asyn" /\ conn[w].readFreed
    BY DEF MysqlInv, ConnInv
  <2>4. QED
    BY <2>1, <2>2, <2>3
<1>6. ConnInv'
  <2>1. ASSUME NEW w \in Waiters
        PROVE
            /\ WellFormed(conn'[w])
            /\ ~crossed' => waiter'[w].status = conn'[w].want
            /\ conn'[w].outOfSync => program' = "mysql_if_asyn"
            /\ waiter'[w].res = "freed twice" => program' = "mysql_if_asyn" /\ conn'[w].readFreed
    BY ZenonT(60), <1>4, <1>5
  <2>2. QED
    BY <2>1 DEF ConnInv
<1>7. QED
  BY <1>2, <1>3, <1>4, <1>6

(* From one call to the next, without leaving the waiter.                  *)
LEMMA InnerStep ==
    ASSUME MysqlInv, program \notin SequentialPrograms,
           UNCHANGED <<program, cur, batch, slot, epoll, stage, rounds>>,
           pc \notin Between, pc \notin {"destroy", "done"} \/ pc' = "done",
           pc' \in Returned \cup {"mod", "destroy", "done"}, program = "mysql" => pc' \in LoopLabels,
           crossed' \in BOOLEAN, crossed => crossed', crossed' => program = "mysql_if_asyn",
           \A w \in Waiters \ {cur} :
               /\ ~crossed' \/ batch = << >> => conn'[w] = conn[w]
               /\ waiter'[w].type = waiter[w].type /\ waiter'[w].status = waiter[w].status,
           waiter'[cur].type \in IdleTypes => waiter'[cur].status = {},
           program = "mysql" /\ waiter'[cur].type \in PendingTypes =>
               waiter'[cur].status # {} \/ pc' \in Returned \cup {"destroy", "done"}
    PROVE  ControlInv' /\ TypesInv' /\ StartInv' /\ WatchInv' /\ StageInv'
PROOF
<1>1. pc' \notin Between /\ pc' \in AsynLabels
      /\ pc' \notin {"open", "init", "add", "query_start", "wait", "event", "query_cont", "res_cont"}
  BY DEF Between, Returned, AsynLabels
<1>2. program \in {"mysql", "mysql_if_asyn"}
  BY DEF MysqlInv, ControlInv
<1>3. ControlInv'
  BY <1>1, <1>2 DEF MysqlInv, ControlInv
<1>4. TypesInv'
  BY <1>2 DEF MysqlInv, TypesInv
<1>5. StartInv'
  <2>1. SUFFICES ASSUME program = "mysql_if_asyn", batch = << >>, NEW w \in Waiters,
                        pc' \in Returned \cup {"mod"}, w > cur
                 PROVE  conn'[w].op = "none"
    BY <1>1 DEF StartInv
  <2>2. pc \in Returned \cup {"mod", "query_start"}
    BY <2>1 DEF MysqlInv, ControlInv, AsynLabels, Between, Returned
  <2>3. w # cur /\ w >= cur
    BY <2>1, WaitersAre, MysqlTypeIs DEF MysqlInv
  <2>4. conn[w].op = "none"
    BY <2>1, <2>2, <2>3 DEF MysqlInv, StartInv
  <2>5. QED
    BY <2>1, <2>3, <2>4
<1>6. WatchInv'
  <2>1. SUFFICES ASSUME ~crossed', NEW w \in Waiters, w # cur PROVE Guarded(w)'
    BY <1>1 DEF WatchInv
  <2>2. Guarded(w)
    BY <1>2, <2>1 DEF MysqlInv, WatchInv
  <2>3. conn'[w] = conn[w]
    BY <2>1
  <2>4. QED
    BY <2>2, <2>3 DEF Guarded, Pending, Reported, epoll
<1>7. StageInv'
  BY DEF StageInv
<1>8. QED
  BY <1>3, <1>4, <1>5, <1>6, <1>7

(* A waiter that is left is guarded: the status it got is what it is       *)
(* registered for, and epoll_ctl looks once.                               *)
LEMMA Registered ==
    ASSUME MysqlInv, ~crossed, UNCHANGED conn,
           EpollMod(cur, Mask(waiter[cur].status))
    PROVE  \A w \in Waiters : w = cur => Guarded(w)'
PROOF
<1> SUFFICES ASSUME NEW w \in Waiters, w = cur PROVE Guarded(w)'
  OBVIOUS
<1>1. cur \in Waiters /\ conn[cur] \in Conns /\ waiter[cur].status = conn[cur].want
      /\ WellFormed(conn[cur])
  BY MysqlTypeIs DEF MysqlInv, ConnInv
<1>2. CASE interest[cur] = {}
  <2>1. interest' = interest
    BY <1>2 DEF EpollMod, epoll
  <2>2. QED
    BY <1>2, <2>1 DEF Guarded
<1>3. CASE interest[cur] # {}
  <2>0. PICK mask : mask = Mask(conn[cur].want)
    OBVIOUS
  <2>1. interest'[cur] = mask
        /\ ready' = IF PollFlags(conn[cur]) \cap mask # {} THEN ready \cup {cur} ELSE ready
    BY <1>1, <1>3, <2>0, MysqlTypeIs DEF EpollMod, EpollAdd, MysqlInv
  <2>2. Pending(cur) /\ (conn[cur].can \/ conn[cur].gone) => PollFlags(conn[cur]) \cap mask # {}
    <3>1. SUFFICES ASSUME conn[cur].op # "none", conn[cur].can \/ conn[cur].gone
                   PROVE  PollFlags(conn[cur]) \cap mask # {}
      BY DEF Pending
    <3>2. CASE "READ" \in conn[cur].want
      <4>1. "IN" \in mask /\ "IN" \in PollFlags(conn[cur])
        BY <2>0, <3>1, <3>2 DEF Mask, PollFlags
      <4>2. QED
        BY <4>1
    <3>3. CASE "WRITE" \in conn[cur].want
      <4>1. "OUT" \in mask /\ "OUT" \in PollFlags(conn[cur])
        BY <2>0, <3>1, <3>3 DEF Mask, PollFlags
      <4>2. QED
        BY <4>1
    <3>4. QED
      BY <1>1, <3>1, <3>2, <3>3 DEF WellFormed
  <2>3. conn'[cur] = conn[cur]
    OBVIOUS
  <2>4. Mask(conn'[cur].want) = mask
    BY <2>0, <2>3
  <2>5. QED
    BY <2>1, <2>2, <2>3, <2>4 DEF Guarded, Pending
<1>4. QED
  BY <1>2, <1>3

LEMMA NextEvent ==
    \A a, n \in Nat : a + 1 \in Nat /\ (a + 1) + (n - 1) = a + n /\ (n >= a + 1 => n > a /\ n >= a)
OBVIOUS

(* The end of a handler: in main, or with the event it was called for.     *)
LEMMA LeaveStep ==
    ASSUME MysqlInv, program \notin SequentialPrograms, pc \notin Between,
           pc \notin {"destroy", "done", "crash"},
           UNCHANGED <<program, conn, crossed, stage, rounds>>,
           \A w \in Waiters \ {cur} :
               /\ interest'[w] = interest[w] /\ (w \in ready => w \in ready')
               /\ waiter'[w] = waiter[w],
           waiter' \in [Waiters -> Records],
           interest' \in [Waiters -> SUBSET {"IN", "OUT"}], ready' \in SUBSET Waiters,
           waiter'[cur].status = waiter[cur].status,
           waiter'[cur].res = "freed twice" => waiter[cur].res = "freed twice",
           waiter'[cur].type \in IdleTypes => waiter'[cur].status = {},
           program = "mysql" /\ waiter'[cur].type \in PendingTypes => waiter'[cur].status # {},
           ~crossed => \A w \in Waiters : w = cur => Guarded(w)',
           \/ /\ batch = << >> /\ UNCHANGED <<batch, slot>>
              /\ \/ pc' = "wait" /\ cur' = 0
                 \/ /\ pc' = (IF program = "mysql" THEN "init" ELSE "add")
                    /\ cur' = cur + 1 /\ cur + 1 \in Waiters
           \/ /\ batch # << >> /\ batch' = Tail(batch) /\ slot' = slot + 1 /\ cur' = 0
              /\ pc' = IF Len(batch) = 1 THEN "wait" ELSE "event"
    PROVE  MysqlInv'
PROOF
<1>1. /\ program \in {"mysql", "mysql_if_asyn"} /\ cur \in Waiters /\ slot \in Nat
      /\ waiter \in [Waiters -> Records] /\ conn \in [Waiters -> Conns]
      /\ batch \in Seq(Events)
  BY MysqlTypeIs DEF MysqlInv, ControlInv
<1>2. batch # << >> =>
        /\ Len(batch) \in Nat /\ Len(batch) > 0 /\ Len(Tail(batch)) = Len(batch) - 1
        /\ Tail(batch) \in Seq(Events)
        /\ Tail(batch) = << >> <=> Len(batch) = 1
        /\ \A k \in DOMAIN batch :
              k # 1 => k - 1 \in DOMAIN Tail(batch) /\ Tail(batch)[k - 1] = batch[k]
  BY <1>1, TailIs
<1>3. /\ pc' \in Between /\ cur' \in Waiters /\ slot' \in Nat
      /\ program = "mysql" => pc' \in {"wait", "event", "init"}
      /\ program = "mysql_if_asyn" => pc' \in {"wait", "event", "add"}
      /\ batch' \in Seq(Events)
  <2>1. CASE batch = << >>
    <3>1. slot' = slot /\ batch' = batch /\ cur' \in Waiters
      BY <2>1, WaitersAre
    <3>2. pc' = "wait" \/ pc' = (IF program = "mysql" THEN "init" ELSE "add")
      BY <2>1
    <3>3. QED
      BY <1>1, <3>1, <3>2 DEF Between
  <2>2. CASE batch # << >>
    <3>1. slot' = slot + 1 /\ cur' = 0 /\ batch' = Tail(batch) /\ pc' \in {"wait", "event"}
      BY <2>2
    <3>2. slot' \in Nat
      BY <1>1, <3>1, NextEvent
    <3>3. cur' \in Waiters /\ batch' \in Seq(Events)
      BY <1>2, <2>2, <3>1, WaitersAre
    <3>4. QED
      BY <3>1, <3>2, <3>3 DEF Between
  <2>3. QED
    BY <2>1, <2>2
<1>4. MysqlTypeOK'
  <2>1. conn' \in [Waiters -> Conns]
    BY <1>1
  <2>2. QED
    BY <1>3, <2>1, MysqlTypeIs DEF MysqlTypeOK, Records, Conns, Types, Results, Events
<1>5. ControlInv'
  <2>1. pc' \in {"open", "init", "add", "query_start", "wait"} => batch' = << >>
    <3>1. batch # << >> /\ pc' = "wait" => batch' = << >>
      BY <1>2
    <3>2. batch # << >> => pc' \in {"wait", "event"}
      OBVIOUS
    <3>3. QED
      BY <3>1, <3>2
  <2>2. pc' = "event" => batch' # << >>
    <3>1. pc' = "event" => batch # << >> /\ batch' = Tail(batch) /\ Len(batch) # 1
      OBVIOUS
    <3>2. QED
      BY <1>2, <3>1
  <2>3. batch' # << >> => slot' + Len(batch') <= Cardinality(Waiters)
    <3>1. batch # << >> => slot + Len(batch) <= Cardinality(Waiters)
      BY DEF MysqlInv, ControlInv
    <3>2. SUFFICES ASSUME batch # << >> PROVE slot' + Len(batch') <= Cardinality(Waiters)
      OBVIOUS
    <3>3. slot' = slot + 1 /\ Len(batch') = Len(batch) - 1 /\ Len(batch) \in Nat
      BY <1>2, <3>2
    <3>4. slot' + Len(batch') = slot + Len(batch)
      BY <1>1, <3>3, NextEvent
    <3>5. QED
      BY <3>1, <3>2, <3>4
  <2>4. QED
    BY <1>1, <1>3, <2>1, <2>2, <2>3 DEF MysqlInv, ControlInv, LoopLabels, AsynLabels, SequentialPrograms
<1>6. ConnInv'
  <2>1. ASSUME NEW w \in Waiters
        PROVE  waiter'[w].status = waiter[w].status
               /\ (waiter'[w].res = "freed twice" => waiter[w].res = "freed twice")
    OBVIOUS
  <2>2. QED
    BY <2>1 DEF MysqlInv, ConnInv, WellFormed
<1>7. HandlerInv'
  BY <1>3 DEF HandlerInv, Returned, CrashOnlyAfterError
<1>8. TypesInv'
  BY <1>1, <1>3 DEF MysqlInv, TypesInv
<1>9. StartInv'
  <2>1. SUFFICES ASSUME program = "mysql_if_asyn", pc' = "add", NEW w \in Waiters, w >= cur'
                 PROVE  conn[w].op = "none"
    BY <1>3 DEF StartInv, Returned
  <2>2. w > cur /\ w >= cur /\ batch = << >>
    <3>1. batch = << >> /\ w >= cur + 1
      BY <2>1
    <3>2. w \in Nat /\ cur \in Nat
      BY <1>1, WaitersAre
    <3>3. QED
      BY <3>1, <3>2, NextEvent
  <2>3. pc \in Returned \cup {"mod", "query_start"}
    BY <2>1, <2>2 DEF MysqlInv, ControlInv, AsynLabels, Between, Returned
  <2>4. QED
    BY <2>1, <2>2, <2>3 DEF MysqlInv, StartInv
<1>10. WatchInv'
  <2>1. SUFFICES ASSUME ~crossed PROVE \A w \in Waiters : Guarded(w)'
    BY DEF WatchInv
  <2>2. SUFFICES ASSUME NEW w \in Waiters, w # cur PROVE Guarded(w)'
    BY <2>1
  <2>3. Guarded(w)
    BY <1>1, <2>1, <2>2 DEF MysqlInv, WatchInv
  <2>4. Reported(w) => Reported(w)'
    <3>1. SUFFICES ASSUME NEW k \in DOMAIN batch, batch[k].w = w PROVE Reported(w)'
      BY DEF Reported
    <3>2. CASE batch = << >>
      BY <3>1, <3>2 DEF Reported
    <3>3. CASE batch # << >>
      <4>1. k # 1
        BY <2>2, <3>1, <3>3 DEF MysqlInv, ControlInv
      <4>2. QED
        BY ZenonT(60), <1>2, <3>1, <3>3, <4>1 DEF Reported
    <3>4. QED
      BY <3>2, <3>3
  <2>5. QED
    BY <2>2, <2>3, <2>4 DEF Guarded, Pending
<1>11. StageInv'
  BY DEF StageInv
<1>12. QED
  BY <1>4, <1>5, <1>6, <1>7, <1>8, <1>9, <1>10, <1>11 DEF MysqlInv

(* Before a handler: main goes through the waiters or enters it.           *)
LEMMA MainStep ==
    ASSUME MysqlInv, program \notin SequentialPrograms, pc \in Between,
           UNCHANGED <<program, batch, slot, waiter, conn, crossed, stage, rounds>>,
           cur' \in Waiters,
           interest' \in [Waiters -> SUBSET {"IN", "OUT"}], ready' \in SUBSET Waiters,
           \A w \in Waiters : w # cur' \/ pc' \in Between =>
               interest'[w] = interest[w] /\ (w \in ready => w \in ready'),
           program = "mysql" => pc' \in LoopLabels \ {"row", "free", "res_start", "destroy"},
           program = "mysql_if_asyn" =>
               pc' \in AsynLabels \ {"row", "free", "res_start", "skip", "mod", "destroy"},
           pc' \in {"open", "init", "add", "query_start", "wait"} => batch = << >>,
           pc' \in {"event", "query_cont", "res_cont"} => batch # << >>,
           pc' = "row_cont" => batch # << >> /\ waiter[cur'].status = {},
           pc' = "query_cont" => waiter[cur'].type = "QUERY_CONT",
           pc' = "res_cont" => waiter[cur'].type = "RES_CONT",
           batch # << >> /\ pc' \notin Between => batch[1].w = cur',
           pc' \in {"open", "add"} => pc = "open",
           pc' = "query_start" => pc = "add" /\ cur' = cur
    PROVE  MysqlInv'
PROOF
<1>1. program \in {"mysql", "mysql_if_asyn"} /\ pc' \in LoopLabels \cup AsynLabels
      /\ pc' \notin {"row", "free", "res_start", "skip", "destroy", "crash"}
  BY DEF MysqlInv, ControlInv, LoopLabels, AsynLabels
<1>2. MysqlTypeOK'
  <2>1. /\ slot' \in Nat /\ batch' \in Seq(Events)
        /\ waiter' \in [Waiters -> Records] /\ conn' \in [Waiters -> Conns]
    BY MysqlTypeIs DEF MysqlInv
  <2>2. QED
    BY <2>1 DEF MysqlTypeOK, Records, Conns, Types, Results, Events
<1>3. ControlInv'
  BY <1>1 DEF MysqlInv, ControlInv
<1>4. ConnInv'
  <2>1. pc # "done"
    BY DEF Between
  <2>2. QED
    BY <2>1 DEF MysqlInv, ConnInv, WellFormed
<1>5. HandlerInv'
  BY <1>1 DEF HandlerInv, Returned, CrashOnlyAfterError
<1>6. TypesInv'
  <2>1. pc \notin Returned \cup {"destroy", "done"}
    BY DEF Between, Returned
  <2>2. QED
    BY <2>1 DEF MysqlInv, TypesInv
<1>7. StartInv'
  <2>1. SUFFICES ASSUME program = "mysql_if_asyn", batch = << >>, NEW w \in Waiters,
                        \/ pc' = "open"
                        \/ pc' \in {"add", "query_start"} /\ w >= cur'
                        \/ pc' \in Returned \cup {"mod"} /\ w > cur'
                 PROVE  conn[w].op = "none"
    BY DEF StartInv
  <2>2. pc' \in {"open", "add", "query_start"}
    BY <1>1, <2>1 DEF Returned, AsynLabels
  <2>3. pc = "open" \/ (pc = "add" /\ w >= cur)
    BY <2>1, <2>2 DEF Returned
  <2>4. QED
    BY <2>1, <2>3 DEF MysqlInv, StartInv
<1>8. WatchInv'
  <2>1. SUFFICES ASSUME ~crossed, NEW w \in Waiters, w # cur' \/ pc' \in Between
                 PROVE  /\ interest'[w] = interest[w] /\ (w \in ready => w \in ready')
                        /\ Guarded(w)
    BY DEF WatchInv, Guarded, Pending, Reported
  <2>2. QED
    BY <2>1 DEF MysqlInv, WatchInv
<1>9. StageInv'
  BY DEF StageInv
<1>10. QED
  BY <1>2, <1>3, <1>4, <1>5, <1>6, <1>7, <1>8, <1>9 DEF MysqlInv

(* epoll_wait: every descriptor that has something to report is reported,  *)
(* and nothing is reported that often that the events do not fit.          *)
LEMMA WaitStep ==
    ASSUME MysqlInv, program \notin SequentialPrograms, pc = "wait", pc' = "event", WaitForEvents,
           UNCHANGED <<program, cur, waiter, conn, crossed, stage, rounds>>
    PROVE  MysqlInv'
PROOF
<1>1. PICK order \in SetToSeqs(Reportable) :
            batch' = [k \in DOMAIN order |-> Event(order[k])]
  BY DEF WaitForEvents
<1> DEFINE n == Cardinality(Reportable)
<1>2. Reportable \subseteq ready /\ ready \subseteq Waiters /\ Reportable # {}
      /\ program \in {"mysql", "mysql_if_asyn"} /\ batch = << >>
      /\ slot' = 0 /\ ready' = {} /\ interest' = interest
  BY MysqlTypeIs DEF Reportable, WaitForEvents, MysqlInv, ControlInv
<1>3. IsFiniteSet(Reportable) /\ n \in Nat /\ n > 0 /\ n <= Cardinality(Waiters)
  <2>1. IsFiniteSet(Reportable) /\ n <= Cardinality(Waiters)
    BY <1>2, ClientAssumption, FS_Subset
  <2>2. n \in Nat /\ (n = 0 <=> Reportable = {})
    BY <2>1, FS_CardinalityType, FS_EmptySet
  <2>3. QED
    BY <1>2, <2>1, <2>2
<1>4. order \in Surjection(1..n, Reportable) /\ DOMAIN order = 1..n
  <2>1. /\ order \in [1..n -> Reportable]
        /\ \A i, j \in 1..n : i # j => order[i] # order[j]
    BY DEF SetToSeqs
  <2>2. order \in Injection(1..n, Reportable)
    BY <2>1 DEF Injection, IsInjective
  <2>3. IsFiniteSet(1..n) /\ Cardinality(1..n) = n
    BY <1>3, FS_Interval
  <2>4. order \in Surjection(1..n, Reportable)
    BY <1>3, <2>2, <2>3, FS_Injection
  <2>5. QED
    BY <2>1, <2>4
<1> HIDE DEF n
<1>5. /\ order \in [1..n -> Reportable]
      /\ \A w \in Reportable : \E k \in 1..n : order[k] = w
  BY <1>4 DEF Surjection
<1>6. \A w \in Waiters : Event(w) \in Events /\ Event(w).w = w
  BY DEF Event, Events, PollFlags
<1>7. batch' \in Seq(Events) /\ Len(batch') = n /\ batch' # << >> /\ DOMAIN batch' = 1..n
  <2>1. batch' = [k \in 1..n |-> Event(order[k])]
    BY <1>1, <1>4
  <2>2. \A k \in 1..n : Event(order[k]) \in Events
    BY <1>2, <1>5, <1>6
  <2>3. batch' \in Seq(Events)
    BY <1>3, <2>1, <2>2
  <2>4. DOMAIN batch' = 1..n
    BY <2>1
  <2>5. Len(batch') = n
    BY <1>3, <2>3, <2>4, LenProperties
  <2>6. QED
    BY <1>3, <2>3, <2>4, <2>5, EmptySeq
<1>8. MysqlTypeOK'
  <2>1. /\ cur' \in Waiters /\ slot' \in Nat /\ ready' \in SUBSET Waiters
        /\ waiter' \in [Waiters -> Records] /\ conn' \in [Waiters -> Conns]
        /\ interest' \in [Waiters -> SUBSET {"IN", "OUT"}]
    BY <1>2, MysqlTypeIs DEF MysqlInv
  <2>2. QED
    BY <1>7, <2>1 DEF MysqlTypeOK, Records, Conns, Types, Results, Events
<1>9. ControlInv'
  <2>1. slot' + Len(batch') <= Cardinality(Waiters)
    BY <1>2, <1>3, <1>7
  <2>2. QED
    BY <1>2, <1>7, <2>1 DEF MysqlInv, ControlInv, Between, LoopLabels, AsynLabels
<1>10. ConnInv'
  BY DEF MysqlInv, ConnInv, WellFormed
<1>11. HandlerInv'
  BY DEF HandlerInv, Returned, CrashOnlyAfterError
<1>12. TypesInv'
  BY DEF MysqlInv, TypesInv, Returned
<1>13. StartInv'
  BY <1>7 DEF StartInv
<1>14. WatchInv'
  <2>1. SUFFICES ASSUME ~crossed, NEW w \in Waiters PROVE Guarded(w)'
    BY DEF WatchInv
  <2>2. Guarded(w) /\ ~Reported(w)
    BY <1>2, <2>1 DEF MysqlInv, WatchInv, Between, Reported
  <2>3. SUFFICES ASSUME Pending(w), interest[w] # {}, conn[w].can \/ conn[w].gone
                 PROVE  Reported(w)'
    BY <1>2, <2>2 DEF Guarded, Pending
  <2>4. w \in ready /\ Mask(conn[w].want) \subseteq interest[w] /\ WellFormed(conn[w])
    BY <2>2, <2>3 DEF Guarded, MysqlInv, ConnInv
  <2>5. PollFlags(conn[w]) \cap interest[w] # {}
    <3>1. CASE "READ" \in conn[w].want
      <4>1. "IN" \in PollFlags(conn[w]) /\ "IN" \in Mask(conn[w].want)
        BY <2>3, <3>1 DEF PollFlags, Mask
      <4>2. QED
        BY <2>4, <4>1
    <3>2. CASE "WRITE" \in conn[w].want
      <4>1. "OUT" \in PollFlags(conn[w]) /\ "OUT" \in Mask(conn[w].want)
        BY <2>3, <3>2 DEF PollFlags, Mask
      <4>2. QED
        BY <2>4, <4>1
    <3>3. QED
      BY <2>3, <2>4, <3>1, <3>2 DEF WellFormed, Pending
  <2>6. w \in Reportable
    BY <2>4, <2>5 DEF Reportable
  <2>7. PICK k \in 1..n : order[k] = w
    BY <1>5, <2>6
  <2>8. k \in DOMAIN batch' /\ batch'[k].w = w
    BY <1>1, <1>4, <1>6, <1>7, <2>7
  <2>9. QED
    BY <2>8 DEF Reported
<1>15. StageInv'
  BY DEF StageInv
<1>16. QED
  BY <1>8, <1>9, <1>10, <1>11, <1>12, <1>13, <1>14, <1>15 DEF MysqlInv

(* In a handler: one call of the library for the waiter it works for.      *)
LEMMA CallStep ==
    ASSUME MysqlInv, program \notin SequentialPrograms,
           UNCHANGED <<program, cur, batch, slot, epoll, stage, rounds>>,
           pc \notin Between \cup {"destroy", "done"},
           NEW x \in Waiters, NEW out, Ran(conn[x], out),
           conn' = [conn EXCEPT ![x] = out.conn],
           waiter' \in [Waiters -> Records],
           \A w \in Waiters \ {cur} : waiter'[w] = waiter[w],
           waiter'[cur].status = out.status,
           waiter'[cur].res \in {waiter[cur].res, "NULL", "live"},
           waiter'[cur].type \in IdleTypes => out.status = {},
           out.status # {} => pc' = "mod",
           out.status = {} => pc' \in {"res_start", "row", "destroy"},
           pc' = "row" => x = cur /\ (waiter'[cur].res = "live" \/ (waiter'[cur].res = "NULL" /\ ~out.ok)),
           pc' = "destroy" => out.status = {} /\ ~out.ok,
           crossed' \in BOOLEAN, crossed => crossed', crossed' => program = "mysql_if_asyn",
           ~crossed' => x = cur /\ out.status = out.conn.want,
           batch = << >> => x = cur,
           out.conn.outOfSync => conn[x].outOfSync \/ program = "mysql_if_asyn"
    PROVE  MysqlInv'
PROOF
<1>1. cur \in Waiters /\ pc' \in {"mod", "res_start", "row", "destroy"}
  BY MysqlTypeIs DEF MysqlInv
<1>2. /\ conn' \in [Waiters -> Conns] /\ ConnInv'
      /\ conn'[x] = out.conn /\ \A w \in Waiters \ {x} : conn'[w] = conn[w]
  <2>1. pc # "done" /\ (~crossed' => ~crossed /\ x = cur /\ out.status = out.conn.want)
    OBVIOUS
  <2>2. program' = program
    OBVIOUS
  <2>3. QED
    BY <1>1, <2>1, <2>2, CallFrame
<1>3. MysqlTypeOK'
  <2>1. slot' \in Nat /\ cur' \in Waiters /\ batch' \in Seq(Events)
        /\ interest' \in [Waiters -> SUBSET {"IN", "OUT"}] /\ ready' \in SUBSET Waiters
    BY MysqlTypeIs DEF MysqlInv, epoll
  <2>2. QED
    BY <1>2, <2>1 DEF MysqlTypeOK, Records, Conns, Types, Results, Events
<1>4. ControlInv' /\ TypesInv' /\ StartInv' /\ WatchInv' /\ StageInv'
  <2>1. pc \notin Between /\ (pc \notin {"destroy", "done"} \/ pc' = "done")
    OBVIOUS
  <2>2. pc' \in Returned \cup {"mod", "destroy", "done"} /\ (program = "mysql" => pc' \in LoopLabels)
    BY <1>1 DEF Returned, LoopLabels
  <2>3. \A w \in Waiters \ {cur} :
            /\ ~crossed' \/ batch = << >> => conn'[w] = conn[w]
            /\ waiter'[w].type = waiter[w].type /\ waiter'[w].status = waiter[w].status
    BY <1>2
  <2>4. waiter'[cur].type \in IdleTypes => waiter'[cur].status = {}
    OBVIOUS
  <2>5. program = "mysql" /\ waiter'[cur].type \in PendingTypes =>
            waiter'[cur].status # {} \/ pc' \in Returned \cup {"destroy", "done"}
    BY DEF Returned
  <2>6. QED
    BY <2>1, <2>2, <2>3, <2>4, <2>5, InnerStep
<1>5. HandlerInv'
  <2>1. pc' \in Returned => waiter'[cur].status = {}
    BY DEF Returned
  <2>2. ~out.ok /\ out.status = {} => conn'[x].failed
    BY <1>2 DEF Ran
  <2>3. pc' = "row" => \/ waiter'[cur].res = "live"
                       \/ waiter'[cur].res = "NULL" /\ conn'[cur].failed
    BY <2>2
  <2>4. CrashOnlyAfterError'
    BY <1>1, <2>2 DEF CrashOnlyAfterError
  <2>5. QED
    BY <1>1, <2>1, <2>3, <2>4 DEF HandlerInv
<1>6. QED
  BY <1>2, <1>3, <1>4, <1>5 DEF MysqlInv

-----------------------------------------------------------------------------
(* src/src/mysql.c.                                                        *)

LEMMA LoopMainInv ==
    ASSUME MysqlInv, program = "mysql", LoopMain, UNCHANGED <<crossed, stage, rounds>>
    PROVE  MysqlInv'
PROOF
<1>1. program \notin SequentialPrograms /\ cur \in Waiters /\ ready \in SUBSET Waiters
      /\ interest \in [Waiters -> SUBSET {"IN", "OUT"}] /\ batch \in Seq(Events)
  BY MysqlTypeIs DEF SequentialPrograms, MysqlInv
<1>2. CASE WaiterInit
  <2>1. pc = "open" /\ cur' \in Waiters /\ pc' \in {"open", "init", "done"} /\ batch = << >>
        /\ UNCHANGED <<program, batch, slot, waiter, conn, interest, ready>>
    BY <1>1, <1>2, WaitersAre DEF WaiterInit, IsLast, epoll, MysqlInv, ControlInv
  <2>2. QED
    BY <1>1, <2>1, MainStep DEF Between, LoopLabels
<1>3. CASE EnterFromMain
  <2>1. pc = "init" /\ pc' = "loop" /\ batch = << >>
        /\ UNCHANGED <<program, cur, batch, slot, waiter, conn>>
    BY <1>3 DEF EnterFromMain, Goto, MysqlInv, ControlInv
  <2>2. EpollAdd(cur, {"IN"}) \/ UNCHANGED <<interest, ready>>
    BY <1>3 DEF EnterFromMain, epoll
  <2>3. /\ interest' \in [Waiters -> SUBSET {"IN", "OUT"}] /\ ready' \in SUBSET Waiters
        /\ \A w \in Waiters : w # cur => interest'[w] = interest[w] /\ (w \in ready => w \in ready')
    BY <1>1, <2>2 DEF EpollAdd
  <2>4. QED
    BY <1>1, <2>1, <2>3, MainStep DEF Between, LoopLabels
<1>4. CASE EpollWait
  BY <1>1, <1>4, WaitStep DEF EpollWait
<1>5. CASE EnterFromEvent
  <2>1. pc = "event" /\ pc' = "loop" /\ cur' = batch[1].w /\ batch # << >>
        /\ UNCHANGED <<program, batch, slot, waiter, conn, interest, ready>>
    BY <1>5 DEF EnterFromEvent, MysqlInv, ControlInv, epoll
  <2>2. cur' \in Waiters
    <3>1. 1 \in 1..Len(batch)
      BY <1>1, <2>1, TailIs
    <3>2. batch[1] \in Events
      BY <1>1, <3>1, ElementOfSeq
    <3>3. QED
      BY <2>1, <3>2 DEF Events
  <2>3. QED
    BY <1>1, <2>1, <2>2, MainStep DEF Between, LoopLabels
<1>6. QED
  BY <1>2, <1>3, <1>4, <1>5 DEF LoopMain

(* What the connection and the result of waiter cur are like in a call.    *)
LEMMA CurFacts ==
    ASSUME MysqlInv
    PROVE  /\ cur \in Waiters /\ conn[cur] \in Conns /\ waiter[cur] \in Records
           /\ WellFormed(conn[cur])
           /\ ~crossed => waiter[cur].status = conn[cur].want
           /\ program # "mysql_if_asyn" => ~crossed /\ ~conn[cur].outOfSync
           /\ waiter \in [Waiters -> Records] /\ conn \in [Waiters -> Conns]
BY MysqlTypeIs DEF MysqlInv, ConnInv, ControlInv

LEMMA StoredIs ==
    ASSUME NEW w \in Waiters, waiter[w] \in Records, NEW out, out.status \in Status,
           out.ok \in BOOLEAN, NEW n \in 0..MaxRows
    PROVE  /\ Stored(w, out, n) \in Records
           /\ Stored(w, out, n).status = out.status
           /\ Stored(w, out, n).type = waiter[w].type
           /\ Stored(w, out, n).res =
                 IF out.status # {} THEN waiter[w].res ELSE IF out.ok THEN "live" ELSE "NULL"
PROOF
<1>1. CASE out.status # {}
  BY <1>1 DEF Stored, Records
<1>2. CASE out.status = {}
  <2>1. (IF out.ok THEN n ELSE 0) \in 0..MaxRows
    BY ClientAssumption
  <2>2. QED
    BY <1>2, <2>1 DEF Stored, Records, Results
<1>3. QED
  BY <1>1, <1>2

LEMMA QueryCallInv ==
    ASSUME MysqlInv, program = "mysql", QueryStart \/ QueryCont, UNCHANGED <<crossed, stage, rounds>>
    PROVE  MysqlInv'
PROOF
<1>1. /\ pc = "loop" /\ program \notin SequentialPrograms /\ pc \notin Between \cup {"destroy", "done"}
      /\ UNCHANGED <<program, cur, batch, slot, epoll, stage, rounds>>
  BY DEF QueryStart, QueryCont, Goto, SequentialPrograms, Between
<1>2. PICK out :
        /\ \/ out \in Start(conn[cur], "query") /\ waiter[cur].type = "CONN"
           \/ out \in Cont(conn[cur], waiter[cur].status) /\ waiter[cur].type = "QUERY_CONT"
        /\ conn' = [conn EXCEPT ![cur] = out.conn]
        /\ waiter' = [waiter EXCEPT ![cur].status = out.status, ![cur].type = "QUERY_CONT"]
        /\ pc' = IF out.status = {} THEN "res_start" ELSE "mod"
  <2>1. CASE QueryStart
    <3>1. PICK out \in Start(conn[cur], "query") :
            /\ conn' = [conn EXCEPT ![cur] = out.conn]
            /\ waiter' = [waiter EXCEPT ![cur].status = out.status, ![cur].type = "QUERY_CONT"]
            /\ pc' = IF out.status = {} THEN "res_start" ELSE "mod"
      BY <2>1 DEF QueryStart, Goto
    <3>2. waiter[cur].type = "CONN"
      BY <2>1 DEF QueryStart
    <3>3. QED
      BY <3>1, <3>2
  <2>2. CASE QueryCont
    <3>1. PICK out \in Cont(conn[cur], waiter[cur].status) :
            /\ conn' = [conn EXCEPT ![cur] = out.conn]
            /\ waiter' = [waiter EXCEPT ![cur].status = out.status]
            /\ pc' = IF out.status = {} THEN "res_start" ELSE "mod"
      BY <2>2 DEF QueryCont, Goto
    <3>2. waiter[cur].type = "QUERY_CONT"
      BY <2>2 DEF QueryCont
    <3>3. [waiter EXCEPT ![cur].status = out.status] =
          [waiter EXCEPT ![cur].status = out.status, ![cur].type = "QUERY_CONT"]
      BY <3>2, CurFacts DEF Records
    <3>4. QED
      BY <3>1, <3>2, <3>3
  <2>3. QED
    BY <2>1, <2>2
<1>3. /\ Ran(conn[cur], out) /\ out.status = out.conn.want
      /\ out.conn.outOfSync = conn[cur].outOfSync
  <2>1. waiter[cur].type = "CONN" => conn[cur].op = "none"
    <3>1. waiter[cur].type = "CONN" => waiter[cur].status = {}
      BY <1>1, CurFacts DEF MysqlInv, TypesInv, IdleTypes
    <3>2. QED
      BY <3>1, CurFacts DEF WellFormed
  <2>2. waiter[cur].type = "QUERY_CONT" => conn[cur].op # "none"
    <3>1. waiter[cur].type = "QUERY_CONT" => waiter[cur].status # {}
      BY <1>1, CurFacts DEF MysqlInv, TypesInv, PendingTypes, Returned
    <3>2. QED
      BY <3>1, CurFacts DEF WellFormed
  <2>3. CASE out \in Start(conn[cur], "query") /\ waiter[cur].type = "CONN"
    BY <2>1, <2>3, CurFacts, StartIs DEF Ops, InStep
  <2>4. CASE out \in Cont(conn[cur], waiter[cur].status) /\ waiter[cur].type = "QUERY_CONT"
    <3>1. waiter[cur].status \in Status /\ ("TIMEOUT" \in waiter[cur].status => conn[cur].timed)
      BY CurFacts DEF Records, WellFormed
    <3>2. QED
      BY <2>2, <2>4, <3>1, CurFacts, ContIs
  <2>5. QED
    BY <1>2, <2>3, <2>4
<1>4. /\ waiter' \in [Waiters -> Records]
      /\ \A w \in Waiters \ {cur} : waiter'[w] = waiter[w]
      /\ waiter'[cur].status = out.status /\ waiter'[cur].type = "QUERY_CONT"
      /\ waiter'[cur].res = waiter[cur].res
  BY <1>2, <1>3, CurFacts DEF Ran, Records, Types
<1>5. /\ cur \in Waiters /\ ~crossed /\ crossed' = crossed
      /\ crossed' \in BOOLEAN /\ (crossed' => program = "mysql_if_asyn")
      /\ ~conn[cur].outOfSync /\ program # "mysql_if_asyn"
  BY CurFacts DEF MysqlInv, ControlInv
<1>6. /\ waiter'[cur].type \notin IdleTypes
      /\ out.status # {} => pc' = "mod"
      /\ out.status = {} => pc' = "res_start"
  BY <1>2, <1>4 DEF IdleTypes
<1>7. QED
  BY <1>1, <1>2, <1>3, <1>4, <1>5, <1>6, CallStep

LEMMA StoreCallInv ==
    ASSUME MysqlInv, program = "mysql", ResStart \/ ResCont, UNCHANGED <<crossed, stage, rounds>>
    PROVE  MysqlInv'
PROOF
<1>1. /\ pc \in {"loop", "res_start"} /\ program \notin SequentialPrograms
      /\ pc \notin Between \cup {"destroy", "done"}
      /\ UNCHANGED <<program, cur, batch, slot, epoll, stage, rounds>>
  BY DEF ResStart, ResCont, Goto, SequentialPrograms, Between
<1>2. PICK out : \E n \in 0..MaxRows :
        /\ \/ out \in Start(conn[cur], "store") /\ pc = "res_start"
           \/ /\ out \in Cont(conn[cur], waiter[cur].status)
              /\ pc = "loop" /\ waiter[cur].type = "RES_CONT"
        /\ conn' = [conn EXCEPT ![cur] = out.conn]
        /\ waiter' = [waiter EXCEPT ![cur] = [Stored(cur, out, n) EXCEPT !.type = "RES_CONT"]]
        /\ pc' = IF out.status = {} THEN "row" ELSE "mod"
  <2>1. CASE ResStart
    <3>1. PICK out \in Start(conn[cur], "store"), n \in 0..MaxRows :
            /\ conn' = [conn EXCEPT ![cur] = out.conn]
            /\ waiter' = [waiter EXCEPT ![cur] = [Stored(cur, out, n) EXCEPT !.type = "RES_CONT"]]
            /\ pc' = IF out.status = {} THEN "row" ELSE "mod"
      BY <2>1 DEF ResStart, Goto
    <3>2. pc = "res_start"
      BY <2>1 DEF ResStart
    <3>3. QED
      BY <3>1, <3>2
  <2>2. CASE ResCont
    <3>1. PICK out \in Cont(conn[cur], waiter[cur].status), n \in 0..MaxRows :
            /\ conn' = [conn EXCEPT ![cur] = out.conn]
            /\ waiter' = [waiter EXCEPT ![cur] = Stored(cur, out, n)]
            /\ pc' = IF out.status = {} THEN "row" ELSE "mod"
      BY <2>2 DEF ResCont, Goto
    <3>2. pc = "loop" /\ waiter[cur].type = "RES_CONT"
      BY <2>2 DEF ResCont
    <3>3. Ran(conn[cur], out)
      <4>1. waiter[cur].status \in Status
        BY CurFacts DEF Records
      <4>2. QED
        BY <4>1, CurFacts, ContIs
    <3>4. Stored(cur, out, n) \in Records /\ Stored(cur, out, n).type = "RES_CONT"
      BY <3>2, <3>3, CurFacts, StoredIs DEF Ran
    <3>5. [Stored(cur, out, n) EXCEPT !.type = "RES_CONT"] = Stored(cur, out, n)
      BY <3>4 DEF Records
    <3>6. QED
      BY <3>1, <3>2, <3>5
  <2>3. QED
    BY <2>1, <2>2
<1>3. /\ Ran(conn[cur], out) /\ out.status = out.conn.want
      /\ out.conn.outOfSync = conn[cur].outOfSync
  <2>1. pc = "res_start" => conn[cur].op = "none"
    <3>1. pc = "res_start" => waiter[cur].status = {}
      BY DEF MysqlInv, HandlerInv, Returned
    <3>2. QED
      BY <3>1, CurFacts DEF WellFormed
  <2>2. pc = "loop" /\ waiter[cur].type = "RES_CONT" => conn[cur].op # "none"
    <3>1. pc = "loop" /\ waiter[cur].type = "RES_CONT" => waiter[cur].status # {}
      BY CurFacts DEF MysqlInv, TypesInv, PendingTypes, Returned
    <3>2. QED
      BY <3>1, CurFacts DEF WellFormed
  <2>3. CASE out \in Start(conn[cur], "store") /\ pc = "res_start"
    BY <2>1, <2>3, CurFacts, StartIs DEF Ops, InStep
  <2>4. CASE /\ out \in Cont(conn[cur], waiter[cur].status)
             /\ pc = "loop" /\ waiter[cur].type = "RES_CONT"
    <3>1. waiter[cur].status \in Status /\ ("TIMEOUT" \in waiter[cur].status => conn[cur].timed)
      BY CurFacts DEF Records, WellFormed
    <3>2. QED
      BY <2>2, <2>4, <3>1, CurFacts, ContIs
  <2>5. QED
    BY <1>2, <2>3, <2>4
<1>4. /\ waiter' \in [Waiters -> Records]
      /\ \A w \in Waiters \ {cur} : waiter'[w] = waiter[w]
      /\ waiter'[cur].status = out.status /\ waiter'[cur].type = "RES_CONT"
      /\ waiter'[cur].res \in {waiter[cur].res, "NULL", "live"}
      /\ out.status = {} =>
            waiter'[cur].res = "live" \/ (waiter'[cur].res = "NULL" /\ ~out.ok)
  <2>1. out.status \in Status /\ out.ok \in BOOLEAN
    BY <1>3 DEF Ran
  <2>0. PICK n \in 0..MaxRows :
            waiter' = [waiter EXCEPT ![cur] = [Stored(cur, out, n) EXCEPT !.type = "RES_CONT"]]
    BY <1>2
  <2> DEFINE r == Stored(cur, out, n)
  <2>2. /\ r \in Records /\ r.status = out.status
        /\ r.res = IF out.status # {} THEN waiter[cur].res ELSE IF out.ok THEN "live" ELSE "NULL"
    BY <2>1, CurFacts, StoredIs
  <2>3. waiter' = [waiter EXCEPT ![cur] = [r EXCEPT !.type = "RES_CONT"]]
    BY <2>0
  <2> HIDE DEF r
  <2>4. QED
    BY <2>1, <2>2, <2>3, CurFacts DEF Records, Types
<1>5. /\ cur \in Waiters /\ ~crossed /\ crossed' = crossed
      /\ crossed' \in BOOLEAN /\ (crossed' => program = "mysql_if_asyn")
      /\ ~conn[cur].outOfSync /\ program # "mysql_if_asyn"
  BY CurFacts DEF MysqlInv, ControlInv
<1>6. /\ waiter'[cur].type \notin IdleTypes
      /\ out.status # {} => pc' = "mod"
      /\ out.status = {} => pc' = "row"
      /\ conn' = [conn EXCEPT ![cur] = out.conn]
  BY <1>2, <1>4 DEF IdleTypes
<1>7. QED
  BY <1>1, <1>3, <1>4, <1>5, <1>6, CallStep

(* In a handler, no call that waits: the rows of a result.                 *)
LEMMA RowStep ==
    ASSUME MysqlInv, program \notin SequentialPrograms, pc = "row", waiter[cur].res # "NULL",
           waiter[cur].rows > 0, waiter' = [waiter EXCEPT ![cur].rows = @ - 1],
           UNCHANGED <<program, cur, batch, slot, conn, epoll, crossed, stage, rounds>>,
           pc' \in {"row", "row_cont"}, program = "mysql" => pc' = "row"
    PROVE  MysqlInv'
PROOF
<1>1. /\ waiter' \in [Waiters -> Records]
      /\ \A w \in Waiters \ {cur} : waiter'[w] = waiter[w]
      /\ waiter'[cur].type = waiter[cur].type /\ waiter'[cur].status = waiter[cur].status
      /\ waiter'[cur].res = waiter[cur].res
  <2>1. waiter[cur].rows - 1 \in 0..MaxRows
    BY CurFacts, ClientAssumption DEF Records
  <2>2. QED
    BY <2>1, CurFacts DEF Records
<1>2. cur \in Waiters /\ waiter[cur].status = {} /\ crossed \in BOOLEAN
      /\ (crossed => program = "mysql_if_asyn")
  BY CurFacts DEF MysqlInv, HandlerInv, Returned, ControlInv
<1>3. MysqlTypeOK'
  <2>1. /\ slot' \in Nat /\ cur' \in Waiters /\ batch' \in Seq(Events) /\ conn' \in [Waiters -> Conns]
        /\ interest' \in [Waiters -> SUBSET {"IN", "OUT"}] /\ ready' \in SUBSET Waiters
    BY MysqlTypeIs DEF MysqlInv, epoll
  <2>2. QED
    BY <1>1, <2>1 DEF MysqlTypeOK, Records, Conns, Types, Results, Events
<1>4. ControlInv' /\ TypesInv' /\ StartInv' /\ WatchInv' /\ StageInv'
  <2>1. /\ pc \notin Between /\ pc \notin {"destroy", "done"} /\ pc' \in Returned
        /\ (program = "mysql" => pc' \in LoopLabels)
    BY DEF Between, Returned, LoopLabels
  <2>2. \A w \in Waiters \ {cur} :
            /\ ~crossed' \/ batch = << >> => conn'[w] = conn[w]
            /\ waiter'[w].type = waiter[w].type /\ waiter'[w].status = waiter[w].status
    BY <1>1
  <2>3. crossed' \in BOOLEAN /\ (crossed => crossed') /\ (crossed' => program = "mysql_if_asyn")
    BY <1>2
  <2>4. waiter'[cur].status = {}
    BY <1>1, <1>2
  <2>5. QED
    BY <2>1, <2>2, <2>3, <2>4, InnerStep
<1>5. ConnInv'
  <2>1. \A w \in Waiters : waiter'[w].status = waiter[w].status /\ waiter'[w].res = waiter[w].res
    BY <1>1
  <2>2. QED
    BY <2>1 DEF MysqlInv, ConnInv, WellFormed
<1>6. HandlerInv'
  BY <1>1, <1>2 DEF MysqlInv, HandlerInv, CrashOnlyAfterError
<1>7. QED
  BY <1>3, <1>4, <1>5, <1>6 DEF MysqlInv

(* A step of a handler that changes nothing but where it is.               *)
LEMMA LabelStep ==
    ASSUME MysqlInv, program \notin SequentialPrograms, pc \notin Between \cup {"done"},
           UNCHANGED <<program, cur, batch, slot, waiter, conn, epoll, crossed, stage, rounds>>,
           pc' \in {"free", "destroy", "done"},
           pc = "destroy" => pc' = "done",
           pc' # "done" => waiter[cur].status = {},
           pc' = "free" => \/ waiter[cur].res = "live"
                           \/ program = "mysql_if_asyn" /\ conn[cur].readFreed,
           pc' = "destroy" => \E w \in Waiters : conn[w].failed \/ conn[w].outOfSync,
           pc' = "done" => pc = "destroy"
    PROVE  MysqlInv'
PROOF
<1>1. MysqlTypeOK' /\ crossed \in BOOLEAN /\ (crossed => program = "mysql_if_asyn")
  BY MysqlTypeIs DEF MysqlInv, ControlInv, MysqlTypeOK, epoll
<1>2. ControlInv' /\ TypesInv' /\ StartInv' /\ WatchInv' /\ StageInv'
  <2>1. /\ pc \notin Between /\ (pc \notin {"destroy", "done"} \/ pc' = "done")
        /\ pc' \in Returned \cup {"destroy", "done"}
        /\ (program = "mysql" => pc' \in LoopLabels)
    BY DEF Returned, LoopLabels
  <2>2. \A w \in Waiters \ {cur} :
            /\ ~crossed' \/ batch = << >> => conn'[w] = conn[w]
            /\ waiter'[w].type = waiter[w].type /\ waiter'[w].status = waiter[w].status
    OBVIOUS
  <2>3. crossed' \in BOOLEAN /\ (crossed => crossed') /\ (crossed' => program = "mysql_if_asyn")
    BY <1>1
  <2>4. waiter'[cur].type \in IdleTypes => waiter'[cur].status = {}
    BY CurFacts DEF MysqlInv, TypesInv
  <2>5. QED
    BY <2>1, <2>2, <2>3, <2>4, InnerStep
<1>3. ConnInv'
  BY DEF MysqlInv, ConnInv, WellFormed
<1>4. HandlerInv'
  BY DEF MysqlInv, HandlerInv, CrashOnlyAfterError, Returned
<1>5. QED
  BY <1>1, <1>2, <1>3, <1>4 DEF MysqlInv

LEMMA RowInv ==
    ASSUME MysqlInv, program = "mysql", FetchRow \/ WaiterDestroy,
           UNCHANGED <<crossed, stage, rounds>>
    PROVE  MysqlInv'
PROOF
<1>1. /\ pc \in {"row", "destroy"} /\ program \notin SequentialPrograms
      /\ pc \notin Between \cup {"done"} /\ UNCHANGED <<conn, epoll, crossed, stage, rounds>>
  BY DEF FetchRow, WaiterDestroy, SequentialPrograms, Between
<1>2. CASE WaiterDestroy
  BY <1>1, <1>2, LabelStep DEF WaiterDestroy, Goto
<1>3. CASE FetchRow
  <2>1. /\ pc = "row" /\ waiter[cur].status = {} /\ cur \in Waiters
        /\ waiter[cur].res = "live" \/ (waiter[cur].res = "NULL" /\ conn[cur].failed)
    BY <1>3, CurFacts DEF FetchRow, MysqlInv, HandlerInv, Returned
  <2>2. CASE waiter[cur].res = "NULL" /\ Goto("destroy") /\ UNCHANGED waiter
    BY <1>1, <2>1, <2>2, LabelStep DEF Goto
  <2>3. CASE waiter[cur].res # "NULL" /\ waiter[cur].rows = 0 /\ Goto("free") /\ UNCHANGED waiter
    BY <1>1, <2>1, <2>3, LabelStep DEF Goto
  <2>4. CASE /\ waiter[cur].res # "NULL" /\ waiter[cur].rows > 0
             /\ waiter' = [waiter EXCEPT ![cur].rows = @ - 1] /\ UNCHANGED main
    BY <1>1, <2>1, <2>4, RowStep DEF main
  <2>5. QED
    BY <1>3, <2>2, <2>3, <2>4 DEF FetchRow
<1>4. QED
  BY <1>2, <1>3

LEMMA ReturnIs ==
    ASSUME MysqlInv, program = "mysql", Return
    PROVE  \/ /\ batch = << >> /\ UNCHANGED <<batch, slot>>
              /\ \/ pc' = "wait" /\ cur' = 0
                 \/ pc' = "init" /\ cur' = cur + 1 /\ cur + 1 \in Waiters
           \/ /\ batch # << >> /\ batch' = Tail(batch) /\ slot' = slot + 1 /\ cur' = 0
              /\ pc' = IF Len(batch) = 1 THEN "wait" ELSE "event"
BY DEF Return, IsLast

(* Freeing a result: what was live is freed, and only that once.           *)
LEMMA FreeIs ==
    ASSUME NEW res \in Results
    PROVE  /\ FreeResult(res) \in Results /\ FreeResult(res) # "live"
           /\ res \in {"NULL", "live"} => FreeResult(res) # "freed twice"
           /\ res = "live" => FreeResult(res) = "freed"
BY DEF FreeResult, Results

LEMMA LoopLeaveInv ==
    ASSUME MysqlInv, program = "mysql", FreeStart \/ Fin \/ UpdateEpoll,
           UNCHANGED <<crossed, stage, rounds>>
    PROVE  MysqlInv'
PROOF
<1>1. /\ pc \in {"free", "loop", "mod"} /\ program \notin SequentialPrograms
      /\ pc \notin Between /\ pc \notin {"destroy", "done", "crash"}
      /\ UNCHANGED <<program, conn, crossed, stage, rounds>> /\ ~crossed /\ cur \in Waiters
  BY CurFacts DEF FreeStart, Fin, UpdateEpoll, Return, SequentialPrograms, Between
<1>2. \/ /\ batch = << >> /\ UNCHANGED <<batch, slot>>
         /\ \/ pc' = "wait" /\ cur' = 0
            \/ /\ pc' = (IF program = "mysql" THEN "init" ELSE "add")
               /\ cur' = cur + 1 /\ cur + 1 \in Waiters
      \/ /\ batch # << >> /\ batch' = Tail(batch) /\ slot' = slot + 1 /\ cur' = 0
         /\ pc' = IF Len(batch) = 1 THEN "wait" ELSE "event"
  BY ReturnIs DEF FreeStart, Fin, UpdateEpoll
<1>3. ready \in SUBSET Waiters /\ interest \in [Waiters -> SUBSET {"IN", "OUT"}]
  BY MysqlTypeIs DEF MysqlInv
<1>4. CASE FreeStart
  <2>1. UNCHANGED <<interest, ready>> /\ pc = "free" /\ waiter[cur].status = {}
        /\ waiter[cur].res = "live"
    BY <1>1, <1>4 DEF FreeStart, epoll, MysqlInv, HandlerInv, Returned
  <2>2. /\ waiter' \in [Waiters -> Records]
        /\ \A w \in Waiters \ {cur} : waiter'[w] = waiter[w]
        /\ waiter'[cur].type = "FIN" /\ waiter'[cur].status = waiter[cur].status
        /\ waiter'[cur].res = "freed"
    <3>1. FreeResult(waiter[cur].res) = "freed"
      BY <2>1, FreeIs DEF Results
    <3>2. waiter' = [waiter EXCEPT ![cur].res = "freed", ![cur].type = "FIN"]
      BY <1>4, <3>1 DEF FreeStart
    <3>3. QED
      BY <3>2, CurFacts DEF Records, Results, Types
  <2>3. \A w \in Waiters : w = cur => Guarded(w)'
    BY <1>1, <2>1, CurFacts DEF Guarded, Pending, WellFormed
  <2>4. \A w \in Waiters \ {cur} :
            /\ interest'[w] = interest[w] /\ (w \in ready => w \in ready')
            /\ waiter'[w] = waiter[w]
    BY <2>1, <2>2
  <2>5. /\ interest' \in [Waiters -> SUBSET {"IN", "OUT"}] /\ ready' \in SUBSET Waiters
        /\ waiter'[cur].res # "freed twice" /\ waiter'[cur].type \notin PendingTypes
        /\ waiter'[cur].status = {} /\ waiter'[cur].status = waiter[cur].status
    BY <1>3, <2>1, <2>2 DEF PendingTypes
  <2>6. QED
    BY <1>1, <1>2, <2>2, <2>3, <2>4, <2>5, LeaveStep
<1>5. CASE Fin \/ UpdateEpoll
  <2>1. waiter' = waiter /\ waiter \in [Waiters -> Records]
        /\ (waiter[cur].type \in IdleTypes => waiter[cur].status = {})
        /\ (waiter[cur].type \in PendingTypes => waiter[cur].status # {})
    BY <1>1, <1>5, CurFacts DEF Fin, UpdateEpoll, MysqlInv, TypesInv, Returned
  <2>2. \A w \in Waiters : w = cur => Guarded(w)'
    <3>1. CASE Fin
      BY <1>1, <1>3, <3>1 DEF Fin, EpollDel, Guarded
    <3>2. CASE UpdateEpoll
      BY <1>1, <3>2, Registered DEF UpdateEpoll
    <3>3. QED
      BY <1>5, <3>1, <3>2
  <2>3. /\ interest' \in [Waiters -> SUBSET {"IN", "OUT"}] /\ ready' \in SUBSET Waiters
        /\ \A w \in Waiters \ {cur} : interest'[w] = interest[w] /\ (w \in ready => w \in ready')
    <3>1. CASE Fin
      BY <1>1, <1>3, <3>1 DEF Fin, EpollDel
    <3>2. CASE UpdateEpoll
      <4>1. Mask(waiter[cur].status) \in SUBSET {"IN", "OUT"}
        BY DEF Mask
      <4>2. QED
        BY <1>1, <1>3, <3>2, <4>1 DEF UpdateEpoll, EpollMod, EpollAdd, epoll
    <3>3. QED
      BY <1>5, <3>1, <3>2
  <2>4. \A w \in Waiters \ {cur} :
            /\ interest'[w] = interest[w] /\ (w \in ready => w \in ready')
            /\ waiter'[w] = waiter[w]
    BY <2>1, <2>3
  <2>5. /\ waiter' \in [Waiters -> Records]
        /\ waiter'[cur].status = waiter[cur].status
        /\ waiter'[cur].res = "freed twice" => waiter[cur].res = "freed twice"
        /\ waiter'[cur].type \in IdleTypes => waiter'[cur].status = {}
        /\ waiter'[cur].type \in PendingTypes => waiter'[cur].status # {}
    BY <2>1
  <2>6. QED
    BY <1>1, <1>2, <2>2, <2>3, <2>4, <2>5, LeaveStep
<1>6. QED
  BY <1>4, <1>5

LEMMA LoopProgramInv ==
    ASSUME MysqlInv, program = "mysql", LoopProgram, UNCHANGED <<crossed, stage, rounds>>
    PROVE  MysqlInv'
BY LoopMainInv, QueryCallInv, StoreCallInv, RowInv, LoopLeaveInv DEF LoopProgram, QueryLoop

-----------------------------------------------------------------------------
(* src/src/mysql_if_asyn.c.                                                *)

LEMMA AsynMainInv ==
    ASSUME MysqlInv, program = "mysql_if_asyn",
           AsynWaiterInit \/ AddWaiter \/ AsynEpollWait \/ FindWaiter, UNCHANGED <<stage, rounds>>
    PROVE  MysqlInv'
PROOF
<1>1. program \notin SequentialPrograms /\ cur \in Waiters /\ ready \in SUBSET Waiters
      /\ interest \in [Waiters -> SUBSET {"IN", "OUT"}] /\ batch \in Seq(Events)
      /\ waiter \in [Waiters -> Records]
  BY MysqlTypeIs DEF SequentialPrograms, MysqlInv
<1>2. CASE AsynWaiterInit
  <2>1. pc = "open" /\ cur' \in Waiters /\ pc' \in {"open", "add", "done"} /\ batch = << >>
        /\ UNCHANGED <<program, batch, slot, waiter, conn, interest, ready, crossed>>
    BY <1>1, <1>2, WaitersAre DEF AsynWaiterInit, epoll, MysqlInv, ControlInv
  <2>2. QED
    BY <1>1, <2>1, MainStep DEF Between, AsynLabels
<1>3. CASE AddWaiter
  <2>1. pc = "add" /\ pc' = "query_start" /\ batch = << >> /\ EpollAdd(cur, {"IN"})
        /\ UNCHANGED <<program, cur, batch, slot, waiter, conn, crossed>>
    BY <1>3 DEF AddWaiter, Step, MysqlInv, ControlInv
  <2>2. /\ interest' \in [Waiters -> SUBSET {"IN", "OUT"}] /\ ready' \in SUBSET Waiters
        /\ \A w \in Waiters : w # cur => interest'[w] = interest[w] /\ (w \in ready => w \in ready')
    BY <1>1, <2>1 DEF EpollAdd
  <2>3. QED
    BY <1>1, <2>1, <2>2, MainStep DEF Between, AsynLabels
<1>4. CASE AsynEpollWait
  BY <1>1, <1>4, WaitStep DEF AsynEpollWait
<1>5. CASE FindWaiter
  <2>1. pc = "event" /\ cur' = batch[1].w /\ batch # << >>
        /\ pc' = (IF waiter[cur'].type = "QUERY_CONT" THEN "query_cont"
                  ELSE IF waiter[cur'].type = "RES_CONT" THEN "res_cont" ELSE "row_cont")
        /\ UNCHANGED <<program, batch, slot, waiter, conn, interest, ready, crossed>>
    BY <1>5 DEF FindWaiter, MysqlInv, ControlInv, epoll
  <2>2. cur' \in Waiters
    <3>1. 1 \in 1..Len(batch)
      BY <1>1, <2>1, TailIs
    <3>2. batch[1] \in Events
      BY <1>1, <3>1, ElementOfSeq
    <3>3. QED
      BY <2>1, <3>2 DEF Events
  <2>3. /\ pc' \in {"query_cont", "res_cont", "row_cont"}
        /\ pc' = "query_cont" => waiter[cur'].type = "QUERY_CONT"
        /\ pc' = "res_cont" => waiter[cur'].type = "RES_CONT"
        /\ pc' = "row_cont" => waiter[cur'].status = {}
    <3>1. waiter[cur'].type \in Types
      BY <1>1, <2>2 DEF Records
    <3>2. waiter[cur'].type \in IdleTypes => waiter[cur'].status = {}
      BY <1>1, <2>2 DEF MysqlInv, TypesInv
    <3>3. QED
      BY <2>1, <3>1, <3>2 DEF Types, IdleTypes
  <2>4. QED
    BY <1>1, <2>1, <2>2, <2>3, MainStep DEF Between, AsynLabels
<1>6. QED
  BY <1>2, <1>3, <1>4, <1>5

LEMMA AsynQueryInv ==
    ASSUME MysqlInv, program = "mysql_if_asyn", StartQuery, UNCHANGED <<stage, rounds>>
    PROVE  MysqlInv'
PROOF
<1>1. /\ pc = "query_start" /\ program \notin SequentialPrograms
      /\ pc \notin Between \cup {"destroy", "done"}
      /\ UNCHANGED <<program, cur, batch, slot, epoll, crossed, stage, rounds>>
  BY DEF StartQuery, Step, SequentialPrograms, Between
<1>2. PICK out \in Start(conn[cur], "query") :
        /\ conn' = [conn EXCEPT ![cur] = out.conn]
        /\ waiter' = [waiter EXCEPT ![cur].status = out.status,
                                    ![cur].type = IF out.status = {} THEN @ ELSE "QUERY_CONT"]
        /\ pc' = (IF out.status # {} THEN "mod" ELSE IF out.ok THEN "res_start" ELSE "destroy")
  BY DEF StartQuery, Step
<1>3. cur \in Waiters /\ conn[cur].op = "none"
  <2>1. batch = << >>
    BY <1>1 DEF MysqlInv, ControlInv
  <2>2. cur \in Waiters /\ cur \in Nat
    BY CurFacts, WaitersAre
  <2>3. cur >= cur
    BY <2>2, NextEvent
  <2>4. QED
    BY <1>1, <2>1, <2>2, <2>3 DEF MysqlInv, StartInv
<1>4. /\ Ran(conn[cur], out) /\ out.status = out.conn.want
  BY <1>2, <1>3, CurFacts, StartIs DEF Ops, InStep
<1>5. /\ waiter' \in [Waiters -> Records]
      /\ \A w \in Waiters \ {cur} : waiter'[w] = waiter[w]
      /\ waiter'[cur].status = out.status
      /\ waiter'[cur].type = IF out.status = {} THEN waiter[cur].type ELSE "QUERY_CONT"
      /\ waiter'[cur].res = waiter[cur].res
  <2>1. waiter' = [waiter EXCEPT ![cur].status = out.status,
                      ![cur].type = IF out.status = {} THEN waiter[cur].type ELSE "QUERY_CONT"]
    BY <1>2, CurFacts DEF Records
  <2>2. (IF out.status = {} THEN waiter[cur].type ELSE "QUERY_CONT") \in Types
    BY CurFacts DEF Records, Types
  <2>3. QED
    BY <1>4, <2>1, <2>2, CurFacts DEF Ran, Records
<1>6. /\ crossed' = crossed /\ crossed' \in BOOLEAN
      /\ waiter'[cur].type \in IdleTypes => out.status = {}
  BY <1>1, <1>5 DEF IdleTypes, MysqlInv, ControlInv
<1>7. /\ out.status # {} => pc' = "mod"
      /\ out.status = {} => pc' \in {"res_start", "destroy"}
      /\ pc' = "destroy" => out.status = {} /\ ~out.ok
  BY <1>2
<1>8. /\ pc' = "row" => cur = cur /\ (waiter'[cur].res = "live" \/ (waiter'[cur].res = "NULL" /\ ~out.ok))
      /\ waiter'[cur].res \in {waiter[cur].res, "NULL", "live"}
      /\ crossed => crossed'
      /\ crossed' => program = "mysql_if_asyn"
      /\ ~crossed' => cur = cur /\ out.status = out.conn.want
      /\ batch = << >> => cur = cur
      /\ out.conn.outOfSync => conn[cur].outOfSync \/ program = "mysql_if_asyn"
  BY <1>4, <1>5, <1>6, <1>7
<1>9. conn' = [conn EXCEPT ![cur] = out.conn]
  BY <1>2
<1>10. QED
  BY <1>1, <1>3, <1>4, <1>5, <1>6, <1>7, <1>8, <1>9, CallStep

(* The query of waiter slot is continued for waiter cur.                   *)
LEMMA AsynContinueInv ==
    ASSUME MysqlInv, program = "mysql_if_asyn", ContinueQuery, UNCHANGED <<stage, rounds>>
    PROVE  MysqlInv'
PROOF
<1>1. /\ pc = "query_cont" /\ program \notin SequentialPrograms /\ batch # << >>
      /\ pc \notin Between \cup {"destroy", "done"} /\ waiter[cur].type = "QUERY_CONT"
      /\ UNCHANGED <<program, cur, batch, slot, epoll, stage, rounds>>
      /\ crossed' = (crossed \/ slot # cur)
  BY DEF ContinueQuery, Step, SequentialPrograms, Between, MysqlInv, ControlInv, HandlerInv
<1>2. PICK out \in Cont(conn[slot], Happened(batch[1].ev)) :
        /\ conn' = [conn EXCEPT ![slot] = out.conn]
        /\ waiter' = [waiter EXCEPT ![cur].status = out.status]
        /\ pc' = (IF out.status = {} THEN "res_start" ELSE "mod")
  BY DEF ContinueQuery, Step
<1>3. slot \in Waiters
  <2>1. slot \in Nat /\ Len(batch) \in Nat /\ Len(batch) > 0
    BY <1>1, MysqlTypeIs, TailIs DEF MysqlInv
  <2>2. slot + Len(batch) <= Cardinality(Waiters)
    BY <1>1 DEF MysqlInv, ControlInv
  <2>3. slot < Cardinality(Waiters)
    BY <2>1, <2>2, WaitersAre
  <2>4. QED
    BY <2>1, <2>3, WaitersAre
<1>4. conn[slot] \in Conns /\ WellFormed(conn[slot])
  BY <1>3, CurFacts DEF MysqlInv, ConnInv
<1>5. /\ Ran(conn[slot], out) /\ out.status = out.conn.want
  <2>1. Happened(batch[1].ev) \in Status /\ "TIMEOUT" \notin Happened(batch[1].ev)
    BY DEF Happened, Status
  <2>2. QED
    BY <1>2, <1>4, <2>1, ContIs
<1>6. /\ waiter' \in [Waiters -> Records]
      /\ \A w \in Waiters \ {cur} : waiter'[w] = waiter[w]
      /\ waiter'[cur].status = out.status
      /\ waiter'[cur].type = "QUERY_CONT"
      /\ waiter'[cur].res = waiter[cur].res
  BY <1>1, <1>2, <1>5, CurFacts DEF Ran, Records
<1>7. /\ crossed' \in BOOLEAN /\ (crossed => crossed') /\ (~crossed' => slot = cur)
      /\ waiter'[cur].type \notin IdleTypes
  BY <1>1, <1>6 DEF IdleTypes
<1>8. /\ out.status # {} => pc' = "mod"
      /\ out.status = {} => pc' = "res_start"
  BY <1>2
<1>9. QED
  BY <1>1, <1>2, <1>3, <1>5, <1>6, <1>7, <1>8, CallStep

LEMMA AsynStoreInv ==
    ASSUME MysqlInv, program = "mysql_if_asyn", StoreResult \/ ContinueStore,
           UNCHANGED <<stage, rounds>>
    PROVE  MysqlInv'
PROOF
<1>1. /\ pc \in {"res_start", "res_cont"} /\ program \notin SequentialPrograms
      /\ pc \notin Between \cup {"destroy", "done"}
      /\ UNCHANGED <<program, cur, batch, slot, epoll, crossed, stage, rounds>>
      /\ cur \in Waiters /\ crossed' = crossed /\ crossed' \in BOOLEAN
  BY CurFacts DEF StoreResult, ContinueStore, Step, SequentialPrograms, Between, MysqlInv, ControlInv
<1>2. PICK out : \E n \in 0..MaxRows :
        /\ Ran(conn[cur], out)
        /\ ~crossed => out.status = out.conn.want
        /\ conn' = [conn EXCEPT ![cur] = out.conn]
        /\ waiter' = [waiter EXCEPT ![cur] = [Stored(cur, out, n) EXCEPT !.type =
                         IF out.status = {} THEN waiter[cur].type ELSE "RES_CONT"]]
        /\ pc' = (IF out.status # {} THEN "mod"
                  ELSE IF pc = "res_start" /\ batch = << >> /\ ~out.ok THEN "destroy" ELSE "row")
  <2>1. CASE StoreResult
    <3>1. PICK out \in Start(conn[cur], "store"), n \in 0..MaxRows :
            /\ conn' = [conn EXCEPT ![cur] = out.conn]
            /\ waiter' = [waiter EXCEPT ![cur] = [Stored(cur, out, n)
                             EXCEPT !.type = IF out.status = {} THEN @ ELSE "RES_CONT"]]
            /\ pc' = (IF out.status # {} THEN "mod"
                      ELSE IF AtStart /\ ~out.ok THEN "destroy" ELSE "row")
      BY <2>1 DEF StoreResult, Step
    <3>2. pc = "res_start" /\ (~crossed => conn[cur].op = "none")
      <4>1. pc = "res_start" /\ waiter[cur].status = {}
        BY <2>1 DEF StoreResult, MysqlInv, HandlerInv, Returned
      <4>2. QED
        BY <4>1, CurFacts DEF WellFormed
    <3>3. /\ Ran(conn[cur], out) /\ (~crossed => out.status = out.conn.want)
      BY <3>2, CurFacts, StartIs DEF Ops, InStep
    <3>4. Stored(cur, out, n).type = waiter[cur].type
      BY <3>3, CurFacts, StoredIs DEF Ran
    <3>5. waiter' = [waiter EXCEPT ![cur] = [Stored(cur, out, n) EXCEPT !.type =
                         IF out.status = {} THEN waiter[cur].type ELSE "RES_CONT"]]
      BY <3>1, <3>4
    <3>6. QED
      BY <3>1, <3>2, <3>3, <3>5 DEF AtStart
  <2>2. CASE ContinueStore
    <3>1. PICK out \in Cont(conn[cur], Happened(batch[1].ev)), n \in 0..MaxRows :
            /\ conn' = [conn EXCEPT ![cur] = out.conn]
            /\ waiter' = [waiter EXCEPT ![cur] = Stored(cur, out, n)]
            /\ pc' = (IF out.status = {} THEN "row" ELSE "mod")
      BY <2>2 DEF ContinueStore, Step
    <3>2. pc = "res_cont" /\ waiter[cur].type = "RES_CONT"
      BY <2>2 DEF ContinueStore, MysqlInv, HandlerInv
    <3>3. /\ Ran(conn[cur], out) /\ out.status = out.conn.want
      <4>1. Happened(batch[1].ev) \in Status /\ "TIMEOUT" \notin Happened(batch[1].ev)
        BY DEF Happened, Status
      <4>2. QED
        BY <4>1, CurFacts, ContIs
    <3>4. Stored(cur, out, n) \in Records /\ Stored(cur, out, n).type = "RES_CONT"
      BY <3>2, <3>3, CurFacts, StoredIs DEF Ran
    <3>5. [Stored(cur, out, n) EXCEPT !.type =
              IF out.status = {} THEN waiter[cur].type ELSE "RES_CONT"] = Stored(cur, out, n)
      BY <3>2, <3>4 DEF Records
    <3>6. QED
      BY <3>1, <3>2, <3>3, <3>5
  <2>3. QED
    BY <2>1, <2>2
<1>3. /\ waiter' \in [Waiters -> Records]
      /\ \A w \in Waiters \ {cur} : waiter'[w] = waiter[w]
      /\ waiter'[cur].status = out.status
      /\ waiter'[cur].type = IF out.status = {} THEN waiter[cur].type ELSE "RES_CONT"
      /\ waiter'[cur].res \in {waiter[cur].res, "NULL", "live"}
      /\ out.status = {} =>
            waiter'[cur].res = "live" \/ (waiter'[cur].res = "NULL" /\ ~out.ok)
  <2>1. out.status \in Status /\ out.ok \in BOOLEAN
    BY <1>2 DEF Ran
  <2> DEFINE type == IF out.status = {} THEN waiter[cur].type ELSE "RES_CONT"
  <2>2. PICK n \in 0..MaxRows :
            waiter' = [waiter EXCEPT ![cur] = [Stored(cur, out, n) EXCEPT !.type = type]]
    BY <1>2
  <2> DEFINE r == Stored(cur, out, n)
  <2>3. /\ r \in Records /\ r.status = out.status
        /\ r.res = IF out.status # {} THEN waiter[cur].res ELSE IF out.ok THEN "live" ELSE "NULL"
    BY <2>1, CurFacts, StoredIs
  <2>4. type \in Types
    BY CurFacts DEF Records, Types
  <2>5. waiter' = [waiter EXCEPT ![cur] = [r EXCEPT !.type = type]]
    BY <2>2
  <2> HIDE DEF r, type
  <2>6. /\ waiter' \in [Waiters -> Records]
        /\ \A w \in Waiters \ {cur} : waiter'[w] = waiter[w]
        /\ waiter'[cur].status = out.status
        /\ waiter'[cur].type = type
        /\ waiter'[cur].res = r.res
    BY <2>1, <2>3, <2>4, <2>5, CurFacts DEF Records
  <2>7. QED
    BY <2>1, <2>3, <2>6 DEF type
<1>4. waiter'[cur].type \in IdleTypes => out.status = {}
  BY <1>3 DEF IdleTypes
<1>5. /\ out.status # {} => pc' = "mod"
      /\ out.status = {} => pc' \in {"row", "destroy"}
      /\ pc' = "row" => out.status = {}
      /\ pc' = "destroy" => out.status = {} /\ ~out.ok
      /\ Ran(conn[cur], out)
      /\ ~crossed => out.status = out.conn.want
      /\ conn' = [conn EXCEPT ![cur] = out.conn]
  BY <1>2
<1>6. /\ pc' = "row" => cur = cur /\ (waiter'[cur].res = "live" \/ (waiter'[cur].res = "NULL" /\ ~out.ok))
      /\ crossed => crossed'
      /\ crossed' => program = "mysql_if_asyn"
      /\ ~crossed' => cur = cur /\ out.status = out.conn.want
      /\ batch = << >> => cur = cur
      /\ out.conn.outOfSync => conn[cur].outOfSync \/ program = "mysql_if_asyn"
      /\ out.status = {} => pc' \in {"res_start", "row", "destroy"}
  BY <1>1, <1>3, <1>5
<1>7. QED
  BY <1>1, <1>3, <1>4, <1>5, <1>6, CallStep

LEMMA AsynRowsInv ==
    ASSUME MysqlInv, program = "mysql_if_asyn", FetchRows, UNCHANGED <<stage, rounds>>
    PROVE  MysqlInv'
PROOF
<1>1. /\ pc = "row" /\ program \notin SequentialPrograms /\ pc \notin Between \cup {"done"}
      /\ UNCHANGED <<program, cur, batch, slot, conn, epoll, crossed, stage, rounds>>
      /\ waiter[cur].status = {} /\ cur \in Waiters
      /\ waiter[cur].res = "live" \/ (waiter[cur].res = "NULL" /\ conn[cur].failed)
  BY CurFacts DEF FetchRows, Step, SequentialPrograms, Between, MysqlInv, HandlerInv, Returned
<1>2. CASE waiter[cur].res = "NULL" /\ Step("destroy") /\ UNCHANGED waiter
  BY <1>1, <1>2, LabelStep DEF Step
<1>3. CASE waiter[cur].res # "NULL" /\ waiter[cur].rows = 0 /\ Step("free") /\ UNCHANGED waiter
  BY <1>1, <1>3, LabelStep DEF Step
<1>4. CASE /\ waiter[cur].res # "NULL" /\ waiter[cur].rows > 0
           /\ waiter' = [waiter EXCEPT ![cur].rows = @ - 1]
           /\ Step(IF AtStart THEN "row" ELSE "row_cont")
  <2>1. pc' \in {"row", "row_cont"}
    BY <1>4 DEF Step
  <2>2. QED
    BY <1>1, <1>4, <2>1, RowStep
<1>5. QED
  BY <1>2, <1>3, <1>4 DEF FetchRows

(* A fetch that is continued though none is pending.                       *)
LEMMA AsynRowContInv ==
    ASSUME MysqlInv, program = "mysql_if_asyn", ContinueRows, UNCHANGED <<stage, rounds>>
    PROVE  MysqlInv'
PROOF
<1>1. /\ pc = "row_cont" /\ program \notin SequentialPrograms /\ pc' \in {"free", "destroy"}
      /\ pc \notin Between /\ pc \notin {"destroy", "done"}
      /\ UNCHANGED <<program, cur, batch, slot, waiter, epoll, crossed, stage, rounds>>
      /\ waiter[cur].status = {} /\ cur \in Waiters /\ crossed \in BOOLEAN
  BY CurFacts DEF ContinueRows, Step, SequentialPrograms, Between, MysqlInv, HandlerInv, Returned,
                  ControlInv
<1>2. PICK freed \in BOOLEAN :
        /\ freed = (conn[cur].readFreed \/ waiter[cur].res # "live")
        /\ conn' = [conn EXCEPT ![cur].outOfSync = TRUE, ![cur].readFreed = freed]
  BY DEF ContinueRows
<1>3. /\ conn' \in [Waiters -> Conns]
      /\ \A w \in Waiters \ {cur} : conn'[w] = conn[w]
      /\ conn'[cur].op = conn[cur].op /\ conn'[cur].want = conn[cur].want
      /\ conn'[cur].timed = conn[cur].timed
      /\ conn'[cur].outOfSync /\ conn'[cur].readFreed = freed
  BY <1>2, CurFacts DEF Conns
<1>4. MysqlTypeOK'
  <2>1. /\ slot' \in Nat /\ cur' \in Waiters /\ batch' \in Seq(Events)
        /\ waiter' \in [Waiters -> Records]
        /\ interest' \in [Waiters -> SUBSET {"IN", "OUT"}] /\ ready' \in SUBSET Waiters
    BY <1>1, MysqlTypeIs DEF MysqlInv, epoll
  <2>2. QED
    BY <1>3, <2>1 DEF MysqlTypeOK, Records, Conns, Types, Results, Events
<1>5. ControlInv' /\ TypesInv' /\ StartInv' /\ WatchInv' /\ StageInv'
  <2>1. pc' \in Returned \cup {"mod", "destroy", "done"} /\ (program = "mysql" => pc' \in LoopLabels)
    BY <1>1 DEF Returned
  <2>2. \A w \in Waiters \ {cur} :
            /\ ~crossed' \/ batch = << >> => conn'[w] = conn[w]
            /\ waiter'[w].type = waiter[w].type /\ waiter'[w].status = waiter[w].status
    BY <1>1, <1>3
  <2>3. waiter'[cur].type \in IdleTypes => waiter'[cur].status = {}
    BY <1>1
  <2>4. crossed' \in BOOLEAN /\ (crossed => crossed') /\ (crossed' => program = "mysql_if_asyn")
    BY <1>1
  <2>5. program # "mysql"
    OBVIOUS
  <2>6. QED
    BY <1>1, <2>1, <2>2, <2>3, <2>4, <2>5, InnerStep
<1>6. ConnInv'
  <2>1. ASSUME NEW w \in Waiters
        PROVE  /\ conn'[w].op = conn[w].op /\ conn'[w].want = conn[w].want
               /\ conn'[w].timed = conn[w].timed
               /\ conn[w].readFreed => conn'[w].readFreed
    BY <1>2, <1>3
  <2>2. program' = program /\ waiter' = waiter /\ crossed' = crossed
    BY <1>1
  <2>3. ASSUME NEW w \in Waiters
        PROVE
            /\ WellFormed(conn'[w])
            /\ ~crossed' => waiter'[w].status = conn'[w].want
            /\ conn'[w].outOfSync => program' = "mysql_if_asyn"
            /\ waiter'[w].res = "freed twice" =>
                  program' = "mysql_if_asyn" /\ (conn'[w].readFreed \/ pc' = "done")
    <3>1. /\ WellFormed(conn[w]) /\ (~crossed => waiter[w].status = conn[w].want)
          /\ waiter[w].res = "freed twice" => conn[w].readFreed
      BY <1>1 DEF MysqlInv, ConnInv
    <3>2. WellFormed(conn'[w])
      BY <2>1, <3>1 DEF WellFormed
    <3>3. QED
      BY <2>1, <2>2, <3>1, <3>2
  <2>4. QED
    BY <2>3 DEF ConnInv
<1>7. HandlerInv'
  BY <1>1, <1>2, <1>3 DEF HandlerInv, CrashOnlyAfterError
<1>8. QED
  BY <1>4, <1>5, <1>6, <1>7 DEF MysqlInv

LEMMA AsynFreeInv ==
    ASSUME MysqlInv, program = "mysql_if_asyn", FreeRows, UNCHANGED <<stage, rounds>>
    PROVE  MysqlInv'
PROOF
<1>1. /\ pc = "free" /\ program \notin SequentialPrograms /\ pc' \in {"skip", "mod"}
      /\ pc \notin Between /\ pc \notin {"destroy", "done"}
      /\ UNCHANGED <<program, cur, batch, slot, conn, epoll, crossed, stage, rounds>>
      /\ waiter[cur].status = {} /\ cur \in Waiters /\ crossed \in BOOLEAN
      /\ waiter[cur].res = "live" \/ conn[cur].readFreed
  BY CurFacts DEF FreeRows, Step, SequentialPrograms, Between, MysqlInv, HandlerInv, Returned,
                  ControlInv
<1>2. /\ waiter' \in [Waiters -> Records]
      /\ \A w \in Waiters \ {cur} : waiter'[w] = waiter[w]
      /\ waiter'[cur].type = "ROW" /\ waiter'[cur].status = {}
      /\ waiter'[cur].res = "freed twice" => conn[cur].readFreed
  <2>1. PICK res \in Results :
            /\ waiter' = [waiter EXCEPT ![cur].res = res, ![cur].type = "ROW"]
            /\ res = "freed twice" => conn[cur].readFreed
    <3>1. waiter[cur].res \in Results
      BY CurFacts DEF Records
    <3>2. /\ FreeResult(waiter[cur].res) \in Results
          /\ waiter[cur].res = "live" => FreeResult(waiter[cur].res) = "freed"
      BY <3>1, FreeIs
    <3>3. FreeResult(waiter[cur].res) = "freed twice" => conn[cur].readFreed
      BY <1>1, <3>2
    <3>4. waiter' = [waiter EXCEPT ![cur].res = FreeResult(waiter[cur].res), ![cur].type = "ROW"]
      BY DEF FreeRows
    <3>5. QED
      BY <3>2, <3>3, <3>4
  <2>2. QED
    BY <1>1, <2>1, CurFacts DEF Records, Types
<1>3. MysqlTypeOK'
  <2>1. /\ slot' \in Nat /\ cur' \in Waiters /\ batch' \in Seq(Events) /\ conn' \in [Waiters -> Conns]
        /\ interest' \in [Waiters -> SUBSET {"IN", "OUT"}] /\ ready' \in SUBSET Waiters
    BY <1>1, MysqlTypeIs DEF MysqlInv, epoll
  <2>2. QED
    BY <1>2, <2>1 DEF MysqlTypeOK, Records, Conns, Types, Results, Events
<1>4. ControlInv' /\ TypesInv' /\ StartInv' /\ WatchInv' /\ StageInv'
  <2>1. pc' \in Returned \cup {"mod", "destroy", "done"} /\ program # "mysql"
    BY <1>1 DEF Returned
  <2>2. \A w \in Waiters \ {cur} :
            /\ ~crossed' \/ batch = << >> => conn'[w] = conn[w]
            /\ waiter'[w].type = waiter[w].type /\ waiter'[w].status = waiter[w].status
    BY <1>1, <1>2
  <2>3. waiter'[cur].type \in IdleTypes => waiter'[cur].status = {}
    BY <1>2
  <2>4. crossed' \in BOOLEAN /\ (crossed => crossed') /\ (crossed' => program = "mysql_if_asyn")
    BY <1>1
  <2>5. QED
    BY <1>1, <2>1, <2>2, <2>3, <2>4, InnerStep
<1>5. ConnInv'
  <2>1. \A w \in Waiters : /\ waiter'[w].status = waiter[w].status
                           /\ waiter'[w].res = "freed twice" => conn[w].readFreed
    BY <1>1, <1>2 DEF MysqlInv, ConnInv
  <2>2. QED
    BY <1>1, <2>1 DEF MysqlInv, ConnInv, WellFormed
<1>6. HandlerInv'
  BY <1>1, <1>2 DEF HandlerInv, CrashOnlyAfterError
<1>7. QED
  BY <1>3, <1>4, <1>5, <1>6 DEF MysqlInv

LEMMA AsynLeaveInv ==
    ASSUME MysqlInv, program = "mysql_if_asyn", Modify, UNCHANGED <<stage, rounds>>
    PROVE  MysqlInv'
PROOF
<1>1. /\ pc \in {"mod", "skip"} /\ program \notin SequentialPrograms
      /\ pc \notin Between /\ pc \notin {"destroy", "done", "crash"}
      /\ UNCHANGED <<program, waiter, conn, crossed, stage, rounds>> /\ cur \in Waiters
  BY CurFacts DEF Modify, NextWaiterOrEvent, SequentialPrograms, Between
<1>2. \/ /\ batch = << >> /\ UNCHANGED <<batch, slot>>
         /\ \/ pc' = "wait" /\ cur' = 0
            \/ /\ pc' = (IF program = "mysql" THEN "init" ELSE "add")
               /\ cur' = cur + 1 /\ cur + 1 \in Waiters
      \/ /\ batch # << >> /\ batch' = Tail(batch) /\ slot' = slot + 1 /\ cur' = 0
         /\ pc' = IF Len(batch) = 1 THEN "wait" ELSE "event"
  BY DEF Modify, NextWaiterOrEvent, AtStart
<1>3. ready \in SUBSET Waiters /\ interest \in [Waiters -> SUBSET {"IN", "OUT"}]
      /\ waiter \in [Waiters -> Records]
      /\ (waiter[cur].type \in IdleTypes => waiter[cur].status = {})
  BY <1>1, MysqlTypeIs DEF MysqlInv, TypesInv
<1>4. CASE pc = "mod" /\ EpollMod(cur, Mask(waiter[cur].status))
  <2>1. Mask(waiter[cur].status) \in SUBSET {"IN", "OUT"}
    BY DEF Mask
  <2>2. /\ interest' \in [Waiters -> SUBSET {"IN", "OUT"}] /\ ready' \in SUBSET Waiters
        /\ \A w \in Waiters \ {cur} : interest'[w] = interest[w] /\ (w \in ready => w \in ready')
    BY <1>1, <1>3, <1>4, <2>1 DEF EpollMod, EpollAdd, epoll
  <2>3. ~crossed => \A w \in Waiters : w = cur => Guarded(w)'
    BY <1>1, <1>4, Registered
  <2>4. QED
    BY <1>1, <1>2, <1>3, <2>2, <2>3, LeaveStep
<1>5. CASE pc = "skip" /\ UNCHANGED epoll
  <2>1. ~crossed => \A w \in Waiters : w = cur => Guarded(w)'
    <3>1. waiter[cur].status = {}
      BY <1>5 DEF MysqlInv, HandlerInv, Returned
    <3>2. QED
      BY <1>1, <3>1, CurFacts DEF Guarded, Pending, WellFormed
  <2>2. UNCHANGED <<interest, ready>>
    BY <1>5 DEF epoll
  <2>3. QED
    BY <1>1, <1>2, <1>3, <2>1, <2>2, LeaveStep
<1>6. QED
  BY <1>4, <1>5 DEF Modify

(* The end, which frees every result once more.                            *)
LEMMA AsynDestroyInv ==
    ASSUME MysqlInv, program = "mysql_if_asyn", DestroyWaiters, UNCHANGED <<stage, rounds>>
    PROVE  MysqlInv'
PROOF
<1>1. /\ pc = "destroy" /\ program \notin SequentialPrograms /\ pc' = "done" /\ pc \notin Between
      /\ UNCHANGED <<program, cur, batch, slot, conn, epoll, crossed, stage, rounds>>
      /\ cur \in Waiters /\ crossed \in BOOLEAN
  BY CurFacts DEF DestroyWaiters, Step, SequentialPrograms, Between, MysqlInv, ControlInv
<1>2. /\ waiter' \in [Waiters -> Records]
      /\ \A w \in Waiters :
            waiter'[w].type = waiter[w].type /\ waiter'[w].status = waiter[w].status
  <2>1. ASSUME NEW w \in Waiters
        PROVE  /\ waiter'[w] \in Records
               /\ waiter'[w].type = waiter[w].type /\ waiter'[w].status = waiter[w].status
    <3>1. waiter[w] \in Records /\ waiter[w].res \in Results
      BY CurFacts DEF Records
    <3>2. PICK res \in Results : waiter'[w] = [waiter[w] EXCEPT !.res = res]
      BY <3>1, FreeIs DEF DestroyWaiters
    <3>3. QED
      BY <3>1, <3>2 DEF Records
  <2>2. waiter' = [w \in Waiters |-> waiter'[w]]
    BY DEF DestroyWaiters
  <2>3. QED
    BY <2>1, <2>2
<1>3. MysqlTypeOK'
  <2>1. /\ slot' \in Nat /\ cur' \in Waiters /\ batch' \in Seq(Events) /\ conn' \in [Waiters -> Conns]
        /\ interest' \in [Waiters -> SUBSET {"IN", "OUT"}] /\ ready' \in SUBSET Waiters
    BY <1>1, MysqlTypeIs DEF MysqlInv, epoll
  <2>2. QED
    BY <1>2, <2>1 DEF MysqlTypeOK, Records, Conns, Types, Results, Events
<1>4. ControlInv' /\ TypesInv' /\ StartInv' /\ WatchInv' /\ StageInv'
  <2>1. pc' \in Returned \cup {"mod", "destroy", "done"} /\ program # "mysql"
    BY <1>1
  <2>2. \A w \in Waiters \ {cur} :
            /\ ~crossed' \/ batch = << >> => conn'[w] = conn[w]
            /\ waiter'[w].type = waiter[w].type /\ waiter'[w].status = waiter[w].status
    BY <1>1, <1>2
  <2>3. waiter'[cur].type \in IdleTypes => waiter'[cur].status = {}
    BY <1>1, <1>2 DEF MysqlInv, TypesInv
  <2>4. crossed' \in BOOLEAN /\ (crossed => crossed') /\ (crossed' => program = "mysql_if_asyn")
    BY <1>1
  <2>5. QED
    BY <1>1, <2>1, <2>2, <2>3, <2>4, InnerStep
<1>5. ConnInv'
  BY <1>1, <1>2 DEF MysqlInv, ConnInv, WellFormed
<1>6. HandlerInv'
  BY <1>1 DEF HandlerInv, CrashOnlyAfterError, Returned
<1>7. QED
  BY <1>3, <1>4, <1>5, <1>6 DEF MysqlInv

LEMMA AsynProgramInv ==
    ASSUME MysqlInv, program = "mysql_if_asyn", AsynProgram, UNCHANGED <<stage, rounds>>
    PROVE  MysqlInv'
BY AsynMainInv, AsynQueryInv, AsynContinueInv, AsynStoreInv, AsynRowsInv, AsynRowContInv,
   AsynFreeInv, AsynLeaveInv, AsynDestroyInv
   DEF AsynProgram, AsynStart, AsynChain, AsynEvent

-----------------------------------------------------------------------------
(* The programs that run one query at a time.                              *)

Operations == (Ops \ {"none"}) \cup {"use", "rows", "free"}

(* What may come behind an operation, in whatever program.                 *)
Follows(op) ==
    CASE op = "connect" -> {"query"}
      [] op = "query"   -> {"use", "store"}
      [] op = "store"   -> {"rows"}
      [] op = "rows"    -> {"free"}
      [] op = "use"     -> {"free"}
      [] op = "free"    -> {"close"}
      [] OTHER          -> {}

(* A list of stages in the order the library asks for.                     *)
Ordered(stages) ==
    /\ Len(stages) \in Nat \ {0}
    /\ stages[1].op \in {"connect", "query"}
    /\ \A k \in 1..Len(stages) :
          /\ stages[k].op \in Operations
          /\ k # Len(stages) => k + 1 \in 1..Len(stages) /\ stages[k + 1].op \in Follows(stages[k].op)
          /\ stages[k].how = "poll" => program = "server-4"
          /\ stages[k].how = "stop" => program = "mysql2"
          /\ k = Len(stages) => program = "mysql2" \/ stages[k].op \in {"free", "close"}
          /\ stages[k].op = "store" /\ stages[k].checks => program = "mysql2"

LEMMA StagesAre ==
    ASSUME program \in SequentialPrograms
    PROVE  Ordered(Stages)
PROOF
<1>1. CASE program = "server-4"
  <2>1. Stages = MysqlDoit
    BY <1>1 DEF Stages
  <2>2. Ordered(MysqlDoit)
    BY <1>1 DEF Ordered, MysqlDoit, Opened, Stage, Operations, Ops, Follows
  <2>3. QED
    BY <2>1, <2>2
<1>2. CASE program = "async_example"
  <2>1. Stages = Doit
    BY <1>2 DEF Stages
  <2>2. Ordered(Doit)
    BY <1>2 DEF Ordered, Doit, Stage, Operations, Ops, Follows
  <2>3. QED
    BY <2>1, <2>2
<1>3. CASE program = "mysql_while_asyn"
  <2>1. Stages \in {mysql_do_query, mysql_do_query2}
    BY <1>3 DEF Stages
  <2>2. Ordered(mysql_do_query) /\ Ordered(mysql_do_query2)
    BY <1>3 DEF Ordered, mysql_do_query, mysql_do_query2, Stage, Operations, Ops, Follows
  <2>3. QED
    BY <2>1, <2>2
<1>4. CASE program = "mysql2"
  <2>1. Stages = mysql2_main
    BY <1>4 DEF Stages
  <2>2. Ordered(mysql2_main)
    BY <1>4 DEF Ordered, mysql2_main, Opened, Stage, Operations, Ops, Follows
  <2>3. QED
    BY <2>1, <2>2
<1>5. QED
  BY <1>1, <1>2, <1>3, <1>4 DEF SequentialPrograms

(* The result a program holds when an operation comes to an end.           *)
ResultFits(op, res, failed) ==
    /\ op \in {"connect", "query", "free", "close"} => res \in {"NULL", "freed"}
    /\ op \in {"use", "rows"} => res = "live"
    /\ op = "store" => res = "live" \/ (res = "NULL" /\ failed)

LEMMA AdvanceInv ==
    ASSUME program \in SequentialPrograms, stage \in 1..Len(Stages), rounds \in Nat, Advance,
           conn'[0].op = "none", ResultFits(Now.op, waiter'[0].res, conn'[0].failed)
    PROVE  StageInv' /\ pc' \in {"call", "done"} /\ UNCHANGED <<program, cur, batch, slot>>
PROOF
<1>1. /\ Ordered(Stages) /\ Now = Stages[stage] /\ Now.op \in Operations
      /\ UNCHANGED <<program, cur, batch, slot>>
  BY StagesAre DEF Now, Ordered, Advance, Move
<1>2. CASE ~AtEnd
  <2>1. /\ stage' = stage + 1 /\ pc' = "call" /\ rounds' = rounds /\ Stages' = Stages
    BY <1>1, <1>2 DEF Advance, Move, Stages, Repeats
  <2>2. /\ stage' \in 1..Len(Stages) /\ Stages[stage'].op \in Follows(Now.op)
    BY <1>1, <1>2, <2>1 DEF AtEnd, Ordered
  <2>3. Now' = Stages[stage']
    BY <2>1 DEF Now
  <2>4. /\ Now'.op \in Ops \cup {"use"} => Now.op \in {"connect", "query", "free"}
        /\ Now'.op = "rows" => Now.op = "store"
        /\ Now'.op = "free" => Now.op \in {"rows", "use"}
    BY <2>2, <2>3 DEF Follows, Ops
  <2>5. QED
    BY <1>1, <2>1, <2>2, <2>4 DEF StageInv, ResultFits
<1>3. CASE AtEnd /\ Repeats /\ rounds + 1 < 2 * LOOPS
  <2>1. stage' = 1 /\ rounds' = rounds + 1 /\ rounds' \in Nat /\ pc' = "call"
        /\ program = "mysql_while_asyn"
    BY <1>3 DEF Advance, Move, Repeats
  <2>2. Stages' \in {mysql_do_query, mysql_do_query2}
    BY <1>1, <2>1 DEF Stages
  <2>3. Len(Stages') = 4 /\ Stages'[1].op = "query"
    BY <2>2 DEF mysql_do_query, mysql_do_query2, Stage
  <2>4. stage' \in 1..Len(Stages') /\ Now'.op = "query"
    BY <2>1, <2>3 DEF Now
  <2>5. waiter'[0].res \in {"NULL", "freed"}
    BY <1>1, <1>3, <2>1 DEF AtEnd, Ordered, ResultFits
  <2>6. QED
    BY <1>1, <2>1, <2>4, <2>5 DEF StageInv
<1>4. CASE AtEnd /\ ~(Repeats /\ rounds + 1 < 2 * LOOPS)
  <2>1. UNCHANGED <<stage, rounds>> /\ pc' = "done" /\ Stages' = Stages
    BY <1>1, <1>4 DEF Advance, Move, Stages, Repeats
  <2>2. program = "mysql2" \/ waiter'[0].res \in {"NULL", "freed"}
    BY <1>1, <1>4 DEF AtEnd, Ordered, ResultFits
  <2>3. QED
    BY <1>1, <2>1, <2>2 DEF StageInv
<1>5. QED
  BY <1>2, <1>3, <1>4

(* These programs neither handle events nor use epoll.                     *)
LEMMA SequentialStep ==
    ASSUME MysqlInv, program \in SequentialPrograms,
           UNCHANGED <<program, cur, batch, slot, epoll, crossed>>,
           waiter' \in [Waiters -> Records], conn' \in [Waiters -> Conns],
           pc' \in SequentialLabels,
           pc' = "crash" => \E w \in Waiters : conn'[w].failed,
           ConnInv', StageInv'
    PROVE  MysqlInv'
PROOF
<1>1. MysqlTypeOK'
  <2>1. /\ slot' \in Nat /\ cur' \in Waiters /\ batch' \in Seq(Events)
        /\ interest' \in [Waiters -> SUBSET {"IN", "OUT"}] /\ ready' \in SUBSET Waiters
    BY MysqlTypeIs DEF MysqlInv, epoll
  <2>2. QED
    BY <2>1 DEF MysqlTypeOK, Records, Conns, Types, Results, Events
<1>2. program \notin {"mysql", "mysql_if_asyn"}
  BY DEF SequentialPrograms
<1>3. ControlInv'
  <2>1. pc \notin Between /\ pc' \notin Between
    BY DEF MysqlInv, ControlInv, SequentialLabels, Between
  <2>2. QED
    BY <1>2, <2>1 DEF MysqlInv, ControlInv, SequentialLabels
<1>4. HandlerInv'
  BY DEF HandlerInv, CrashOnlyAfterError, Returned, SequentialLabels
<1>5. TypesInv' /\ StartInv' /\ WatchInv'
  BY <1>2 DEF TypesInv, StartInv, WatchInv
<1>6. QED
  BY <1>1, <1>3, <1>4, <1>5 DEF MysqlInv

(* A call of the library, or a continuation, and what the program does     *)
(* with what it returns.                                                   *)
LEMMA MakesInv ==
    ASSUME MysqlInv, program \in SequentialPrograms, pc \in {"call", "cont", "poll"},
           Now.op \in Ops, NEW outs, Makes(outs), UNCHANGED <<epoll, crossed>>,
           \A out \in outs :
               /\ Ran(conn[0], out) /\ out.status = out.conn.want
               /\ out.conn.outOfSync = conn[0].outOfSync
    PROVE  MysqlInv'
PROOF
<1>1. PICK out \in outs, n \in 0..MaxRows :
        /\ conn' = [conn EXCEPT ![0] = out.conn]
        /\ waiter' = [waiter EXCEPT ![0] =
               IF Now.op = "store" THEN Stored(0, out, n) ELSE [@ EXCEPT !.status = out.status]]
        /\ Continue(out)
  BY DEF Makes
<1>2. /\ Ran(conn[0], out) /\ out.status = out.conn.want
      /\ out.conn.outOfSync = conn[0].outOfSync
  BY <1>1
<1>3. /\ 0 \in Waiters /\ waiter[0] \in Records /\ waiter \in [Waiters -> Records]
      /\ ~crossed /\ program # "mysql_if_asyn"
      /\ waiter[0].res \in {"NULL", "freed"}
      /\ rounds \in Nat /\ stage \in 1..Len(Stages)
  BY WaitersAre, MysqlTypeIs DEF MysqlInv, ControlInv, StageInv, SequentialPrograms
<1> DEFINE r == IF Now.op = "store" THEN Stored(0, out, n)
                ELSE [waiter[0] EXCEPT !.status = out.status]
<1>4. /\ r \in Records /\ r.status = out.status
      /\ r.res = IF Now.op = "store" /\ out.status = {}
                 THEN (IF out.ok THEN "live" ELSE "NULL") ELSE waiter[0].res
  <2>1. out.status \in Status /\ out.ok \in BOOLEAN
    BY <1>2 DEF Ran
  <2>2. CASE Now.op = "store"
    <3>1. r = Stored(0, out, n)
      BY <2>2
    <3>2. QED
      BY <1>3, <2>1, <2>2, <3>1, StoredIs
  <2>3. CASE Now.op # "store"
    BY <1>3, <2>1, <2>3 DEF Records
  <2>4. QED
    BY <2>2, <2>3
<1>5. waiter' = [waiter EXCEPT ![0] = r]
  BY <1>1
<1> HIDE DEF r
<1>6. /\ waiter' \in [Waiters -> Records] /\ waiter'[0] = r
      /\ \A w \in Waiters \ {0} : waiter'[w] = waiter[w]
  BY <1>3, <1>4, <1>5
<1>7. /\ Ordered(Stages) /\ Now = Stages[stage] /\ Now.op \in Operations
      /\ Now.how = "poll" => program = "server-4"
      /\ Now.how = "stop" => program = "mysql2"
      /\ Now.op = "store" /\ Now.checks => program = "mysql2"
      /\ Now.op \notin {"use", "rows", "free"}
  BY <1>3, StagesAre DEF Now, Ordered, Ops
<1>8. UNCHANGED <<program, cur, batch, slot>>
  BY <1>1 DEF Continue, Stay, Advance, Move
<1>9. /\ conn' \in [Waiters -> Conns] /\ ConnInv'
      /\ conn'[0] = out.conn
  <2>1. waiter'[0].status = out.status /\ waiter'[0].res \in {waiter[0].res, "NULL", "live"}
    BY <1>4, <1>6
  <2>2. program' = program /\ pc # "done"
        /\ (~crossed' => ~crossed /\ 0 = 0 /\ out.status = out.conn.want)
    BY <1>2, <1>3, <1>8
  <2>3. out.conn.outOfSync => conn[0].outOfSync \/ program = "mysql_if_asyn"
    BY <1>2
  <2>4. conn' = [conn EXCEPT ![0] = out.conn]
    BY <1>1
  <2>5. QED
    BY <1>2, <1>3, <1>6, <2>1, <2>2, <2>3, <2>4, CallFrame
<1>10. StageInv' /\ pc' \in SequentialLabels \ {"crash"}
  <2>1. CASE out.status # {}
    <3>1. /\ pc' = (CASE Now.how = "poll" -> "poll" [] Now.how = "stop" -> "done" [] OTHER -> "cont")
          /\ UNCHANGED <<stage, rounds>>
      BY <1>1, <2>1 DEF Continue, Stay, Move
    <3>2. Stages' = Stages /\ Now' = Now
      BY <1>8, <3>1 DEF Now, Stages, Repeats
    <3>3. conn'[0].op # "none" /\ waiter'[0].res \in {"NULL", "freed"}
      BY <1>2, <1>3, <1>4, <1>6, <1>9, <2>1 DEF Ran, WellFormed
    <3>4. /\ pc' \in {"poll", "done", "cont"} /\ (pc' = "poll" => program = "server-4")
      BY <1>7, <3>1
    <3>5. QED
      BY <1>3, <1>7, <1>8, <3>1, <3>2, <3>3, <3>4 DEF StageInv, SequentialLabels
  <2>2. CASE out.status = {} /\ ~out.ok /\ Now.checks
    <3>1. pc' = "done" /\ UNCHANGED <<stage, rounds>>
      BY <1>1, <2>2 DEF Continue, Stay, Move
    <3>2. Stages' = Stages
      BY <1>8, <3>1 DEF Stages, Repeats
    <3>3. program = "mysql2" \/ waiter'[0].res \in {"NULL", "freed"}
      BY <1>3, <1>4, <1>6, <1>7, <2>2
    <3>4. QED
      BY <1>3, <1>8, <3>1, <3>2, <3>3 DEF StageInv, SequentialLabels
  <2>3. CASE out.status = {} /\ ~(~out.ok /\ Now.checks)
    <3>1. Advance
      BY <1>1, <2>3 DEF Continue
    <3>2. conn'[0].op = "none"
      BY <1>2, <1>9, <2>3 DEF Ran, WellFormed
    <3>3. ~out.ok => conn'[0].failed
      BY <1>2, <1>9, <2>3 DEF Ran
    <3>4. waiter'[0].res = IF Now.op = "store" THEN (IF out.ok THEN "live" ELSE "NULL")
                           ELSE waiter[0].res
      BY <1>4, <1>6, <2>3
    <3>5. ResultFits(Now.op, waiter'[0].res, conn'[0].failed)
      BY <1>3, <1>7, <3>3, <3>4 DEF ResultFits
    <3>6. QED
      BY <1>3, <3>1, <3>2, <3>5, AdvanceInv DEF SequentialLabels
  <2>4. QED
    BY <2>1, <2>2, <2>3
<1>11. QED
  BY <1>6, <1>8, <1>9, <1>10, SequentialStep

LEMMA SequentialCallsInv ==
    ASSUME MysqlInv, program \in SequentialPrograms,
           CallStart \/ CallCont \/ WaitAndCont \/ WaitGivesUp, UNCHANGED crossed
    PROVE  MysqlInv'
PROOF
<1>1. /\ 0 \in Waiters /\ conn[0] \in Conns /\ WellFormed(conn[0]) /\ waiter[0] \in Records
      /\ waiter[0].status = conn[0].want /\ stage \in 1..Len(Stages)
  <2>1. 0 \in Waiters /\ ~crossed
    BY WaitersAre DEF MysqlInv, ControlInv, SequentialPrograms
  <2>2. QED
    BY <2>1, MysqlTypeIs DEF MysqlInv, ConnInv, StageInv
<1>2. UNCHANGED epoll
  BY DEF CallStart, CallCont, WaitAndCont, WaitGivesUp
<1>3. CASE CallStart
  <2>1. pc = "call" /\ Now.op \in Ops /\ conn[0].op = "none" /\ Makes(Start(conn[0], Now.op))
    BY <1>3 DEF CallStart, MysqlInv, StageInv
  <2>2. Now.op \in Ops \ {"none"}
    BY <1>1, <2>1, StagesAre DEF Now, Ordered, Operations
  <2>3. \A out \in Start(conn[0], Now.op) :
            /\ Ran(conn[0], out) /\ out.status = out.conn.want
            /\ out.conn.outOfSync = conn[0].outOfSync
    BY <1>1, <2>1, <2>2, StartIs DEF InStep
  <2>4. QED
    BY <1>2, <2>1, <2>3, MakesInv
<1>4. ASSUME NEW status \in Status, pc \in {"cont", "poll"}, Makes(Cont(conn[0], status))
      PROVE  MysqlInv'
  <2>1. Now.op \in Ops /\ conn[0].op # "none"
    BY <1>4 DEF MysqlInv, StageInv
  <2>2. \A out \in Cont(conn[0], status) :
            /\ Ran(conn[0], out) /\ out.status = out.conn.want
            /\ out.conn.outOfSync = conn[0].outOfSync
    BY <1>1, <1>4, <2>1, ContIs
  <2>3. QED
    BY <1>2, <1>4, <2>1, <2>2, MakesInv
<1>5. CASE CallCont
  <2>1. waiter[0].status \in Status
    BY <1>1 DEF Records
  <2>2. pc = "cont" /\ Makes(Cont(conn[0], waiter[0].status))
    BY <1>5 DEF CallCont
  <2>3. QED
    BY <1>4, <2>1, <2>2
<1>6. CASE WaitAndCont
  <2>1. conn[0].want \ {"TIMEOUT"} \in Status
    BY <1>1 DEF Conns, Status
  <2>2. pc \in {"cont", "poll"} /\ Makes(Cont(conn[0], conn[0].want \ {"TIMEOUT"}))
    BY <1>6 DEF WaitAndCont, Waiting
  <2>3. QED
    BY <1>4, <2>1, <2>2
<1>7. CASE WaitGivesUp
  <2>1. {"TIMEOUT"} \in Status
    BY DEF Status
  <2>2. pc \in {"cont", "poll"} /\ Makes(Cont(conn[0], {"TIMEOUT"}))
    BY <1>7 DEF WaitGivesUp, Waiting
  <2>3. QED
    BY <1>4, <2>1, <2>2
<1>8. QED
  BY <1>3, <1>5, <1>6, <1>7

(* The steps that do not wait.                                             *)
LEMMA SequentialResultInv ==
    ASSUME MysqlInv, program \in SequentialPrograms, UseResult \/ SequentialRows \/ Free,
           UNCHANGED crossed
    PROVE  MysqlInv'
PROOF
<1>1. /\ 0 \in Waiters /\ conn[0] \in Conns /\ waiter[0] \in Records
      /\ waiter \in [Waiters -> Records] /\ conn \in [Waiters -> Conns]
      /\ stage \in 1..Len(Stages) /\ rounds \in Nat /\ ~crossed
  <2>1. 0 \in Waiters /\ ~crossed
    BY WaitersAre DEF MysqlInv, ControlInv, SequentialPrograms
  <2>2. QED
    BY <2>1, MysqlTypeIs DEF MysqlInv, StageInv
<1>2. /\ pc = "call" /\ conn[0].op = "none" /\ UNCHANGED epoll
      /\ Now.op \in {"use", "rows", "free"} /\ Now.op \notin Ops
  BY DEF UseResult, SequentialRows, Free, At, MysqlInv, StageInv, Ops
<1>3. /\ Now.op = "use" => waiter[0].res \in {"NULL", "freed"}
      /\ Now.op = "rows" => \/ waiter[0].res = "live"
                            \/ waiter[0].res = "NULL" /\ conn[0].failed
      /\ Now.op = "free" => waiter[0].res = "live"
  BY <1>2 DEF MysqlInv, StageInv
<1>4. CASE UseResult
  <2>1. PICK res \in {"live", "NULL"} :
            /\ waiter' = [waiter EXCEPT ![0].res = res]
            /\ res = "live" => Advance
            /\ res = "NULL" => Stay("done")
    BY <1>4 DEF UseResult
  <2>2. /\ waiter' \in [Waiters -> Records] /\ waiter'[0].res = res
        /\ \A w \in Waiters : /\ waiter'[w].status = waiter[w].status
                              /\ waiter'[w].res = "freed twice" => waiter[w].res = "freed twice"
    BY <1>1, <2>1 DEF Records, Results
  <2>3. Now.op = "use" /\ conn' = conn
    BY <1>4 DEF UseResult, At
  <2>4. StageInv' /\ pc' \in {"call", "done"} /\ UNCHANGED <<program, cur, batch, slot>>
    <3>1. CASE res = "live"
      <4>1. Advance /\ conn'[0].op = "none"
            /\ ResultFits(Now.op, waiter'[0].res, conn'[0].failed)
        BY <1>2, <2>1, <2>2, <2>3, <3>1 DEF ResultFits
      <4>2. QED
        BY <1>1, <4>1, AdvanceInv
    <3>2. CASE res = "NULL"
      <4>1. pc' = "done" /\ UNCHANGED <<program, cur, batch, slot, stage, rounds>>
        BY <2>1, <3>2 DEF Stay, Move
      <4>2. Stages' = Stages
        BY <4>1 DEF Stages, Repeats
      <4>3. QED
        BY <1>1, <2>2, <3>2, <4>1, <4>2 DEF StageInv
    <3>3. QED
      BY <3>1, <3>2
  <2>5. ConnInv'
    BY ZenonT(60), <1>2, <2>2, <2>3, <2>4 DEF MysqlInv, ConnInv, WellFormed
  <2>6. QED
    BY <1>1, <1>2, <2>2, <2>3, <2>4, <2>5, SequentialStep DEF SequentialLabels
<1>5. CASE SequentialRows
  <2>1. Now.op = "rows" /\ conn' = conn
    BY <1>5 DEF SequentialRows, At
  <2>2. /\ waiter' \in [Waiters -> Records]
        /\ \A w \in Waiters :
              waiter'[w].status = waiter[w].status /\ waiter'[w].res = waiter[w].res
    <3>1. waiter' = waiter \/ (waiter[0].rows > 0 /\ waiter' = [waiter EXCEPT ![0].rows = @ - 1])
      BY <1>5 DEF SequentialRows
    <3>2. waiter[0].rows > 0 => waiter[0].rows - 1 \in 0..MaxRows
      BY <1>1, ClientAssumption DEF Records
    <3>3. QED
      BY SMTT(30), <1>1, <3>1, <3>2 DEF Records
  <2>3. /\ StageInv' /\ pc' \in {"call", "crash", "done"} /\ UNCHANGED <<program, cur, batch, slot>>
        /\ pc' = "crash" => conn[0].failed
    <3>1. CASE waiter[0].res = "NULL" /\ Stay("crash")
      <4>1. pc' = "crash" /\ UNCHANGED <<program, cur, batch, slot, stage, rounds>>
        BY <3>1 DEF Stay, Move
      <4>2. Stages' = Stages /\ Now' = Now
        BY <4>1 DEF Stages, Repeats, Now
      <4>3. QED
        BY <1>1, <1>2, <1>3, <2>1, <2>2, <3>1, <4>1, <4>2 DEF StageInv
    <3>2. CASE UNCHANGED <<main, stage, rounds>>
      <4>1. UNCHANGED <<program, pc, cur, batch, slot, stage, rounds>>
        BY <3>2 DEF main
      <4>2. Stages' = Stages /\ Now' = Now
        BY <4>1 DEF Stages, Repeats, Now
      <4>3. QED
        BY <1>1, <1>2, <1>3, <2>1, <2>2, <4>1, <4>2 DEF StageInv
    <3>3. CASE waiter[0].res # "NULL" /\ Advance
      <4>1. Advance /\ conn'[0].op = "none"
            /\ ResultFits(Now.op, waiter'[0].res, conn'[0].failed)
        BY <1>1, <1>2, <1>3, <2>1, <2>2, <3>3 DEF ResultFits
      <4>2. QED
        BY <1>1, <4>1, AdvanceInv
    <3>4. QED
      BY <1>5, <3>1, <3>2, <3>3 DEF SequentialRows
  <2>4. ConnInv'
    BY <1>2, <2>1, <2>2, <2>3 DEF MysqlInv, ConnInv, WellFormed
  <2>5. QED
    BY <1>1, <1>2, <2>1, <2>2, <2>3, <2>4, SequentialStep DEF SequentialLabels
<1>6. CASE Free
  <2>1. /\ Now.op = "free" /\ waiter[0].res = "live" /\ Advance
        /\ waiter' = [waiter EXCEPT ![0].res = FreeResult(waiter[0].res)]
        /\ conn' = [conn EXCEPT ![0].answered = FALSE]
    BY <1>3, <1>6 DEF Free, At
  <2>2. FreeResult(waiter[0].res) = "freed"
    BY <2>1, FreeIs DEF Results
  <2>3. waiter' = [waiter EXCEPT ![0].res = "freed"]
    BY <2>1, <2>2
  <2>4. /\ waiter' \in [Waiters -> Records] /\ waiter'[0].res = "freed"
        /\ \A w \in Waiters : /\ waiter'[w].status = waiter[w].status
                              /\ waiter'[w].res = "freed twice" => waiter[w].res = "freed twice"
    BY <1>1, <2>3 DEF Records, Results
  <2>5. /\ conn' \in [Waiters -> Conns]
        /\ \A w \in Waiters :
              /\ conn'[w].op = conn[w].op /\ conn'[w].want = conn[w].want
              /\ conn'[w].timed = conn[w].timed
              /\ conn'[w].outOfSync = conn[w].outOfSync
              /\ conn'[w].readFreed = conn[w].readFreed
    BY <1>1, <2>1 DEF Conns
  <2>6. StageInv' /\ pc' \in {"call", "done"} /\ UNCHANGED <<program, cur, batch, slot>>
    <3>1. conn'[0].op = "none" /\ ResultFits(Now.op, waiter'[0].res, conn'[0].failed)
      BY <1>1, <1>2, <2>1, <2>4, <2>5 DEF ResultFits
    <3>2. QED
      BY <1>1, <2>1, <3>1, AdvanceInv
  <2>7. ConnInv'
    <3>1. pc # "done" /\ program' = program /\ crossed' = crossed
      BY <1>2, <2>6
    <3>2. \A w \in Waiters : WellFormed(conn'[w])
      BY ZenonT(60), <2>5 DEF MysqlInv, ConnInv, WellFormed
    <3>3. ASSUME NEW w \in Waiters
          PROVE
              /\ ~crossed' => waiter'[w].status = conn'[w].want
              /\ conn'[w].outOfSync => program' = "mysql_if_asyn"
              /\ waiter'[w].res = "freed twice" =>
                    program' = "mysql_if_asyn" /\ (conn'[w].readFreed \/ pc' = "done")
      <4>1. /\ ~crossed => waiter[w].status = conn[w].want
            /\ conn[w].outOfSync => program = "mysql_if_asyn"
            /\ waiter[w].res # "freed twice"
        BY <3>1 DEF MysqlInv, ConnInv, SequentialPrograms
      <4>2. /\ waiter'[w].status = waiter[w].status /\ waiter'[w].res # "freed twice"
            /\ conn'[w].want = conn[w].want /\ conn'[w].outOfSync = conn[w].outOfSync
            /\ conn'[w].timed = conn[w].timed
        BY <2>4, <2>5, <4>1
      <4>3. program' = program /\ waiter[w].status = conn[w].want
        BY <1>1, <3>1, <4>1
      <4>4. QED
        BY <4>1, <4>2, <4>3
    <3>4. QED
      BY <3>2, <3>3 DEF ConnInv
  <2>8. QED
    BY <1>1, <1>2, <2>4, <2>5, <2>6, <2>7, SequentialStep DEF SequentialLabels
<1>7. QED
  BY <1>4, <1>5, <1>6

-----------------------------------------------------------------------------
(* The database server.                                                    *)

LEMMA DatabaseInv ==
    ASSUME MysqlInv, NEW v \in Waiters, Answer(v) \/ Drop(v), UNCHANGED <<crossed, stage, rounds>>
    PROVE  MysqlInv'
PROOF
<1>1. /\ UNCHANGED <<program, pc, cur, batch, slot, waiter, interest>>
      /\ ready \in SUBSET Waiters /\ conn \in [Waiters -> Conns]
  BY MysqlTypeIs DEF Answer, Drop, main, MysqlInv
<1>2. /\ conn' \in [Waiters -> Conns] /\ \A w \in Waiters \ {v} : conn'[w] = conn[w]
      /\ \A w \in Waiters :
            /\ conn'[w].op = conn[w].op /\ conn'[w].want = conn[w].want
            /\ conn'[w].timed = conn[w].timed
            /\ conn'[w].outOfSync = conn[w].outOfSync /\ conn'[w].failed = conn[w].failed
            /\ conn'[w].readFreed = conn[w].readFreed
  <2>1. CASE conn' = [conn EXCEPT ![v].can = TRUE]
    BY ZenonT(60), <1>1, <2>1 DEF Conns
  <2>2. CASE conn' = [conn EXCEPT ![v].gone = TRUE]
    BY ZenonT(60), <1>1, <2>2 DEF Conns
  <2>3. QED
    BY <2>1, <2>2 DEF Answer, Drop
<1>3. ready' \in SUBSET Waiters /\ ready \subseteq ready'
  BY <1>1 DEF Answer, Drop, Notify
<1>4. MysqlTypeOK'
  <2>1. /\ slot' \in Nat /\ cur' \in Waiters /\ batch' \in Seq(Events)
        /\ waiter' \in [Waiters -> Records] /\ interest' \in [Waiters -> SUBSET {"IN", "OUT"}]
    BY <1>1, MysqlTypeIs DEF MysqlInv
  <2>2. QED
    BY <1>2, <1>3, <2>1 DEF MysqlTypeOK, Records, Conns, Types, Results, Events
<1>5. ControlInv'
  BY <1>1 DEF MysqlInv, ControlInv
<1>6. ConnInv'
  <2>1. ASSUME NEW w \in Waiters PROVE WellFormed(conn'[w])
    <3>1. WellFormed(conn[w])
      BY DEF MysqlInv, ConnInv
    <3>2. QED
      BY <1>2, <3>1 DEF WellFormed
  <2>2. QED
    BY <1>1, <1>2, <2>1 DEF MysqlInv, ConnInv
<1>7. HandlerInv'
  <2>1. cur \in Waiters
    BY CurFacts
  <2>2. QED
    BY <1>1, <1>2, <2>1 DEF MysqlInv, HandlerInv, CrashOnlyAfterError
<1>8. TypesInv' /\ StartInv'
  BY <1>1, <1>2 DEF MysqlInv, TypesInv, StartInv
<1>9. WatchInv'
  <2>1. SUFFICES ASSUME ~crossed, program \notin SequentialPrograms,
                        NEW w \in Waiters, w # cur \/ pc \in Between
                 PROVE  Guarded(w)'
    BY <1>1 DEF WatchInv
  <2>2. Guarded(w) /\ WellFormed(conn[w])
    BY <2>1 DEF MysqlInv, WatchInv, ConnInv
  <2>3. SUFFICES ASSUME conn[w].op # "none", interest[w] # {}
                 PROVE  /\ Mask(conn[w].want) \subseteq interest[w]
                        /\ conn'[w].can \/ conn'[w].gone => w \in ready' \/ Reported(w)
    BY <1>1, <1>2 DEF Guarded, Pending, Reported
  <2>4. Mask(conn[w].want) \subseteq interest[w]
        /\ (conn[w].can \/ conn[w].gone => w \in ready \/ Reported(w))
    BY <2>2, <2>3 DEF Guarded, Pending
  <2>5. CASE w # v
    BY <1>2, <1>3, <2>4, <2>5
  <2>6. CASE w = v
    <3>1. Mask(conn[w].want) \subseteq {"IN", "OUT"} /\ Mask(conn[w].want) # {}
      <4>1. Mask(conn[w].want) \subseteq {"IN", "OUT"}
        BY DEF Mask
      <4>2. "IN" \in Mask(conn[w].want) \/ "OUT" \in Mask(conn[w].want)
        BY <2>2, <2>3 DEF WellFormed, Mask
      <4>3. QED
        BY <4>1, <4>2
    <3>2. /\ interest[w] \cap Mask(conn[w].want) # {}
          /\ interest[w] \cap {"IN", "OUT"} # {}
      BY <2>4, <3>1
    <3>3. w \in ready'
      BY <2>6, <3>2 DEF Answer, Drop, Notify
    <3>4. QED
      BY <2>4, <3>3
  <2>7. QED
    BY <2>5, <2>6
<1>10. StageInv'
  <2>1. SUFFICES ASSUME program \in SequentialPrograms PROVE StageInv'
    BY <1>1 DEF StageInv
  <2>2. Stages' = Stages /\ Now' = Now /\ 0 \in Waiters
    BY <1>1, WaitersAre DEF Stages, Repeats, Now
  <2>3. conn'[0].op = conn[0].op /\ conn'[0].failed = conn[0].failed
    BY <1>2, <2>2
  <2>4. QED
    BY <1>1, <2>1, <2>2, <2>3 DEF MysqlInv, StageInv
<1>11. QED
  BY <1>4, <1>5, <1>6, <1>7, <1>8, <1>9, <1>10 DEF MysqlInv

-----------------------------------------------------------------------------
(* mysql_if_asyn.c breaks the rule of the library in two places only.  As  *)
(* long as no query crosses, a waiter whose type says that an operation is *)
(* pending has one, and none of another type calls a continuation but that *)
(* of a fetch.                                                             *)
Ahead(w) ==
    batch = << >> /\ \/ pc = "open"
                     \/ pc \in {"add", "query_start"} /\ w >= cur
                     \/ pc \in Returned \cup {"mod"} /\ w > cur

Suspends(w) ==
    waiter[w].type \in PendingTypes =>
        waiter[w].status # {} \/ (w = cur /\ pc \in Returned \cup {"destroy", "done"})

SyncInv ==
    program = "mysql_if_asyn" /\ ~crossed =>
        /\ pc = "res_start" => waiter[cur].type \in {"CONN", "QUERY_CONT"}
        /\ pc = "skip" => waiter[cur].type = "ROW"
        /\ \A w \in Waiters : /\ conn[w].outOfSync => Fetched(w)
                              /\ Suspends(w)
                              /\ Ahead(w) => waiter[w].type = "CONN"

(* A step in the branch of waiter cur.                                     *)
LEMMA SyncBranch ==
    ASSUME MysqlInv, SyncInv, program = "mysql_if_asyn", ~crossed, UNCHANGED <<program, cur, batch>>,
           \A w \in Waiters \ {cur} : /\ waiter'[w].type = waiter[w].type
                                      /\ waiter'[w].status = waiter[w].status
                                      /\ conn'[w].outOfSync = conn[w].outOfSync,
           pc \notin Between \cup {"mod", "skip", "destroy", "done"},
           pc' \notin Between \cup {"query_start"},
           conn'[cur].outOfSync => waiter'[cur].type = "ROW" \/ pc' \in {"free", "destroy"},
           waiter'[cur].type \in PendingTypes =>
               waiter'[cur].status # {} \/ pc' \in Returned \cup {"destroy", "done"},
           pc' = "res_start" => waiter'[cur].type \in {"CONN", "QUERY_CONT"},
           pc' = "skip" => waiter'[cur].type = "ROW"
    PROVE  SyncInv'
PROOF
<1>1. cur \in Waiters /\ Waiters \subseteq Nat
  BY CurFacts, WaitersAre
<1>2. ASSUME NEW w \in Waiters, w # cur
      PROVE  /\ conn'[w].outOfSync => Fetched(w)'
             /\ Suspends(w)'
             /\ Ahead(w)' => waiter'[w].type = "CONN"
  <2>1. conn'[w].outOfSync => Fetched(w)'
    BY <1>2 DEF SyncInv, Fetched
  <2>2. Suspends(w)'
    BY <1>2 DEF SyncInv, Suspends
  <2>3. Ahead(w)' => Ahead(w)
    <3>1. batch = << >> => pc \in Returned \cup {"query_start"}
      BY DEF MysqlInv, ControlInv, AsynLabels, Between, Returned
    <3>2. pc' \notin {"open", "add", "query_start"}
      BY DEF Between
    <3>3. w > cur => w >= cur
      BY <1>1
    <3>4. QED
      BY <3>1, <3>2, <3>3 DEF Ahead
  <2>4. QED
    BY <1>2, <2>1, <2>2, <2>3 DEF SyncInv
<1>3. /\ conn'[cur].outOfSync => Fetched(cur)'
      /\ Suspends(cur)'
  BY DEF Fetched, Suspends
<1>4. ~Ahead(cur)'
  <2>1. ~(cur > cur)
    BY <1>1
  <2>2. QED
    BY <2>1 DEF Ahead, Between
<1>5. QED
  BY <1>2, <1>3, <1>4 DEF SyncInv

(* A step of main between the branches.                                    *)
LEMMA SyncMain ==
    ASSUME MysqlInv, SyncInv, program = "mysql_if_asyn", ~crossed, UNCHANGED <<program, waiter, conn>>,
           pc \in Between \cup {"mod", "skip"},
           pc' \notin {"res_start", "skip"},
           \A w \in Waiters : Ahead(w)' => Ahead(w)
    PROVE  SyncInv'
PROOF
<1>1. pc = "skip" => waiter[cur].type = "ROW"
  BY DEF SyncInv
<1>2. ASSUME NEW w \in Waiters
      PROVE  /\ conn'[w].outOfSync => Fetched(w)'
             /\ Suspends(w)'
             /\ Ahead(w)' => waiter'[w].type = "CONN"
  <2>1. conn'[w].outOfSync => Fetched(w)'
    BY DEF SyncInv, Fetched, Between
  <2>2. Suspends(w)'
    <3>1. waiter[w].type \in PendingTypes => waiter[w].status # {}
      BY <1>1 DEF SyncInv, Suspends, Between, Returned, PendingTypes
    <3>2. QED
      BY <3>1 DEF Suspends
  <2>3. QED
    BY <2>1, <2>2 DEF SyncInv
<1>3. QED
  BY <1>2 DEF SyncInv

LEMMA SyncMainSteps ==
    ASSUME MysqlInv, SyncInv, program = "mysql_if_asyn", ~crossed,
           AsynWaiterInit \/ AddWaiter \/ AsynEpollWait \/ FindWaiter \/ Modify
    PROVE  SyncInv'
PROOF
<1>1. cur \in Waiters /\ Waiters \subseteq Nat
      /\ (pc \in {"open", "add", "query_start", "wait"} => batch = << >>)
  BY CurFacts, WaitersAre DEF MysqlInv, ControlInv
<1>2. CASE AsynWaiterInit
  <2>1. pc = "open" /\ pc' \in {"open", "add", "done"} /\ UNCHANGED <<program, waiter, conn, crossed, batch>>
    BY <1>2 DEF AsynWaiterInit
  <2>2. \A w \in Waiters : Ahead(w)' => Ahead(w)
    BY <1>1, <2>1 DEF Ahead
  <2>3. QED
    BY <2>1, <2>2, SyncMain DEF Between
<1>3. CASE AddWaiter
  <2>1. pc = "add" /\ pc' = "query_start" /\ UNCHANGED <<program, waiter, conn, crossed, batch, cur>>
    BY <1>3 DEF AddWaiter, Step
  <2>2. \A w \in Waiters : Ahead(w)' => Ahead(w)
    BY <2>1 DEF Ahead, Returned
  <2>3. QED
    BY <2>1, <2>2, SyncMain DEF Between
<1>4. CASE AsynEpollWait
  <2>1. pc = "wait" /\ pc' = "event" /\ UNCHANGED <<program, waiter, conn, crossed>>
    BY <1>4 DEF AsynEpollWait
  <2>2. \A w \in Waiters : ~Ahead(w)'
    BY <2>1 DEF Ahead, Returned
  <2>3. QED
    BY <2>1, <2>2, SyncMain DEF Between
<1>5. CASE FindWaiter
  <2>1. pc = "event" /\ pc' \in {"query_cont", "res_cont", "row_cont"} /\ batch # << >>
        /\ UNCHANGED <<program, waiter, conn, crossed, batch>>
    BY <1>5 DEF FindWaiter, MysqlInv, ControlInv
  <2>2. \A w \in Waiters : ~Ahead(w)'
    BY <2>1 DEF Ahead
  <2>3. QED
    BY <2>1, <2>2, SyncMain DEF Between
<1>6. CASE Modify
  <2>1. pc \in {"mod", "skip"} /\ NextWaiterOrEvent /\ UNCHANGED <<waiter, conn, crossed>>
    BY <1>6 DEF Modify
  <2>2. program' = program /\ pc' \in {"add", "wait", "event"}
        /\ (pc' = "add" => batch = << >> /\ cur' = cur + 1 /\ cur' \in Waiters)
    BY <2>1, <1>1 DEF NextWaiterOrEvent, AtStart
  <2>3. ASSUME NEW w \in Waiters, Ahead(w)' PROVE Ahead(w)
    <3>1. pc' = "add" /\ w >= cur'
      BY <2>2, <2>3 DEF Ahead, Returned
    <3>2. w > cur
      BY <1>1, <2>2, <3>1
    <3>3. QED
      BY <2>1, <2>2, <3>1, <3>2 DEF Ahead, Returned
  <2>4. QED
    BY <2>1, <2>2, <2>3, SyncMain
<1>7. QED
  BY <1>2, <1>3, <1>4, <1>5, <1>6

(* The calls that fit: the waiter's status says whether one is pending.    *)
LEMMA SyncCalls ==
    ASSUME MysqlInv, SyncInv, program = "mysql_if_asyn", ~crossed, ~crossed',
           StartQuery \/ StoreResult \/ ContinueQuery \/ ContinueStore
    PROVE  SyncInv'
PROOF
<1>1. /\ cur \in Waiters /\ waiter \in [Waiters -> Records] /\ conn \in [Waiters -> Conns]
      /\ conn[cur] \in Conns /\ WellFormed(conn[cur]) /\ waiter[cur].status = conn[cur].want
      /\ (pc \in {"query_start"} => batch = << >>)
  BY CurFacts DEF MysqlInv, ControlInv, ConnInv
<1>2. pc \in {"query_start", "res_start", "query_cont", "res_cont"} =>
          /\ ~conn[cur].outOfSync
          /\ waiter[cur].type \in {"CONN", "QUERY_CONT", "RES_CONT"}
          /\ pc \in {"query_start", "res_start"} => conn[cur].op = "none" /\ waiter[cur].type # "RES_CONT"
          /\ pc = "query_start" => waiter[cur].type = "CONN"
          /\ pc = "query_cont" => conn[cur].op # "none" /\ waiter[cur].type = "QUERY_CONT"
          /\ pc = "res_cont" => conn[cur].op # "none" /\ waiter[cur].type = "RES_CONT"
  <2>1. pc = "query_start" => Ahead(cur) /\ conn[cur].op = "none"
    <3>1. cur >= cur
      BY <1>1, WaitersAre
    <3>2. QED
      BY <1>1, <3>1 DEF Ahead, MysqlInv, StartInv
  <2>2. pc = "query_start" => waiter[cur].type = "CONN"
    BY <1>1, <2>1 DEF SyncInv
  <2>3. pc = "res_start" => waiter[cur].type \in {"CONN", "QUERY_CONT"} /\ conn[cur].op = "none"
    BY <1>1 DEF SyncInv, MysqlInv, HandlerInv, Returned, WellFormed
  <2>4. pc = "query_cont" => waiter[cur].type = "QUERY_CONT"
    BY DEF MysqlInv, HandlerInv
  <2>5. pc = "res_cont" => waiter[cur].type = "RES_CONT"
    BY DEF MysqlInv, HandlerInv
  <2>6. pc \in {"query_cont", "res_cont"} => conn[cur].op # "none"
    BY <1>1, <2>4, <2>5 DEF SyncInv, Suspends, PendingTypes, Returned, WellFormed
  <2>7. pc \in {"query_start", "res_start", "query_cont", "res_cont"} => ~conn[cur].outOfSync
    BY <1>1, <2>2, <2>3, <2>4, <2>5 DEF SyncInv, Fetched
  <2>8. QED
    BY <2>1, <2>2, <2>3, <2>4, <2>5, <2>6, <2>7
<1>3. ASSUME NEW out, Ran(conn[cur], out), out.conn.outOfSync = conn[cur].outOfSync,
             pc \in {"query_start", "res_start", "query_cont", "res_cont"},
             UNCHANGED <<program, cur, batch>>,
             conn' = [conn EXCEPT ![cur] = out.conn],
             \A w \in Waiters \ {cur} : waiter'[w] = waiter[w],
             waiter'[cur].status = out.status,
             pc' \in {"mod", "res_start", "row", "destroy"},
             pc' = "mod" => out.status # {},
             pc' = "res_start" => waiter'[cur].type \in {"CONN", "QUERY_CONT"}
      PROVE  SyncInv'
  <2>1. /\ conn'[cur].outOfSync = conn[cur].outOfSync
        /\ \A w \in Waiters \ {cur} : /\ waiter'[w].type = waiter[w].type
                                      /\ waiter'[w].status = waiter[w].status
                                      /\ conn'[w].outOfSync = conn[w].outOfSync
    BY <1>1, <1>3
  <2>2. pc \notin Between \cup {"mod", "skip", "destroy", "done"} /\ pc' \notin Between \cup {"query_start"}
    BY <1>3 DEF Between
  <2>3. pc' # "mod" => pc' \in Returned \cup {"destroy", "done"}
    BY <1>3 DEF Returned
  <2>4. QED
    BY <1>2, <1>3, <2>1, <2>2, <2>3, SyncBranch
<1>4. CASE StartQuery
  <2>1. PICK out \in Start(conn[cur], "query") :
        /\ conn' = [conn EXCEPT ![cur] = out.conn]
        /\ waiter' = [waiter EXCEPT ![cur].status = out.status,
                                    ![cur].type = IF out.status = {} THEN @ ELSE "QUERY_CONT"]
        /\ pc' = (IF out.status # {} THEN "mod" ELSE IF out.ok THEN "res_start" ELSE "destroy")
    BY <1>4 DEF StartQuery, Step
  <2>2. pc = "query_start" /\ UNCHANGED <<program, cur, batch>>
    BY <1>4 DEF StartQuery, Step
  <2>3. Ran(conn[cur], out) /\ out.conn.outOfSync = conn[cur].outOfSync
    BY <1>1, <1>2, <2>1, <2>2, StartIs DEF Ops, InStep
  <2>4. /\ \A w \in Waiters \ {cur} : waiter'[w] = waiter[w]
        /\ waiter'[cur].status = out.status
        /\ waiter'[cur].type \in {"CONN", "QUERY_CONT"}
    BY <1>1, <1>2, <2>1, <2>2 DEF Records
  <2>5. pc' \in {"mod", "res_start", "row", "destroy"} /\ (pc' = "mod" => out.status # {})
    BY <2>1
  <2>6. QED
    BY <1>3, <2>1, <2>2, <2>3, <2>4, <2>5
<1>5. CASE StoreResult
  <2>1. PICK out \in Start(conn[cur], "store"), n \in 0..MaxRows :
        /\ conn' = [conn EXCEPT ![cur] = out.conn]
        /\ waiter' = [waiter EXCEPT ![cur] = [Stored(cur, out, n)
                         EXCEPT !.type = IF out.status = {} THEN @ ELSE "RES_CONT"]]
        /\ pc' = (IF out.status # {} THEN "mod"
                  ELSE IF AtStart /\ ~out.ok THEN "destroy" ELSE "row")
    BY <1>5 DEF StoreResult, Step
  <2>2. pc = "res_start" /\ UNCHANGED <<program, cur, batch>>
    BY <1>5 DEF StoreResult, Step
  <2>3. Ran(conn[cur], out) /\ out.conn.outOfSync = conn[cur].outOfSync
    BY <1>1, <1>2, <2>1, <2>2, StartIs DEF Ops, InStep
  <2>4. /\ \A w \in Waiters \ {cur} : waiter'[w] = waiter[w]
        /\ waiter'[cur].status = out.status
    BY <1>1, <2>1, <2>2 DEF Records, Stored
  <2>5. pc' \in {"mod", "row", "destroy"} /\ (pc' = "mod" => out.status # {})
    BY <2>1
  <2>6. QED
    BY <1>3, <2>1, <2>2, <2>3, <2>4, <2>5
<1>6. CASE ContinueQuery
  <2>1. slot = cur
    BY <1>6 DEF ContinueQuery
  <2>2. PICK out \in Cont(conn[cur], Happened(batch[1].ev)) :
        /\ conn' = [conn EXCEPT ![cur] = out.conn]
        /\ waiter' = [waiter EXCEPT ![cur].status = out.status]
        /\ pc' = (IF out.status = {} THEN "res_start" ELSE "mod")
    BY <1>6, <2>1 DEF ContinueQuery, Step
  <2>3. pc = "query_cont" /\ UNCHANGED <<program, cur, batch>>
    BY <1>6 DEF ContinueQuery, Step
  <2>4. Happened(batch[1].ev) \in Status
    BY DEF Happened, Status
  <2>5. Ran(conn[cur], out) /\ out.conn.outOfSync = conn[cur].outOfSync
    BY <1>1, <1>2, <2>2, <2>3, <2>4, ContIs
  <2>6. /\ \A w \in Waiters \ {cur} : waiter'[w] = waiter[w]
        /\ waiter'[cur].status = out.status
        /\ waiter'[cur].type = "QUERY_CONT"
    BY <1>1, <1>2, <2>2, <2>3 DEF Records
  <2>7. pc' \in {"mod", "res_start"} /\ (pc' = "mod" => out.status # {})
    BY <2>2
  <2>8. QED
    BY <1>3, <2>2, <2>3, <2>5, <2>6, <2>7
<1>7. CASE ContinueStore
  <2>1. PICK out \in Cont(conn[cur], Happened(batch[1].ev)), n \in 0..MaxRows :
        /\ conn' = [conn EXCEPT ![cur] = out.conn]
        /\ waiter' = [waiter EXCEPT ![cur] = Stored(cur, out, n)]
        /\ pc' = (IF out.status = {} THEN "row" ELSE "mod")
    BY <1>7 DEF ContinueStore, Step
  <2>2. pc = "res_cont" /\ UNCHANGED <<program, cur, batch>>
    BY <1>7 DEF ContinueStore, Step
  <2>3. Happened(batch[1].ev) \in Status
    BY DEF Happened, Status
  <2>4. Ran(conn[cur], out) /\ out.conn.outOfSync = conn[cur].outOfSync
    BY <1>1, <1>2, <2>1, <2>2, <2>3, ContIs
  <2>5. /\ \A w \in Waiters \ {cur} : waiter'[w] = waiter[w]
        /\ waiter'[cur].status = out.status
    BY <1>1, <2>1, <2>2 DEF Records, Stored
  <2>6. pc' \in {"mod", "row"} /\ (pc' = "mod" => out.status # {})
    BY <2>1
  <2>7. QED
    BY <1>3, <2>1, <2>2, <2>4, <2>5, <2>6
<1>8. QED
  BY <1>4, <1>5, <1>6, <1>7

LEMMA SyncRows ==
    ASSUME MysqlInv, SyncInv, program = "mysql_if_asyn", ~crossed,
           FetchRows \/ ContinueRows \/ FreeRows
    PROVE  SyncInv'
PROOF
<1>1. cur \in Waiters /\ waiter \in [Waiters -> Records] /\ conn \in [Waiters -> Conns]
  BY CurFacts
<1>2. CASE FetchRows
  <2>1. /\ pc = "row" /\ pc' \in {"destroy", "free", "row", "row_cont"}
        /\ UNCHANGED <<program, cur, batch, conn>>
        /\ waiter' = waiter \/ waiter' = [waiter EXCEPT ![cur].rows = waiter[cur].rows - 1]
    BY <1>2 DEF FetchRows, Step
  <2>2. \A w \in Waiters : /\ waiter'[w].type = waiter[w].type
                           /\ waiter'[w].status = waiter[w].status
    BY <1>1, <2>1 DEF Records
  <2>3. conn[cur].outOfSync => waiter[cur].type = "ROW"
    BY <1>1, <2>1 DEF SyncInv, Fetched
  <2>4. pc \notin Between \cup {"mod", "skip", "destroy", "done"}
        /\ pc' \notin Between \cup {"query_start"} /\ pc' \in Returned \cup {"destroy", "done"}
    BY <2>1 DEF Between, Returned
  <2>5. QED
    BY <1>1, <2>1, <2>2, <2>3, <2>4, SyncBranch
<1>3. CASE ContinueRows
  <2>1. /\ pc = "row_cont" /\ pc' \in {"free", "destroy"}
        /\ UNCHANGED <<program, cur, batch, waiter>>
        /\ \A w \in Waiters \ {cur} : conn'[w] = conn[w]
    BY <1>1, <1>3 DEF ContinueRows, Step
  <2>2. pc \notin Between \cup {"mod", "skip", "destroy", "done"}
        /\ pc' \notin Between \cup {"query_start"} /\ pc' \in Returned \cup {"destroy", "done"}
    BY <2>1 DEF Between, Returned
  <2>3. QED
    BY <2>1, <2>2, SyncBranch
<1>4. CASE FreeRows
  <2>1. /\ pc = "free" /\ pc' \in {"skip", "mod"}
        /\ UNCHANGED <<program, cur, batch, conn>>
        /\ waiter' = [waiter EXCEPT ![cur].res = FreeResult(waiter[cur].res), ![cur].type = "ROW"]
    BY <1>4 DEF FreeRows, Step
  <2>2. waiter'[cur].type = "ROW" /\ \A w \in Waiters \ {cur} : waiter'[w] = waiter[w]
    BY <1>1, <2>1 DEF Records
  <2>3. pc \notin Between \cup {"mod", "skip", "destroy", "done"}
        /\ pc' \notin Between \cup {"query_start"}
    BY <2>1 DEF Between
  <2>4. QED
    BY <2>1, <2>2, <2>3, SyncBranch DEF PendingTypes
<1>5. QED
  BY <1>2, <1>3, <1>4

LEMMA SyncDestroy ==
    ASSUME MysqlInv, SyncInv, program = "mysql_if_asyn", ~crossed, DestroyWaiters
    PROVE  SyncInv'
PROOF
<1>1. /\ pc = "destroy" /\ pc' = "done"
      /\ UNCHANGED <<program, cur, batch, conn>>
      /\ waiter' = [w \in Waiters |-> [waiter[w] EXCEPT !.res = FreeResult(@)]]
  BY DEF DestroyWaiters, Step
<1>2. waiter \in [Waiters -> Records]
  BY CurFacts
<1>3. ASSUME NEW w \in Waiters
      PROVE  waiter'[w].type = waiter[w].type /\ waiter'[w].status = waiter[w].status
  BY <1>1, <1>2 DEF Records
<1>4. ASSUME NEW w \in Waiters
      PROVE  /\ conn'[w].outOfSync => Fetched(w)'
             /\ Suspends(w)'
             /\ ~Ahead(w)'
  <2>1. conn'[w].outOfSync => Fetched(w)'
    BY <1>1, <1>3 DEF SyncInv, Fetched
  <2>2. Suspends(w)'
    BY <1>1, <1>3 DEF SyncInv, Suspends
  <2>3. ~Ahead(w)'
    BY <1>1 DEF Ahead, Returned
  <2>4. QED
    BY <2>1, <2>2, <2>3
<1>5. QED
  BY <1>1, <1>4 DEF SyncInv

-----------------------------------------------------------------------------
(* All of it.                                                              *)

LEMMA InitInv == Init => MysqlInv
PROOF
<1> SUFFICES ASSUME Init PROVE MysqlInv
  OBVIOUS
<1>1. PICK timed \in BOOLEAN : conn = [w \in Waiters |->
           [op |-> "none", want |-> {}, can |-> FALSE, gone |-> FALSE, answered |-> FALSE,
            timed |-> timed, failed |-> FALSE, outOfSync |-> FALSE,
            readFreed |-> FALSE]]
  BY DEF Init, ClientInit
<1>2. /\ cur = 0 /\ slot = 0 /\ batch = << >> /\ crossed = FALSE /\ stage = 1 /\ rounds = 0
      /\ waiter = [w \in Waiters |->
            [type |-> "CONN", status |-> {}, rows |-> 0, res |-> "NULL"]]
      /\ interest = [w \in Waiters |-> {}] /\ ready = {}
      /\ program \in {"mysql", "mysql_if_asyn"} \cup SequentialPrograms
      /\ pc = IF program \in SequentialPrograms THEN "call" ELSE "open"
  BY DEF Init, ClientInit
<1>3. conn \in [Waiters -> Conns]
  <2>1. [op |-> "none", want |-> {}, can |-> FALSE, gone |-> FALSE, answered |-> FALSE,
         timed |-> timed, failed |-> FALSE, outOfSync |-> FALSE,
         readFreed |-> FALSE] \in Conns
    BY DEF Conns, Ops, Status
  <2>2. QED
    BY <1>1, <2>1
<1>4. waiter \in [Waiters -> Records]
  <2>1. [type |-> "CONN", status |-> {}, rows |-> 0, res |-> "NULL"] \in Records
    BY ClientAssumption DEF Records, Types, Status, Results
  <2>2. QED
    BY <1>2, <2>1
<1>5. MysqlTypeOK
  <2>1. /\ cur \in Waiters /\ slot \in Nat /\ batch \in Seq(Events)
        /\ interest \in [Waiters -> SUBSET {"IN", "OUT"}] /\ ready \in SUBSET Waiters
    BY <1>2, WaitersAre
  <2>2. QED
    BY <1>3, <1>4, <2>1, MysqlTypeIs
<1>6. ControlInv
  <2>1. pc \in {"call", "open"} /\ program \in {"mysql", "mysql_if_asyn"} \cup SequentialPrograms
        /\ (program \in SequentialPrograms <=> pc = "call")
        /\ "mysql" \notin SequentialPrograms /\ "mysql_if_asyn" \notin SequentialPrograms
    BY <1>2 DEF SequentialPrograms
  <2>2. QED
    BY <1>2, <2>1 DEF ControlInv, LoopLabels, AsynLabels, SequentialLabels
<1>7. ASSUME NEW w \in Waiters
      PROVE  /\ conn[w].op = "none" /\ conn[w].want = {}
             /\ ~conn[w].outOfSync /\ waiter[w].status = {} /\ waiter[w].res = "NULL"
             /\ waiter[w].type = "CONN"
  BY <1>1, <1>2
<1>8. ConnInv
  BY <1>7 DEF ConnInv, WellFormed
<1>9. HandlerInv
  BY <1>2 DEF HandlerInv, CrashOnlyAfterError, Returned
<1>10. TypesInv
  BY <1>7 DEF TypesInv, PendingTypes
<1>11. StartInv /\ WatchInv
  BY <1>7 DEF StartInv, WatchInv, Guarded, Pending
<1>12. StageInv
  <2>1. SUFFICES ASSUME program \in SequentialPrograms PROVE StageInv
    BY DEF StageInv
  <2>2. Ordered(Stages) /\ Now = Stages[1] /\ 0 \in Waiters /\ pc = "call"
    BY <1>2, <2>1, StagesAre, WaitersAre DEF Now
  <2>3. stage \in 1..Len(Stages) /\ Now.op \in {"connect", "query"}
    BY <1>2, <2>2 DEF Ordered
  <2>4. QED
    BY <1>2, <1>7, <2>2, <2>3 DEF StageInv, Ops
<1>13. QED
  BY <1>5, <1>6, <1>8, <1>9, <1>10, <1>11, <1>12 DEF MysqlInv

LEMMA NextInv == MysqlInv /\ [Next]_allVars => MysqlInv'
PROOF
<1> SUFFICES ASSUME MysqlInv, [Next]_allVars PROVE MysqlInv'
  OBVIOUS
<1>1. CASE Working
  <2>1. CASE program = "mysql" /\ LoopProgram /\ UNCHANGED <<crossed, stage, rounds>>
    BY <2>1, LoopProgramInv
  <2>2. CASE program = "mysql_if_asyn" /\ AsynProgram /\ UNCHANGED <<stage, rounds>>
    BY <2>2, AsynProgramInv
  <2>3. CASE program \in SequentialPrograms /\ SequentialWorking /\ UNCHANGED crossed
    BY <2>3, SequentialCallsInv, SequentialResultInv DEF SequentialWorking
  <2>4. QED
    BY <1>1, <2>1, <2>2, <2>3 DEF Working
<1>2. CASE Interrupted
  BY <1>2, SequentialCallsInv DEF Interrupted
<1>3. CASE Server
  BY <1>3, DatabaseInv DEF Server, Database
<1>4. CASE UNCHANGED allVars
  <2>1. UNCHANGED <<program, pc, cur, batch, slot, waiter, conn, interest, ready, crossed, stage,
                    rounds>>
    BY <1>4 DEF allVars, vars, main, epoll
  <2>2. MysqlTypeOK' /\ ControlInv' /\ ConnInv'
    BY <2>1 DEF MysqlInv, MysqlTypeOK, ControlInv, ConnInv, WellFormed
  <2>3. HandlerInv' /\ TypesInv' /\ StartInv'
    BY <2>1 DEF MysqlInv, HandlerInv, TypesInv, StartInv, CrashOnlyAfterError
  <2>4. WatchInv'
    BY <2>1 DEF MysqlInv, WatchInv, Guarded, Pending, Reported
  <2>5. StageInv'
    BY <2>1 DEF MysqlInv, StageInv, Now, Stages, Repeats
  <2>6. QED
    BY <2>2, <2>3, <2>4, <2>5 DEF MysqlInv
<1>5. QED
  BY <1>1, <1>2, <1>3, <1>4 DEF Next, Client

LEMMA SyncNext == MysqlInv /\ SyncInv /\ [Next]_allVars => SyncInv'
PROOF
<1> SUFFICES ASSUME MysqlInv, SyncInv, [Next]_allVars PROVE SyncInv'
  OBVIOUS
<1>1. CASE program # "mysql_if_asyn" \/ crossed
  <2>1. program' = program
    <3>1. CASE Working \/ Interrupted
      <4>1. CASE program = "mysql_if_asyn" /\ AsynProgram
        BY <4>1 DEF AsynProgram, AsynStart, AsynChain, AsynEvent, AsynWaiterInit, AddWaiter, StartQuery,
                    StoreResult, FetchRows, ContinueRows, FreeRows, Modify, NextWaiterOrEvent,
                    AsynEpollWait, FindWaiter, ContinueQuery, ContinueStore, DestroyWaiters, Step
      <4>2. CASE program = "mysql" /\ LoopProgram
        BY <4>2 DEF LoopProgram, LoopMain, QueryLoop, WaiterInit, EnterFromMain, EpollWait,
                    EnterFromEvent, QueryStart, QueryCont, ResStart, ResCont, FetchRow, FreeStart, Fin,
                    UpdateEpoll, WaiterDestroy, Goto, Return, main
      <4>3. CASE program \in SequentialPrograms /\ (SequentialWorking \/ WaitGivesUp)
        BY <4>3 DEF SequentialWorking, WaitGivesUp, CallStart, CallCont, WaitAndCont, UseResult,
                    SequentialRows, Free, Makes, Continue, Advance, Stay, Move, main
      <4>4. QED
        BY <3>1, <4>1, <4>2, <4>3 DEF Working, Interrupted
    <3>2. CASE Server \/ UNCHANGED allVars
      BY <3>2 DEF Server, Database, Answer, Drop, allVars, vars, main
    <3>3. QED
      BY <3>1, <3>2 DEF Next, Client
  <2>2. crossed => crossed'
    BY DEF Next, Client, Working, Interrupted, Server, AsynProgram, AsynStart, AsynChain, AsynEvent,
           AsynWaiterInit, AddWaiter, StartQuery, StoreResult, FetchRows, ContinueRows, FreeRows,
           Modify, AsynEpollWait, FindWaiter, ContinueQuery, ContinueStore, DestroyWaiters, allVars
  <2>3. QED
    BY <1>1, <2>1, <2>2 DEF SyncInv
<1>2. CASE program = "mysql_if_asyn" /\ ~crossed
  <2>1. CASE AsynProgram
    <3>1. CASE crossed'
      BY <3>1 DEF SyncInv
    <3>2. CASE ~crossed'
      BY <1>2, <2>1, <3>2, SyncMainSteps, SyncCalls, SyncRows, SyncDestroy
         DEF AsynProgram, AsynStart, AsynChain, AsynEvent
    <3>3. QED
      BY <3>1, <3>2
  <2>2. CASE Server
    <3>1. PICK v \in Waiters : Answer(v) \/ Drop(v)
      BY <2>2 DEF Server, Database
    <3>2. UNCHANGED <<program, pc, cur, batch, waiter, crossed>>
      BY <2>2, <3>1 DEF Server, Answer, Drop, main
    <3>3. \A w \in Waiters : conn'[w].outOfSync = conn[w].outOfSync
      BY <3>1, CurFacts DEF Answer, Drop, Conns
    <3>4. \A w \in Waiters : Fetched(w)' = Fetched(w) /\ Suspends(w)' = Suspends(w) /\ Ahead(w)' = Ahead(w)
      BY <3>2 DEF Fetched, Suspends, Ahead
    <3>5. QED
      BY <3>2, <3>3, <3>4 DEF SyncInv
  <2>3. CASE UNCHANGED allVars
    BY <2>3 DEF allVars, vars, main, SyncInv, Fetched, Suspends, Ahead
  <2>4. QED
    BY <1>2, <2>1, <2>2, <2>3 DEF Next, Client, Working, Interrupted, SequentialPrograms
<1>3. QED
  BY <1>1, <1>2

LEMMA SyncInit == Init => SyncInv
PROOF
<1> SUFFICES ASSUME Init PROVE SyncInv
  OBVIOUS
<1>1. \A w \in Waiters : ~conn[w].outOfSync /\ waiter[w].type = "CONN"
  BY DEF Init, ClientInit
<1>2. pc \in {"call", "open"}
  BY DEF Init
<1>3. QED
  BY <1>1, <1>2 DEF SyncInv, Suspends, PendingTypes

(* The invariant the theorems below follow from, for every number of       *)
(* waiters, rows and rounds, and whichever of the six programs runs: the   *)
(* program and the library are in step (see the parts of MysqlInv).        *)
THEOREM MysqlInvariance == Spec => []MysqlInv
BY InitInv, NextInv, PTL DEF Spec

(* The array of waiters, the connections, the events in hand and the epoll *)
(* instance keep their types; the event that is handled is one of the      *)
(* array waiter_event.                                                     *)
THEOREM MysqlTypeCorrect == Spec => []MysqlTypeOK
PROOF
<1>1. MysqlInv => MysqlTypeOK
  BY DEF MysqlInv
<1>2. QED
  BY <1>1, MysqlInvariance, PTL

(* A continuation is called exactly when its operation is pending, however *)
(* the database server, time-outs and signals interleave: no program but   *)
(* mysql_if_asyn.c puts a connection out of sync, and that one only where a *)
(* query was continued on another's connection or rows are fetched.        *)
THEOREM ContinuationsFit == Spec => []ContinuesPending
PROOF
<1>1. MysqlInv /\ SyncInv => ContinuesPending
  BY DEF MysqlInv, ConnInv, SyncInv, ContinuesPending
<1>2. Spec => []SyncInv
  BY SyncInit, SyncNext, MysqlInvariance, PTL DEF Spec
<1>3. QED
  BY <1>1, <1>2, MysqlInvariance, PTL

(* No wake-up is lost: while main sleeps in epoll_wait, an operation that  *)
(* is pending on a registered descriptor is watched for what it waits for, *)
(* and if that has happened the descriptor is on the ready list.           *)
THEOREM PendingAreWatched == Spec => []PendingIsWatched
PROOF
<1>1. MysqlInv => PendingIsWatched
  <2>1. SUFFICES ASSUME MysqlInv, NEW w \in Waiters, pc = "wait", Pending(w), interest[w] # {},
                        ~crossed
                 PROVE  /\ Mask(conn[w].want) \subseteq interest[w]
                        /\ conn[w].can \/ conn[w].gone => w \in ready
    BY DEF PendingIsWatched
  <2>2. program \notin SequentialPrograms /\ batch = << >>
    BY <2>1 DEF MysqlInv, ControlInv, SequentialLabels
  <2>3. Guarded(w)
    BY <2>1, <2>2 DEF MysqlInv, WatchInv, Between
  <2>4. ~Reported(w)
    BY <2>2 DEF Reported
  <2>5. QED
    BY <2>1, <2>3, <2>4 DEF Guarded
<1>2. QED
  BY <1>1, MysqlInvariance, PTL

(* A program crashes on a NULL result, or ends itself, only after an       *)
(* operation has failed or a connection is out of sync.                    *)
THEOREM CrashesFollowErrors == Spec => []CrashOnlyAfterError
PROOF
<1>1. MysqlInv => CrashOnlyAfterError
  BY DEF MysqlInv, HandlerInv
<1>2. QED
  BY <1>1, MysqlInvariance, PTL

(* No program but mysql_if_asyn.c frees a result twice, that one only when *)
(* it has read a freed result or ends, and the programs that free their    *)
(* results have none left when they end.                                   *)
THEOREM ResultsAreFreedOnce == Spec => []ResultFreedOnce
PROOF
<1>1. MysqlInv => ResultFreedOnce
  BY DEF MysqlInv, ConnInv, StageInv, ResultFreedOnce
<1>2. QED
  BY <1>1, MysqlInvariance, PTL

=============================================================================
