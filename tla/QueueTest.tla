------------------------------- MODULE QueueTest -------------------------------
(***************************************************************************)
(* src/test/src/boost_queue_test.cpp: producer threads push a counter's    *)
(* values on a lock-free queue, consumer threads pop and count them; main  *)
(* joins the producers, sets done and joins the consumers.  The queue is   *)
(* linearizable (boost).  A push that fails, for want of memory, changes   *)
(* nothing and is repeated.                                                *)
(***************************************************************************)
EXTENDS Naturals, Sequences, FiniteSets

CONSTANTS
    Producers,
    Consumers,
    iterations

ASSUME QueueAssumption ==
    /\ IsFiniteSet(Producers)
    /\ IsFiniteSet(Consumers)
    /\ Consumers # {}
    /\ iterations \in Nat

VARIABLES
    producer_cnt,
    consumer_cnt,
    queue,
    done,
    made,       (* i of each producer                                       *)
    value,      (* value of each producer                                   *)
    at,         (* where each producer is                                   *)
    where,      (* where each consumer is                                   *)
    joined      (* which threads main has joined                            *)

queueVars == <<producer_cnt, consumer_cnt, queue, done, made, value, at, where, joined>>

QueueTypeOK ==
    /\ producer_cnt \in Nat
    /\ consumer_cnt \in Nat
    /\ queue \in Seq(Nat)
    /\ done \in BOOLEAN
    /\ made \in [Producers -> 0..iterations]
    /\ value \in [Producers -> Nat]
    /\ at \in [Producers -> {"for", "push", "end"}]
    /\ where \in [Consumers -> {"test", "pop", "count", "drain", "drained", "end"}]
    /\ joined \in {"none", "producers", "all"}

QueueInit ==
    /\ producer_cnt = 0
    /\ consumer_cnt = 0
    /\ queue = << >>
    /\ done = FALSE
    /\ made = [p \in Producers |-> 0]
    /\ value = [p \in Producers |-> 0]
    /\ at = [p \in Producers |-> "for"]
    /\ where = [c \in Consumers |-> "test"]
    /\ joined = "none"

-----------------------------------------------------------------------------
(* producer                                                                *)

Produce(p) ==
    /\ at[p] = "for"
    /\ made[p] < iterations
    /\ producer_cnt' = producer_cnt + 1
    /\ value' = [value EXCEPT ![p] = producer_cnt + 1]
    /\ at' = [at EXCEPT ![p] = "push"]
    /\ UNCHANGED <<consumer_cnt, queue, done, made, where, joined>>

Push(p) ==
    /\ at[p] = "push"
    /\ queue' = Append(queue, value[p])
    /\ made' = [made EXCEPT ![p] = @ + 1]
    /\ at' = [at EXCEPT ![p] = "for"]
    /\ UNCHANGED <<producer_cnt, consumer_cnt, done, value, where, joined>>

ProducerEnds(p) ==
    /\ at[p] = "for"
    /\ made[p] = iterations
    /\ at' = [at EXCEPT ![p] = "end"]
    /\ UNCHANGED <<producer_cnt, consumer_cnt, queue, done, made, value, where, joined>>

Producer(p) == Produce(p) \/ Push(p) \/ ProducerEnds(p)

-----------------------------------------------------------------------------
(* consumer: the loop on done, the inner loop, and the loop behind it.     *)

Moves(c, label) == where' = [where EXCEPT ![c] = label]

TestDoneEnds(c) ==      \* mutant: without the last loop
    /\ where[c] = "test"
    /\ Moves(c, IF done THEN "end" ELSE "pop")
    /\ UNCHANGED <<producer_cnt, consumer_cnt, queue, done, made, value, at, joined>>

TestDone(c) ==
    /\ where[c] = "test"
    /\ Moves(c, IF done THEN "drain" ELSE "pop")
    /\ UNCHANGED <<producer_cnt, consumer_cnt, queue, done, made, value, at, joined>>

Pop(c) ==
    /\ where[c] \in {"pop", "drain"}
    /\ queue # << >>
    /\ queue' = Tail(queue)
    /\ Moves(c, IF where[c] = "pop" THEN "count" ELSE "drained")
    /\ UNCHANGED <<producer_cnt, consumer_cnt, done, made, value, at, joined>>

PopFails(c) ==
    /\ where[c] \in {"pop", "drain"}
    /\ queue = << >>
    /\ Moves(c, IF where[c] = "pop" THEN "test" ELSE "end")
    /\ UNCHANGED <<producer_cnt, consumer_cnt, queue, done, made, value, at, joined>>

Count(c) ==
    /\ where[c] \in {"count", "drained"}
    /\ consumer_cnt' = consumer_cnt + 1
    /\ Moves(c, IF where[c] = "count" THEN "pop" ELSE "drain")
    /\ UNCHANGED <<producer_cnt, queue, done, made, value, at, joined>>

Consumer(c) == TestDone(c) \/ Pop(c) \/ PopFails(c) \/ Count(c)

-----------------------------------------------------------------------------
(* main                                                                    *)

JoinProducersNot ==     \* mutant: done is not set
    /\ joined = "none"
    /\ \A p \in Producers : at[p] = "end"
    /\ joined' = "producers"
    /\ UNCHANGED <<producer_cnt, consumer_cnt, queue, done, made, value, at, where>>

JoinProducers ==
    /\ joined = "none"
    /\ \A p \in Producers : at[p] = "end"
    /\ joined' = "producers"
    /\ done' = TRUE
    /\ UNCHANGED <<producer_cnt, consumer_cnt, queue, made, value, at, where>>

JoinConsumers ==
    /\ joined = "producers"
    /\ \A c \in Consumers : where[c] = "end"
    /\ joined' = "all"
    /\ UNCHANGED <<producer_cnt, consumer_cnt, queue, done, made, value, at, where>>

QueueMain == JoinProducers \/ JoinConsumers

QueueNext ==
    \/ \E p \in Producers : Producer(p)
    \/ \E c \in Consumers : Consumer(c)
    \/ QueueMain

QueueSpec == QueueInit /\ [][QueueNext]_queueVars

-----------------------------------------------------------------------------
(* Nothing is lost between the threads: when main prints its counters, as  *)
(* many items were consumed as were produced, and the queue is empty.  It  *)
(* takes the loop behind the loop on done: items may be pushed after a     *)
(* consumer found the queue empty and before done is set.                  *)
AllConsumed ==
    joined = "all" => consumer_cnt = producer_cnt /\ queue = << >>

-----------------------------------------------------------------------------
(* The inductive invariant.                                                *)

Pushing  == {p \in Producers : at[p] = "push"}
Counting == {c \in Consumers : where[c] \in {"count", "drained"}}

(* Every item is counted, in the queue, or in the hands of one thread.     *)
Conservation ==
    producer_cnt = consumer_cnt + Len(queue) + Cardinality(Pushing) + Cardinality(Counting)

(* done is set when nothing will be pushed any more; a consumer that ended *)
(* saw the queue empty after that; main waits for all of them.             *)
OrderInv ==
    /\ \A p \in Producers : at[p] = "push" => made[p] < iterations
    /\ done => \A p \in Producers : at[p] = "end"
    /\ \A c \in Consumers :
        /\ where[c] \in {"drain", "drained", "end"} => done
        /\ where[c] = "end" => queue = << >>
    /\ joined # "none" => done
    /\ joined = "all" => \A c \in Consumers : where[c] = "end"

QueueInv == QueueTypeOK /\ Conservation /\ OrderInv
=============================================================================
