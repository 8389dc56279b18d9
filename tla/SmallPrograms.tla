---------------------------- MODULE SmallPrograms ----------------------------
(***************************************************************************)
(* The programs that stand for themselves, side by side: the blocking      *)
(* server with its client, the buffers, the test of the queue and the test *)
(* of asynchronous file I/O.  Which one runs is chosen at the start; the   *)
(* variables of the others keep their initial values.                      *)
(***************************************************************************)
EXTENDS BlockingServer, CharBuffer, QueueTest, AioTest

CONSTANT Programs

ASSUME ProgramsAssumption == Programs \subseteq {"server-1", "buffer", "queue", "aio"}

VARIABLE program

smallVars == <<program, blockingVars, bufferVars, queueVars, aioVars>>

Init ==
    /\ program \in Programs
    /\ BlockingInit
    /\ program # "server-1" => buff = [i \in 1..BuffLen |-> NUL]
    /\ BufferInit
    /\ QueueInit
    /\ AioInit

RunServer1 ==
    /\ program = "server-1"
    /\ BlockingNext
    /\ UNCHANGED <<program, bufferVars, queueVars, aioVars>>

RunBuffer ==
    /\ program = "buffer"
    /\ BufferNext
    /\ UNCHANGED <<program, blockingVars, queueVars, aioVars>>

RunQueue ==
    /\ program = "queue"
    /\ QueueNext
    /\ UNCHANGED <<program, blockingVars, bufferVars, aioVars>>

RunAio ==
    /\ program = "aio"
    /\ AioNext
    /\ UNCHANGED <<program, blockingVars, bufferVars, queueVars>>

Next == RunServer1 \/ RunBuffer \/ RunQueue \/ RunAio

Spec == Init /\ [][Next]_smallVars

(* Every thread and process of the program that runs goes on; a write that *)
(* was submitted completes.                                                *)
FairSpec ==
    /\ Spec
    /\ WF_blockingVars(program = "server-1" /\ Server1)
    /\ \A c \in Interactive : WF_blockingVars(program = "server-1" /\ client_recv(c))
    /\ \A p \in Producers : WF_queueVars(program = "queue" /\ Producer(p))
    /\ \A c \in Consumers : WF_queueVars(program = "queue" /\ Consumer(c))
    /\ WF_queueVars(program = "queue" /\ QueueMain)
    /\ WF_aioVars(program = "aio" /\ AioMain)
    /\ WF_aioVars(program = "aio" /\ Complete)

-----------------------------------------------------------------------------
SmallTypeOK ==
    /\ BlockingTypeOK
    /\ QueueTypeOK
    /\ AioTypeOK

(* The test of the queue ends: no consumer misses done, and main joins all *)
(* threads.                                                                *)
QueueTestEnds == program = "queue" ~> (program = "queue" /\ joined = "all")
=============================================================================
