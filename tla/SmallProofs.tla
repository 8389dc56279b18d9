----------------------------- MODULE SmallProofs -----------------------------
(***************************************************************************)
(* The small programs.  The test of the queue loses no item, for every     *)
(* number of threads and iterations and every interleaving: QueueInv is    *)
(* inductive, and implies AllConsumed.  The blocking server answers with   *)
(* what it read last up to its first NUL, for every number of clients,     *)
(* every size of the buffer, whatever it held before and however far       *)
(* strlen runs behind it.  Each program keeps its invariant in             *)
(* SmallPrograms, whichever of them runs.                                  *)
(***************************************************************************)
EXTENDS SmallPrograms, FiniteSetTheorems, SequenceTheorems, TLAPS

(* The threads with an item in hand are finitely many.                     *)
LEMMA HandsFinite ==
    /\ IsFiniteSet(Pushing) /\ Cardinality(Pushing) \in Nat
    /\ IsFiniteSet(Counting) /\ Cardinality(Counting) \in Nat
PROOF
<1>1. Pushing \in SUBSET Producers /\ Counting \in SUBSET Consumers
  BY DEF Pushing, Counting
<1>2. IsFiniteSet(Pushing) /\ IsFiniteSet(Counting)
  BY <1>1, FS_Subset, QueueAssumption
<1>3. QED
  BY <1>2, FS_CardinalityType

(* A thread that takes an item in hand, or gives it away, changes their    *)
(* number by one.                                                          *)
LEMMA OneMore ==
    ASSUME NEW S, NEW x, IsFiniteSet(S), x \notin S
    PROVE  Cardinality(S \cup {x}) = Cardinality(S) + 1
BY FS_AddElement

LEMMA OneLess ==
    ASSUME NEW S, NEW x, IsFiniteSet(S), x \in S
    PROVE  Cardinality(S \ {x}) = Cardinality(S) - 1
BY FS_RemoveElement

LEMMA QueueInitInv == QueueInit => QueueInv
PROOF
<1> SUFFICES ASSUME QueueInit  PROVE QueueInv
  OBVIOUS
<1>1. QueueTypeOK
  <2>1. made \in [Producers -> 0..iterations]
    BY QueueAssumption DEF QueueInit
  <2>2. queue \in Seq(Nat)
    BY DEF QueueInit
  <2>3. QED
    BY <2>1, <2>2 DEF QueueInit, QueueTypeOK
<1>2. Pushing = {} /\ Counting = {}
  BY DEF QueueInit, Pushing, Counting
<1>3. Conservation
  BY <1>2, FS_EmptySet DEF QueueInit, Conservation
<1>4. OrderInv
  BY QueueAssumption DEF QueueInit, OrderInv
<1>5. QED
  BY <1>1, <1>3, <1>4 DEF QueueInv

-----------------------------------------------------------------------------
(* Every step of a producer keeps the invariant.                           *)
LEMMA ProducerInv ==
    ASSUME QueueInv, NEW p \in Producers, Producer(p)
    PROVE  QueueInv'
PROOF
<1> USE DEF QueueInv
<1>1. at[p] # "end" /\ ~done
  BY DEF Producer, Produce, Push, ProducerEnds, OrderInv
<1>2. Counting' = Counting
  BY DEF Producer, Produce, Push, ProducerEnds, Counting
<1>3. OrderInv'
  <2>1. \A q \in Producers : at'[q] = "push" => made'[q] < iterations
    <3>1. CASE Produce(p)
      BY <3>1 DEF Produce, OrderInv, QueueTypeOK
    <3>2. CASE Push(p)
      BY <3>2 DEF Push, OrderInv, QueueTypeOK
    <3>3. CASE ProducerEnds(p)
      BY <3>3 DEF ProducerEnds, OrderInv, QueueTypeOK
    <3>4. QED
      BY <3>1, <3>2, <3>3 DEF Producer
  <2>2. done' = done /\ where' = where /\ joined' = joined
    BY DEF Producer, Produce, Push, ProducerEnds
  <2>3. \A c \in Consumers : where[c] \notin {"drain", "drained", "end"}
    BY <1>1 DEF OrderInv
  <2>4. QED
    BY <1>1, <2>1, <2>2, <2>3 DEF OrderInv
<1>4. CASE Produce(p)
  <2>1. QueueTypeOK'
    BY <1>4 DEF Produce, QueueTypeOK
  <2>2. Pushing' = Pushing \cup {p} /\ p \notin Pushing
    BY <1>4 DEF Produce, Pushing, QueueTypeOK
  <2>3. Cardinality(Pushing') = Cardinality(Pushing) + 1
    BY <2>2, HandsFinite, OneMore
  <2>4. Conservation'
    BY <1>2, <1>4, <2>3, HandsFinite DEF Produce, Conservation, QueueTypeOK
  <2>5. QED
    BY <1>3, <2>1, <2>4
<1>5. CASE Push(p)
  <2>1. QueueTypeOK'
    <3>1. made[p] + 1 \in 0..iterations
      BY <1>5, QueueAssumption DEF Push, QueueTypeOK, OrderInv
    <3>2. QED
      BY <1>5, <3>1, QueueAssumption DEF Push, QueueTypeOK
  <2>2. Pushing' = Pushing \ {p} /\ p \in Pushing
    BY <1>5 DEF Push, Pushing, QueueTypeOK
  <2>3. Cardinality(Pushing') = Cardinality(Pushing) - 1
    BY <2>2, HandsFinite, OneLess
  <2>4. Len(queue') = Len(queue) + 1
    BY <1>5 DEF Push, QueueTypeOK
  <2>5. Conservation'
    BY <1>2, <1>5, <2>3, <2>4, HandsFinite DEF Push, Conservation, QueueTypeOK
  <2>6. QED
    BY <1>3, <2>1, <2>5
<1>6. CASE ProducerEnds(p)
  <2>1. QueueTypeOK'
    BY <1>6 DEF ProducerEnds, QueueTypeOK
  <2>2. Pushing' = Pushing
    BY <1>6 DEF ProducerEnds, Pushing, QueueTypeOK
  <2>3. Conservation'
    BY <1>2, <1>6, <2>2 DEF ProducerEnds, Conservation
  <2>4. QED
    BY <1>3, <2>1, <2>3
<1>7. QED
  BY <1>4, <1>5, <1>6 DEF Producer

-----------------------------------------------------------------------------
(* Every step of a consumer keeps the invariant.                           *)
LEMMA ConsumerInv ==
    ASSUME QueueInv, NEW c \in Consumers, Consumer(c)
    PROVE  QueueInv'
PROOF
<1> USE DEF QueueInv
<1>1. Pushing' = Pushing
  BY DEF Consumer, TestDone, Pop, PopFails, Count, Pushing
<1>2. QueueTypeOK'
  <2>1. CASE TestDone(c)
    BY <2>1 DEF TestDone, Moves, QueueTypeOK
  <2>2. CASE Pop(c)
    BY <2>2 DEF Pop, Moves, QueueTypeOK
  <2>3. CASE PopFails(c)
    BY <2>3 DEF PopFails, Moves, QueueTypeOK
  <2>4. CASE Count(c)
    BY <2>4 DEF Count, Moves, QueueTypeOK
  <2>5. QED
    BY <2>1, <2>2, <2>3, <2>4 DEF Consumer
<1>3. OrderInv'
  BY DEF Consumer, TestDone, Pop, PopFails, Count, Moves, OrderInv, QueueTypeOK
<1>4. CASE TestDone(c) \/ PopFails(c)
  <2>1. Counting' = Counting
    BY <1>4 DEF TestDone, PopFails, Moves, Counting, QueueTypeOK
  <2>2. Conservation'
    BY <1>1, <1>4, <2>1 DEF TestDone, PopFails, Conservation
  <2>3. QED
    BY <1>2, <1>3, <2>2
<1>5. CASE Pop(c)
  <2>1. Counting' = Counting \cup {c} /\ c \notin Counting
    BY <1>5 DEF Pop, Moves, Counting, QueueTypeOK
  <2>2. Cardinality(Counting') = Cardinality(Counting) + 1
    BY <2>1, HandsFinite, OneMore
  <2>3. Len(queue') = Len(queue) - 1
    BY <1>5 DEF Pop, QueueTypeOK
  <2>4. Conservation'
    BY <1>1, <1>5, <2>2, <2>3, HandsFinite DEF Pop, Conservation, QueueTypeOK
  <2>5. QED
    BY <1>2, <1>3, <2>4
<1>6. CASE Count(c)
  <2>1. Counting' = Counting \ {c} /\ c \in Counting
    BY <1>6 DEF Count, Moves, Counting, QueueTypeOK
  <2>2. Cardinality(Counting') = Cardinality(Counting) - 1
    BY <2>1, HandsFinite, OneLess
  <2>3. Conservation'
    BY <1>1, <1>6, <2>2, HandsFinite DEF Count, Conservation, QueueTypeOK
  <2>4. QED
    BY <1>2, <1>3, <2>3
<1>7. QED
  BY <1>4, <1>5, <1>6 DEF Consumer

(* So does every step of main.                                             *)
LEMMA QueueMainInv ==
    ASSUME QueueInv, QueueMain
    PROVE  QueueInv'
PROOF
<1> USE DEF QueueInv, QueueMain, JoinProducers, JoinConsumers
<1>1. QueueTypeOK'
  BY DEF QueueTypeOK
<1>2. Pushing' = Pushing /\ Counting' = Counting
  BY DEF Pushing, Counting
<1>3. Conservation'
  BY <1>2 DEF Conservation
<1>4. OrderInv'
  BY DEF OrderInv
<1>5. QED
  BY <1>1, <1>3, <1>4

LEMMA QueueStepInv == QueueInv /\ [QueueNext]_queueVars => QueueInv'
PROOF
<1> SUFFICES ASSUME QueueInv, [QueueNext]_queueVars  PROVE QueueInv'
  OBVIOUS
<1>1. CASE QueueNext
  BY <1>1, ProducerInv, ConsumerInv, QueueMainInv DEF QueueNext
<1>2. CASE UNCHANGED queueVars
  BY <1>2 DEF queueVars, QueueInv, QueueTypeOK, Conservation, OrderInv, Pushing, Counting
<1>3. QED
  BY <1>1, <1>2

-----------------------------------------------------------------------------
(* Every item is at every moment counted as consumed, in the queue, or in  *)
(* the hands of exactly one thread, and done is seen in the right order.   *)
THEOREM QueueInvariant == QueueSpec => []QueueInv
BY QueueInitInv, QueueStepInv, PTL DEF QueueSpec

(* When main prints the counters they are equal and the queue is empty,    *)
(* for every number of threads and iterations (boost_queue_test.cpp:60).   *)
THEOREM NothingIsLost == QueueSpec => []AllConsumed
PROOF
<1>1. QueueInv => AllConsumed
  <2> SUFFICES ASSUME QueueInv, joined = "all"
               PROVE  consumer_cnt = producer_cnt /\ queue = << >>
    BY DEF AllConsumed
  <2>1. \A p \in Producers : at[p] = "end"
    BY DEF QueueInv, OrderInv
  <2>2. \A c \in Consumers : where[c] = "end"
    BY DEF QueueInv, OrderInv
  <2>3. queue = << >>
    BY <2>2, QueueAssumption DEF QueueInv, OrderInv
  <2>4. Pushing = {} /\ Counting = {}
    BY <2>1, <2>2 DEF Pushing, Counting
  <2>5. QED
    BY <2>3, <2>4, FS_EmptySet DEF QueueInv, QueueTypeOK, Conservation
<1>2. QED
  BY <1>1, QueueInvariant, PTL

-----------------------------------------------------------------------------
(* src/src/server-1.c and src/src/client.c.                                *)

Byte == (Guests \cup {Nobody}) \X Nat

BytesInv ==
    /\ server \in {"start", "accept", "read", "send", "close", "exit", "killed"}
    /\ cfd \in Guests \cup {Nobody}
    /\ buff \in [1..BuffLen -> Byte]
    /\ chunk \in Seq(Byte) /\ Len(chunk) <= BuffLen
    /\ answer \in [Guests -> Seq(Byte)]
    /\ served \in SUBSET Guests

GuestsInv ==
    /\ queued \in Seq(Guests)
    /\ side \in [Guests -> {"new", "open", "shut", "reset"}]
    /\ sent \in [Guests -> Nat]
    /\ unread \in [Guests -> Seq(Byte)]

(* A connection waits for accept, is served, or has been, each once.       *)
TurnInv ==
    /\ server \in {"start", "accept"} => cfd = Nobody
    /\ cfd # Nobody => side[cfd] # "new" /\ cfd \notin served
    /\ \A c \in served : side[c] # "new"
    /\ \A i \in 1..Len(queued) :
          side[queued[i]] # "new" /\ queued[i] \notin served /\ queued[i] # cfd
    /\ \A i, j \in 1..Len(queued) : i # j => queued[i] # queued[j]

(* buff begins with what was read last, and so does the answer.            *)
ChunkInv ==
    /\ server \in {"read", "send"} /\ cfd # Nobody =>
          \A i \in 1..Len(chunk) : buff[i] = chunk[i]
    /\ AnswerHoldsLastRead

BlockingInv == BytesInv /\ GuestsInv /\ TurnInv /\ ChunkInv

LEMMA BytesAre ==
    /\ NUL \in Byte /\ Dirt \in Byte
    /\ \A c \in Guests, n \in Nat : <<c, n>> \in Byte
BY DEF Byte, NUL, Dirt

LEMMA BlockingInitInv == BlockingInit => BlockingInv
PROOF
<1> SUFFICES ASSUME BlockingInit PROVE BlockingInv
  OBVIOUS
<1>1. buff \in [1..BuffLen -> Byte]
  BY BytesAre DEF BlockingInit
<1>2. /\ server = "start" /\ cfd = Nobody /\ chunk = << >> /\ queued = << >> /\ served = {}
      /\ side = [c \in Guests |-> "new"] /\ sent = [c \in Guests |-> 0]
      /\ unread = [c \in Guests |-> << >>] /\ answer = [c \in Guests |-> << >>]
  BY DEF BlockingInit
<1>3. Len(chunk) = 0 /\ Len(queued) = 0 /\ 0 <= BuffLen
  BY <1>2, BlockingAssumption
<1>4. BytesInv /\ GuestsInv
  BY <1>1, <1>2, <1>3 DEF BytesInv, GuestsInv
<1>5. TurnInv /\ ChunkInv
  BY <1>2, <1>3 DEF TurnInv, ChunkInv, AnswerHoldsLastRead
<1>6. QED
  BY <1>4, <1>5 DEF BlockingInv

(* read: what it returns is at the start of the buffer.                    *)
LEMMA ReadInv ==
    ASSUME BlockingInv, Read
    PROVE  BlockingInv'
PROOF
<1>1. PICK n \in 1..Len(unread[cfd]) :
        /\ n <= BuffLen
        /\ chunk' = SubSeq(unread[cfd], 1, n)
        /\ buff' = [i \in DOMAIN buff |->
                        IF i \in (0 + 1)..(0 + n) THEN chunk'[i - 0] ELSE buff[i]]
        /\ unread' = [unread EXCEPT ![cfd] = SubSeq(@, n + 1, Len(@))]
  BY DEF Read, ReadInto
<1>2. /\ server = "read" /\ cfd \in Guests /\ cfd # Nobody
      /\ UNCHANGED <<server, cfd, queued, side, sent, answer, served>>
      /\ unread \in [Guests -> Seq(Byte)] /\ BuffLen \in Nat
      /\ buff \in [1..BuffLen -> Byte]
  BY BlockingAssumption DEF Read, ReadInto, BlockingInv, BytesInv, GuestsInv
<1> DEFINE u == unread[cfd]
<1>3. u \in Seq(Byte) /\ Len(u) \in Nat /\ \A i \in 1..Len(u) : u[i] \in Byte
  BY <1>2, LenProperties, ElementOfSeq
<1>4. n \in Nat /\ n >= 1 /\ n <= Len(u)
  BY <1>1, <1>3
<1>5. /\ chunk' \in Seq(Byte) /\ Len(chunk') = n
      /\ \A i \in 1..n : chunk'[i] \in Byte
  <2>1. \A i \in 1..n : u[i] \in Byte
    BY <1>3, <1>4
  <2>2. 1 \in Int /\ n \in Int /\ 1 <= n /\ n - 1 + 1 = n
    BY <1>4
  <2>3. chunk' = SubSeq(u, 1, n)
    BY <1>1
  <2> HIDE DEF u
  <2>4. chunk' \in Seq(Byte) /\ Len(chunk') = n
    BY <2>1, <2>2, <2>3, SubSeqProperties
  <2>5. QED
    BY <2>4, ElementOfSeq
<1>6. SubSeq(u, n + 1, Len(u)) \in Seq(Byte)
  <2>1. \A i \in (n + 1)..Len(u) : u[i] \in Byte
    BY <1>3, <1>4
  <2>2. n + 1 \in Int /\ Len(u) \in Int
    BY <1>3, <1>4
  <2> HIDE DEF u
  <2>3. QED
    BY <2>1, <2>2, SubSeqProperties
<1>7. unread' \in [Guests -> Seq(Byte)]
  BY <1>1, <1>2, <1>6
<1> HIDE DEF u
<1>8. buff' = [i \in 1..BuffLen |-> IF i \in 1..n THEN chunk'[i] ELSE buff[i]]
  <2>1. DOMAIN buff = 1..BuffLen /\ 0 + 1 = 1 /\ 0 + n = n
    BY <1>2, <1>4
  <2>2. \A i \in 1..BuffLen : i - 0 = i
    OBVIOUS
  <2>3. buff' = [i \in 1..BuffLen |-> IF i \in 1..n THEN chunk'[i - 0] ELSE buff[i]]
    BY <1>1, <2>1
  <2>4. QED
    BY <2>2, <2>3
<1>9. /\ buff' \in [1..BuffLen -> Byte]
      /\ \A i \in 1..n : buff'[i] = chunk'[i]
  BY <1>1, <1>2, <1>4, <1>5, <1>8, BytesAre
<1>10. BytesInv' /\ GuestsInv'
  BY <1>1, <1>2, <1>5, <1>7, <1>9 DEF BlockingInv, BytesInv, GuestsInv
<1>11. TurnInv'
  BY <1>2 DEF BlockingInv, TurnInv
<1>12. ChunkInv'
  BY <1>2, <1>5, <1>9 DEF ChunkInv, AnswerHoldsLastRead
<1>13. QED
  BY <1>10, <1>11, <1>12 DEF BlockingInv

(* strlen ends at the first NUL of what was read last, and not before.     *)
EndsAtNul(n) ==
    \A k \in 1..Len(chunk) :
        IF \A i \in 1..k : chunk[i] # NUL THEN k <= n ELSE n < k

LEMMA LengthsAre ==
    ASSUME BlockingInv, server = "send", cfd # Nobody, NEW n \in Lengths
    PROVE  n \in Nat /\ EndsAtNul(n)
PROOF
<1>1. /\ Len(chunk) \in Nat /\ Len(chunk) <= BuffLen /\ BuffLen \in Nat
      /\ DOMAIN buff = 1..BuffLen
  BY LenProperties, BlockingAssumption DEF BlockingInv, BytesInv
<1>2. \A i \in 1..Len(chunk) : buff[i] = chunk[i]
  BY DEF BlockingInv, ChunkInv
<1> DEFINE ends == {i \in DOMAIN buff : buff[i] = NUL}
<1>3. CASE ends = {}
  <2>1. n \in BuffLen..(BuffLen + Reach) /\ Reach \in Nat
    BY <1>3, BlockingAssumption DEF Lengths
  <2>2. \A i \in 1..Len(chunk) : chunk[i] # NUL
    BY <1>1, <1>2, <1>3
  <2>3. \A k \in 1..Len(chunk) : k <= n
    BY <1>1, <2>1
  <2>4. \A k \in 1..Len(chunk) : \A i \in 1..k : chunk[i] # NUL
    BY <1>1, <2>2
  <2>5. QED
    BY <1>1, <2>1, <2>3, <2>4 DEF EndsAtNul
<1>4. CASE ends # {}
  <2>1. PICK e \in ends : n = e - 1 /\ \A k \in ends : e <= k
    BY <1>4 DEF Lengths
  <2>2. e \in 1..BuffLen /\ buff[e] = NUL
    BY <1>1
  <2>3. ASSUME NEW k \in 1..Len(chunk), \A i \in 1..k : chunk[i] # NUL
        PROVE  k <= n
    <3>1. e \notin 1..k
      BY <1>1, <1>2, <2>2, <2>3
    <3>2. QED
      BY <1>1, <2>1, <2>2, <3>1
  <2>4. ASSUME NEW k \in 1..Len(chunk), NEW i \in 1..k, chunk[i] = NUL
        PROVE  n < k
    <3>1. i \in 1..Len(chunk) /\ i \in 1..BuffLen
      BY <1>1
    <3>2. i \in ends
      BY <1>1, <1>2, <2>4, <3>1
    <3>3. QED
      BY <1>1, <2>1, <2>2, <3>1, <3>2
  <2>5. QED
    BY <2>1, <2>2, <2>3, <2>4 DEF EndsAtNul
<1>5. QED
  BY <1>3, <1>4

LEMMA SendAnswerInv ==
    ASSUME BlockingInv, SendAnswer
    PROVE  BlockingInv'
PROOF
<1>1. /\ server = "send" /\ server' \in {"close", "killed"}
      /\ UNCHANGED <<cfd, buff, chunk, queued, side, sent, unread, served>>
  BY DEF SendAnswer
<1>2. GuestsInv' /\ TurnInv'
  BY <1>1 DEF BlockingInv, GuestsInv, TurnInv
<1>3. /\ Len(chunk) \in Nat /\ chunk \in Seq(Byte) /\ buff \in [1..BuffLen -> Byte]
      /\ BuffLen \in Nat /\ Len(chunk) <= BuffLen
  BY LenProperties, BlockingAssumption DEF BlockingInv, BytesInv
<1>4. CASE UNCHANGED answer /\ (server' = "close" => cfd = Nobody)
  BY <1>1, <1>2, <1>4 DEF BlockingInv, BytesInv, ChunkInv, AnswerHoldsLastRead
<1>5. CASE /\ cfd # Nobody
           /\ \E n \in Lengths :
                answer' = [answer EXCEPT ![cfd] =
                              [i \in 1..n |-> IF i \in DOMAIN buff THEN buff[i] ELSE Dirt]]
  <2>1. PICK n \in Lengths :
            answer' = [answer EXCEPT ![cfd] =
                          [i \in 1..n |-> IF i \in DOMAIN buff THEN buff[i] ELSE Dirt]]
    BY <1>5
  <2>2. n \in Nat /\ EndsAtNul(n)
    BY <1>1, <1>5, LengthsAre
  <2>3. cfd \in Guests /\ answer \in [Guests -> Seq(Byte)]
    BY <1>5 DEF BlockingInv, BytesInv
  <2> DEFINE a == [i \in 1..n |-> IF i \in DOMAIN buff THEN buff[i] ELSE Dirt]
  <2>4. \A i \in 1..n : a[i] \in Byte
    BY <1>3, BytesAre
  <2>5. DOMAIN a = 1..n
    OBVIOUS
  <2>6. \A i \in 1..Len(chunk) : i <= n => a[i] = chunk[i]
    <3>1. SUFFICES ASSUME NEW i \in 1..Len(chunk), i <= n PROVE a[i] = chunk[i]
      OBVIOUS
    <3>2. i \in 1..n /\ i \in 1..BuffLen
      BY <1>3, <2>2, <3>1
    <3>3. buff[i] = chunk[i]
      BY <1>1, <1>5 DEF BlockingInv, ChunkInv
    <3>4. QED
      BY <1>3, <3>2, <3>3
  <2>7. a \in [1..n -> Byte]
    BY <2>4
  <2>8. answer' = [answer EXCEPT ![cfd] = a]
    BY <2>1
  <2> HIDE DEF a
  <2>9. a \in Seq(Byte) /\ Len(a) = n
    <3>1. a \in Seq(Byte)
      BY <2>2, <2>7
    <3>2. Len(a) \in Nat /\ DOMAIN a = 1..Len(a)
      BY <3>1, LenProperties
    <3>3. QED
      BY <2>2, <2>5, <3>1, <3>2
  <2>10. answer' \in [Guests -> Seq(Byte)] /\ answer'[cfd] = a
    BY <2>3, <2>8, <2>9
  <2>11. BytesInv'
    BY <1>1, <2>10 DEF BlockingInv, BytesInv
  <2>12. \A k \in 1..Len(chunk) :
             IF \A i \in 1..k : chunk[i] # NUL THEN k <= Len(a) /\ a[k] = chunk[k]
                                               ELSE Len(a) < k
    BY <2>2, <2>6, <2>9 DEF EndsAtNul
  <2>13. AnswerHoldsLastRead'
    BY <1>1, <2>10, <2>12 DEF AnswerHoldsLastRead
  <2>14. ChunkInv'
    BY <1>1, <1>5, <2>13 DEF ChunkInv
  <2>15. QED
    BY <1>2, <2>11, <2>14 DEF BlockingInv
<1>6. QED
  BY <1>4, <1>5 DEF SendAnswer

(* accept takes the first of the queue, or finds it gone.                  *)
LEMMA AcceptInv ==
    ASSUME BlockingInv, AcceptGuest \/ AcceptAborted
    PROVE  BlockingInv'
PROOF
<1>1. /\ server = "accept" /\ server' = "read" /\ queued # << >> /\ queued' = Tail(queued)
      /\ chunk' = << >> /\ UNCHANGED <<buff, side, sent, unread, answer>>
      /\ cfd = Nobody
      /\ \/ cfd' = Head(queued) /\ served' = served
         \/ cfd' = cfd /\ served' = served \cup {Head(queued)}
  BY DEF AcceptGuest, AcceptAborted, BlockingInv, TurnInv
<1>2. queued \in Seq(Guests) /\ served \in SUBSET Guests
  BY DEF BlockingInv, GuestsInv, BytesInv
<1>3. /\ Head(queued) \in Guests /\ Tail(queued) \in Seq(Guests) /\ Head(queued) = queued[1]
      /\ Len(queued) \in Nat /\ Len(queued) >= 1 /\ Len(Tail(queued)) = Len(queued) - 1
      /\ \A i \in 1..Len(Tail(queued)) : Tail(queued)[i] = queued[i + 1]
  <2>1. /\ Head(queued) \in Guests /\ Tail(queued) \in Seq(Guests)
        /\ Len(Tail(queued)) = Len(queued) - 1
        /\ \A i \in 1..Len(Tail(queued)) : Tail(queued)[i] = queued[i + 1]
    BY <1>1, <1>2, HeadTailProperties
  <2>2. Len(queued) \in Nat /\ Len(queued) >= 1
    BY <1>1, <1>2, EmptySeq
  <2>3. Head(queued) = queued[1]
    BY <1>1, <1>2
  <2>4. QED
    BY <2>1, <2>2, <2>3
<1>4. Len(chunk') = 0 /\ chunk' \in Seq(Byte) /\ 0 <= BuffLen
  BY <1>1, EmptySeq, BlockingAssumption
<1>5. BytesInv' /\ GuestsInv'
  BY <1>1, <1>2, <1>3, <1>4 DEF BlockingInv, BytesInv, GuestsInv
<1>6. TurnInv'
  <2>1. /\ Head(queued) # Nobody /\ side[Head(queued)] # "new" /\ Head(queued) \notin served
    BY <1>3, BlockingAssumption DEF BlockingInv, TurnInv
  <2>2. \A i \in 1..Len(queued') : /\ i + 1 \in 1..Len(queued) /\ i + 1 # 1
                                   /\ queued'[i] = queued[i + 1]
    BY <1>1, <1>3
  <2>3. \A i \in 1..Len(queued') :
            /\ side[queued'[i]] # "new" /\ queued'[i] \notin served
            /\ queued'[i] # Head(queued) /\ queued'[i] # cfd
    <3>1. 1 \in 1..Len(queued)
      BY <1>3
    <3>2. QED
      BY <1>3, <2>2, <3>1 DEF BlockingInv, TurnInv
  <2>4. \A i, j \in 1..Len(queued') : i # j => queued'[i] # queued'[j]
    <3>1. SUFFICES ASSUME NEW i \in 1..Len(queued'), NEW j \in 1..Len(queued'), i # j
                   PROVE  queued'[i] # queued'[j]
      OBVIOUS
    <3>2. i + 1 # j + 1
      BY <3>1
    <3>3. QED
      BY <2>2, <3>2 DEF BlockingInv, TurnInv
  <2>5. \A c \in served' : side[c] # "new"
    BY <1>1, <2>1 DEF BlockingInv, TurnInv
  <2>6. QED
    BY <1>1, <2>1, <2>3, <2>4, <2>5 DEF TurnInv
<1>7. ChunkInv'
  BY <1>1, <1>4 DEF ChunkInv, AnswerHoldsLastRead
<1>8. QED
  BY <1>5, <1>6, <1>7 DEF BlockingInv

LEMMA ServerStepInv ==
    ASSUME BlockingInv, Server1
    PROVE  BlockingInv'
PROOF
<1>1. CASE StartServer \/ ReadEnd
  <2>1. /\ UNCHANGED <<cfd, buff, chunk, queued, side, sent, unread, answer, served>>
        /\ \/ server = "start" /\ server' \in {"accept", "exit"}
           \/ server = "read" /\ server' = "send"
    BY <1>1 DEF StartServer, ReadEnd, guestVars
  <2>2. BytesInv' /\ GuestsInv' /\ TurnInv' /\ ChunkInv'
    BY <2>1 DEF BlockingInv, BytesInv, GuestsInv, TurnInv, ChunkInv, AnswerHoldsLastRead
  <2>3. QED
    BY <2>2 DEF BlockingInv
<1>2. CASE CloseGuest
  <2>1. /\ server = "close" /\ server' = "accept" /\ cfd' = Nobody
        /\ UNCHANGED <<buff, chunk, queued, side, sent, unread, answer>>
        /\ served' = (IF cfd = Nobody THEN served ELSE served \cup {cfd})
    BY <1>2 DEF CloseGuest
  <2>2. BytesInv' /\ GuestsInv'
    BY <2>1 DEF BlockingInv, BytesInv, GuestsInv
  <2>3. TurnInv'
    <3>1. \A i \in 1..Len(queued) : queued[i] # Nobody
      BY ElementOfSeq, BlockingAssumption DEF BlockingInv, GuestsInv
    <3>2. QED
      BY <2>1, <3>1 DEF BlockingInv, TurnInv
  <2>4. ChunkInv'
    BY <2>1 DEF ChunkInv, AnswerHoldsLastRead
  <2>5. QED
    BY <2>2, <2>3, <2>4 DEF BlockingInv
<1>3. QED
  BY <1>1, <1>2, ReadInv, SendAnswerInv, AcceptInv DEF Server1

(* What clients do leaves the server alone.                                *)
LEMMA GuestStep ==
    ASSUME BlockingInv, UNCHANGED <<serverVars, answer, served>>,
           side' \in [Guests -> {"new", "open", "shut", "reset"}],
           sent' \in [Guests -> Nat], unread' \in [Guests -> Seq(Byte)],
           \A c \in Guests : side[c] # "new" => side'[c] # "new",
           \/ queued' = queued
           \/ \E c \in Guests :
                 side[c] = "new" /\ side'[c] = "open" /\ queued' = Append(queued, c)
    PROVE  BlockingInv'
PROOF
<1>1. UNCHANGED <<server, cfd, buff, chunk, answer, served>>
  BY DEF serverVars
<1>2. BytesInv' /\ ChunkInv'
  BY <1>1 DEF BlockingInv, BytesInv, ChunkInv, AnswerHoldsLastRead
<1>3. /\ queued \in Seq(Guests) /\ Len(queued) \in Nat
      /\ \A i \in 1..Len(queued) : queued[i] \in Guests
      /\ cfd \in Guests \cup {Nobody} /\ served \in SUBSET Guests
  BY LenProperties, ElementOfSeq DEF BlockingInv, GuestsInv, BytesInv
<1>4. CASE queued' = queued
  <2>1. GuestsInv'
    BY <1>4 DEF BlockingInv, GuestsInv
  <2>2. TurnInv'
    BY <1>1, <1>3, <1>4 DEF BlockingInv, TurnInv
  <2>3. QED
    BY <1>2, <2>1, <2>2 DEF BlockingInv
<1>5. CASE \E c \in Guests :
               side[c] = "new" /\ side'[c] = "open" /\ queued' = Append(queued, c)
  <2>1. PICK c \in Guests :
               side[c] = "new" /\ side'[c] = "open" /\ queued' = Append(queued, c)
    BY <1>5
  <2>2. /\ queued' \in Seq(Guests) /\ Len(queued') = Len(queued) + 1
        /\ queued'[Len(queued) + 1] = c
        /\ \A i \in 1..Len(queued) : queued'[i] = queued[i]
    BY <1>3, <2>1, AppendProperties
  <2>3. c \notin served /\ c # cfd /\ \A i \in 1..Len(queued) : queued[i] # c
    <3>1. c # Nobody
      BY BlockingAssumption
    <3>2. QED
      BY <2>1, <3>1 DEF BlockingInv, TurnInv
  <2>4. \A i \in 1..Len(queued') : i \in 1..Len(queued) \/ i = Len(queued) + 1
    BY <1>3, <2>2
  <2>5. \A i \in 1..Len(queued') :
            side'[queued'[i]] # "new" /\ queued'[i] \notin served /\ queued'[i] # cfd
    <3>1. SUFFICES ASSUME NEW i \in 1..Len(queued')
                   PROVE  side'[queued'[i]] # "new" /\ queued'[i] \notin served /\ queued'[i] # cfd
      OBVIOUS
    <3>2. CASE i \in 1..Len(queued)
      <4>1. queued[i] \in Guests /\ side[queued[i]] # "new" /\ queued[i] \notin served
            /\ queued[i] # cfd
        BY <1>3, <3>2 DEF BlockingInv, TurnInv
      <4>2. QED
        BY <2>2, <3>2, <4>1
    <3>3. CASE i = Len(queued) + 1
      BY <2>1, <2>2, <2>3, <3>3
    <3>4. QED
      BY <2>4, <3>2, <3>3
  <2>6. \A i, j \in 1..Len(queued') : i # j => queued'[i] # queued'[j]
    <3>1. SUFFICES ASSUME NEW i \in 1..Len(queued'), NEW j \in 1..Len(queued'), i # j
                   PROVE  queued'[i] # queued'[j]
      OBVIOUS
    <3>2. CASE i \in 1..Len(queued) /\ j \in 1..Len(queued)
      <4>1. queued[i] # queued[j]
        BY <3>1, <3>2 DEF BlockingInv, TurnInv
      <4>2. QED
        BY <2>2, <3>2, <4>1
    <3>3. CASE i = Len(queued) + 1 /\ j \in 1..Len(queued)
      BY <2>2, <2>3, <3>3
    <3>4. CASE i \in 1..Len(queued) /\ j = Len(queued) + 1
      BY <2>2, <2>3, <3>4
    <3>5. QED
      BY <2>4, <3>1, <3>2, <3>3, <3>4
  <2>7. TurnInv'
    BY <1>1, <1>3, <2>5, <2>6 DEF BlockingInv, TurnInv
  <2>8. GuestsInv'
    BY <2>2 DEF GuestsInv
  <2>9. QED
    BY <1>2, <2>7, <2>8 DEF BlockingInv
<1>6. QED
  BY <1>4, <1>5

LEMMA SendsAre ==
    ASSUME GuestsInv, NEW c \in Guests, NEW bytes \in Seq(Byte), Sends(c, bytes)
    PROVE  sent' \in [Guests -> Nat] /\ unread' \in [Guests -> Seq(Byte)]
PROOF
<1>1. Len(bytes) \in Nat /\ unread[c] \o bytes \in Seq(Byte)
  BY ConcatProperties, LenProperties DEF GuestsInv
<1>2. QED
  BY <1>1 DEF Sends, GuestsInv

LEMMA LinesAre ==
    ASSUME GuestsInv, NEW c \in Guests, NEW n \in Nat
    PROVE  Line(c, n) \in Seq(Byte)
PROOF
<1>1. \A i \in 1..n : <<c, sent[c] + i>> \in Byte
  BY BytesAre DEF GuestsInv
<1>2. Line(c, n) \in [1..n -> Byte]
  BY <1>1 DEF Line
<1>3. QED
  BY <1>2

LEMMA GuestStepInv ==
    ASSUME BlockingInv, NEW c \in Guests, OtherGuest(c) \/ ClientProgram(c) \/ client_close(c)
    PROVE  BlockingInv'
PROOF
<1>1. /\ UNCHANGED <<serverVars, answer, served>> /\ GuestsInv /\ MaxSent \in Nat
      /\ side \in [Guests -> {"new", "open", "shut", "reset"}]
      /\ sent \in [Guests -> Nat] /\ unread \in [Guests -> Seq(Byte)]
  BY BlockingAssumption
     DEF OtherGuest, ClientProgram, client_connect, client_send, client_recv, client_close,
         BlockingInv, GuestsInv
<1>2. \/ ConnectGuest(c) /\ UNCHANGED <<sent, unread>>
      \/ (\E bytes \in Seq(Byte) : Sends(c, bytes)) /\ UNCHANGED <<queued, side>>
      \/ side[c] # "new" /\ (\E how \in {"shut", "reset"} : side' = [side EXCEPT ![c] = how])
            /\ UNCHANGED <<queued, sent, unread>>
      \/ UNCHANGED <<side, queued, sent, unread>>
  <2>1. CASE OtherGuest(c)
    <3>1. Line(c, 1) \in Seq(Byte) /\ <<NUL>> \in Seq(Byte)
      BY <1>1, LinesAre, BytesAre
    <3>2. QED
      BY <2>1, <3>1 DEF OtherGuest, Ends
  <2>2. CASE client_connect(c) \/ client_recv(c)
    BY <2>2 DEF client_connect, client_recv
  <2>3. CASE client_send(c)
    <3>1. \A n \in 0..(MaxSent - sent[c]) : Line(c, n) \in Seq(Byte)
      BY <1>1, LinesAre
    <3>2. QED
      BY <2>3, <3>1 DEF client_send
  <2>4. CASE client_close(c)
    <3>1. side' = [side EXCEPT ![c] = IF side[c] = "open" THEN "shut" ELSE side[c]]
          /\ UNCHANGED <<queued, sent, unread>>
      BY <2>4 DEF client_close
    <3>2. CASE side[c] = "open"
      BY <3>1, <3>2
    <3>3. CASE side[c] # "open"
      BY <1>1, <3>1, <3>3
    <3>4. QED
      BY <3>2, <3>3
  <2>5. QED
    BY <2>1, <2>2, <2>3, <2>4 DEF ClientProgram
<1>3. CASE ConnectGuest(c) /\ UNCHANGED <<sent, unread>>
  <2>1. /\ side[c] = "new" /\ side' = [side EXCEPT ![c] = "open"] /\ queued' = Append(queued, c)
        /\ sent' = sent /\ unread' = unread
    BY <1>3 DEF ConnectGuest
  <2>2. /\ side' \in [Guests -> {"new", "open", "shut", "reset"}] /\ side'[c] = "open"
        /\ \A d \in Guests : side[d] # "new" => side'[d] # "new"
    BY <1>1, <2>1
  <2>3. QED
    BY <1>1, <2>1, <2>2, GuestStep
<1>4. CASE (\E bytes \in Seq(Byte) : Sends(c, bytes)) /\ UNCHANGED <<queued, side>>
  BY <1>1, <1>4, SendsAre, GuestStep
<1>5. CASE /\ side[c] # "new" /\ (\E how \in {"shut", "reset"} : side' = [side EXCEPT ![c] = how])
           /\ UNCHANGED <<queued, sent, unread>>
  <2>1. /\ side' \in [Guests -> {"new", "open", "shut", "reset"}]
        /\ \A d \in Guests : side[d] # "new" => side'[d] # "new"
    BY <1>1, <1>5
  <2>2. QED
    BY <1>1, <1>5, <2>1, GuestStep
<1>6. CASE UNCHANGED <<side, queued, sent, unread>>
  BY <1>1, <1>6, GuestStep
<1>7. QED
  BY <1>2, <1>3, <1>4, <1>5, <1>6

LEMMA BlockingStepInv == BlockingInv /\ BlockingNext => BlockingInv'
BY ServerStepInv, GuestStepInv DEF BlockingNext

-----------------------------------------------------------------------------
(* Side by side.                                                           *)

SmallInv == BlockingInv /\ QueueInv /\ AioTypeOK

LEMMA AioStepInv == AioTypeOK /\ [AioNext]_aioVars => AioTypeOK'
BY DEF AioTypeOK, AioNext, AioMain, IoSetup, Open, IoSubmit, IoGetEvents, Complete, Destroyed,
       aioVars

LEMMA BlockingStutter == BlockingInv /\ UNCHANGED blockingVars => BlockingInv'
PROOF
<1> SUFFICES ASSUME BlockingInv, UNCHANGED blockingVars PROVE BlockingInv'
  OBVIOUS
<1>1. UNCHANGED <<server, cfd, buff, chunk, queued, side, sent, unread, answer, served>>
  BY DEF blockingVars, serverVars, guestVars
<1>2. BytesInv' /\ GuestsInv' /\ TurnInv' /\ ChunkInv'
  BY <1>1 DEF BlockingInv, BytesInv, GuestsInv, TurnInv, ChunkInv, AnswerHoldsLastRead
<1>3. QED
  BY <1>2 DEF BlockingInv

(* Whichever of the programs runs, each keeps the invariant it is proved   *)
(* with: the server's buffer and turns, the items of the queue.            *)
THEOREM SmallInvariance == Spec => []SmallInv
PROOF
<1>1. Init => SmallInv
  BY BlockingInitInv, QueueInitInv DEF Init, SmallInv, AioInit, AioTypeOK
<1>2. SmallInv /\ [Next]_smallVars => SmallInv'
  <2> SUFFICES ASSUME SmallInv, [Next]_smallVars PROVE SmallInv'
    OBVIOUS
  <2>1. CASE RunServer1
    <3>1. BlockingNext /\ UNCHANGED queueVars /\ UNCHANGED aioVars
      BY <2>1 DEF RunServer1
    <3>2. QED
      BY <3>1, BlockingStepInv, QueueStepInv, AioStepInv DEF SmallInv
  <2>2. CASE RunQueue
    <3>1. QueueNext /\ UNCHANGED blockingVars /\ UNCHANGED aioVars
      BY <2>2 DEF RunQueue
    <3>2. QED
      BY <3>1, BlockingStutter, QueueStepInv, AioStepInv DEF SmallInv
  <2>3. CASE RunAio
    <3>1. AioNext /\ UNCHANGED blockingVars /\ UNCHANGED queueVars
      BY <2>3 DEF RunAio
    <3>2. QED
      BY <3>1, BlockingStutter, QueueStepInv, AioStepInv DEF SmallInv
  <2>4. CASE RunBuffer \/ UNCHANGED smallVars
    <3>1. UNCHANGED blockingVars /\ UNCHANGED queueVars /\ UNCHANGED aioVars
      BY <2>4 DEF RunBuffer, smallVars
    <3>2. QED
      BY <3>1, BlockingStutter, QueueStepInv, AioStepInv DEF SmallInv
  <2>5. QED
    BY <2>1, <2>2, <2>3, <2>4 DEF Next
<1>3. QED
  BY <1>1, <1>2, PTL DEF Spec

(* The variables keep their types; no connection that has been closed is   *)
(* served, and none was served that did not connect.                       *)
THEOREM SmallTypeCorrect == Spec => []SmallTypeOK
PROOF
<1>1. SmallInv => SmallTypeOK
  <2>1. SUFFICES ASSUME SmallInv PROVE BlockingTypeOK /\ QueueTypeOK /\ AioTypeOK
    BY DEF SmallTypeOK
  <2>2. DOMAIN buff = 1..BuffLen
    BY <2>1 DEF SmallInv, BlockingInv, BytesInv
  <2>3. QED
    BY <2>1, <2>2, BlockingAssumption
       DEF SmallInv, BlockingInv, BytesInv, TurnInv, BlockingTypeOK, QueueInv
<1>2. QED
  BY <1>1, SmallInvariance, PTL

(* The answer server-1.c sends holds what the last read on the connection  *)
(* returned, up to the first NUL the client sent and no further, for every *)
(* number of clients, every size of the buffer and whatever it held before.*)
THEOREM AnswerIsLastReadToNul == Spec => []AnswerHoldsLastRead
PROOF
<1>1. SmallInv => AnswerHoldsLastRead
  BY DEF SmallInv, BlockingInv, ChunkInv
<1>2. QED
  BY <1>1, SmallInvariance, PTL
=============================================================================
