-------------------------- MODULE CharBufferProofs --------------------------
(***************************************************************************)
(* The growing buffers, for every initial size and any number of appends:  *)
(* BufferInv is inductive.                                                 *)
(***************************************************************************)
EXTENDS CharBuffer, TLAPS

(* A growth leaves an array of the new size, with the old slots in place   *)
(* and NULL in all new ones.                                               *)
LEMMA GrownIs ==
    ASSUME ArenaInv, arena_cur = arena_cnt
    PROVE  /\ DOMAIN Grown = 0..(2 * (arena_cnt + 1) - 1)
           /\ \A i \in 0..(2 * (arena_cnt + 1) - 1) :
                  Grown[i] = IF i < arena_cnt THEN arena[i] ELSE Null
PROOF
<1> DEFINE new == Realloc(arena, 2 * (arena_cnt + 1))
<1>1. arena_cnt \in Nat /\ DOMAIN arena = 0..(arena_cnt - 1)
  BY DEF ArenaInv
<1>2. /\ DOMAIN new = 0..(2 * (arena_cnt + 1) - 1)
      /\ \A i \in 0..(arena_cnt - 1) : new[i] = arena[i]
  BY <1>1 DEF Realloc
<1>3. DOMAIN new \cup arena_cnt..(arena_cnt + (arena_cnt + 2) - 1) = 0..(2 * (arena_cnt + 1) - 1)
  BY <1>1, <1>2
<1>4. Grown = Cleared(new, arena_cnt, arena_cnt + 2)
  BY DEF Grown
<1> HIDE DEF new
<1>5. QED
  BY <1>1, <1>2, <1>3, <1>4 DEF Cleared

LEMMA BufferInitInv == BufferInit => BufferInv
BY DEF BufferInit, BufferInv, ArenaInv

(* A buffer begins empty, with all slots NULL.                             *)
LEMMA InitBufferInv ==
    ASSUME BufferInv, NEW count \in Counts, InitBuffer(count)
    PROVE  BufferInv'
PROOF
<1>1. count \in Nat
  BY BufferAssumption
<1>2. ArenaInv'
  BY <1>1 DEF InitBuffer, ArenaInv
<1>3. appended' = << >> /\ stage' = "live"
  BY DEF BufferInv, InitBuffer
<1>4. Chunks' = << >>
  BY DEF InitBuffer, Chunks
<1>5. QED
  BY <1>2, <1>3, <1>4 DEF BufferInv

(* An append fills the next slot, of the array or of the larger one.       *)
LEMMA AppendInv ==
    ASSUME BufferInv, NEW content, append(content)
    PROVE  BufferInv'
PROOF
<1> DEFINE cnt == IF arena_cur = arena_cnt THEN 2 * (arena_cnt + 1) ELSE arena_cnt
<1>1. /\ stage = "live" /\ stage' = "live"
      /\ arena_cnt' = cnt
      /\ arena_cur' = arena_cur + 1
      /\ arena' = [Grown EXCEPT ![arena_cur] = Slot("chunk", content)]
      /\ appended' = Append(appended, content)
  BY DEF append
<1>2. arena_cnt \in Nat /\ arena_cur \in 0..arena_cnt /\ ArenaInv
  BY DEF BufferInv, ArenaInv
<1>3. cnt \in Nat /\ arena_cur \in 0..(cnt - 1)
  BY <1>2
<1>4. /\ DOMAIN Grown = 0..(cnt - 1)
      /\ \A i \in 0..(cnt - 1) : Grown[i] = IF i < arena_cur THEN arena[i] ELSE Null
  <2>1. CASE arena_cur = arena_cnt
    BY <1>2, <2>1, GrownIs
  <2>2. CASE arena_cur # arena_cnt
    BY <1>2, <2>2 DEF Grown, ArenaInv
  <2>3. QED
    BY <2>1, <2>2
<1>5. \A i \in 0..(arena_cur - 1) : arena[i].kind = "chunk"
  BY <1>1, <1>2 DEF ArenaInv
<1> HIDE DEF cnt
<1>6. /\ DOMAIN arena' = 0..(cnt - 1)
      /\ arena'[arena_cur] = Slot("chunk", content)
      /\ \A i \in 0..(cnt - 1) : i # arena_cur =>
             arena'[i] = IF i < arena_cur THEN arena[i] ELSE Null
  BY <1>1, <1>3, <1>4
<1>7. Slot("chunk", content).kind = "chunk" /\ Slot("chunk", content).data = content
  BY DEF Slot
<1>8. ArenaInv'
  <2>1. ASSUME NEW i \in 0..(cnt - 1)
        PROVE  IF i >= arena_cur' THEN arena'[i] = Null ELSE arena'[i].kind = "chunk"
    BY <1>1, <1>2, <1>3, <1>5, <1>6, <1>7
  <2>2. QED
    BY <1>1, <1>2, <1>3, <1>6, <2>1 DEF ArenaInv
<1>9. appended' = Chunks'
  <2>1. appended = Chunks /\ Chunks' = [i \in 1..(arena_cur + 1) |-> arena'[i - 1].data]
    BY <1>1 DEF BufferInv, Chunks
  <2>2. Len(Chunks) = arena_cur
    BY <1>2 DEF Chunks
  <2>3. ASSUME NEW i \in 1..(arena_cur + 1)
        PROVE  Append(Chunks, content)[i] = arena'[i - 1].data
    <3>1. CASE i = arena_cur + 1
      BY <1>2, <1>6, <1>7, <2>2, <3>1 DEF Chunks
    <3>2. CASE i # arena_cur + 1
      BY <1>2, <1>3, <1>6, <2>2, <3>2 DEF Chunks
    <3>3. QED
      BY <3>1, <3>2
  <2>4. Append(Chunks, content) = [i \in 1..(arena_cur + 1) |-> Append(Chunks, content)[i]]
    BY <1>2, <2>2 DEF Chunks
  <2>5. QED
    BY <1>1, <2>1, <2>3, <2>4
<1>10. QED
  BY <1>1, <1>8, <1>9 DEF BufferInv

(* A buffer that is destroyed has no chunks left.                          *)
LEMMA DestroyInv ==
    ASSUME BufferInv, Destroy
    PROVE  BufferInv'
PROOF
<1>1. ArenaInv /\ arena_cnt \in Nat /\ arena_cur \in Nat
  BY DEF BufferInv, ArenaInv
<1>2. \A i \in DOMAIN arena : i < arena_cur => arena[i] # Null
  BY <1>1 DEF ArenaInv, Destroy, Null, Slot
<1>3. Slot("dangling", << >>).kind = "dangling"
  BY DEF Slot
<1>4. QED
  BY <1>1, <1>2, <1>3 DEF BufferInv, ArenaInv, Destroy

-----------------------------------------------------------------------------
(* However often the array grows, and from whatever size: it is as large   *)
(* as arena_cnt says, and its slots are chunks up to arena_cur, NULL       *)
(* behind; the chunks are what was appended.                               *)
THEOREM BufferInvariant == BufferSpec => []BufferInv
PROOF
<1>1. BufferInv /\ [BufferNext]_bufferVars => BufferInv'
  <2> SUFFICES ASSUME BufferInv, [BufferNext]_bufferVars  PROVE BufferInv'
    OBVIOUS
  <2>1. CASE BufferNext
    BY <2>1, InitBufferInv, AppendInv, DestroyInv DEF BufferNext
  <2>2. CASE UNCHANGED bufferVars
    BY <2>2 DEF bufferVars, BufferInv, ArenaInv, Chunks
  <2>3. QED
    BY <2>1, <2>2
<1>2. QED
  BY BufferInitInv, <1>1, PTL DEF BufferSpec

=============================================================================
