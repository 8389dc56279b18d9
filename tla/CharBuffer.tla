------------------------------ MODULE CharBuffer ------------------------------
(***************************************************************************)
(* The growing buffers: buff_char_t of src/src/buff_char.h and the class   *)
(* Buffer of src/include/buffer.hpp, which do the same.  Each append puts  *)
(* a copy of its data into a chunk of its own; arena is the array of the   *)
(* pointers to the chunks, arena_cnt its size and arena_cur the number in  *)
(* use.  An append that finds the array full enlarges it first.            *)
(***************************************************************************)
EXTENDS Naturals, Sequences, SequencesExt

CONSTANTS
    Contents,       (* what may be appended: sequences of elements          *)
    Counts,         (* what the constructor is given; 2 in buff_char_init   *)
    MaxAppends      (* bound: the appends of a run                          *)

ASSUME BufferAssumption ==
    /\ Counts \subseteq Nat
    /\ MaxAppends \in Nat

VARIABLES
    stage,          (* whether the buffer exists                            *)
    arena_cnt,
    arena_cur,
    arena,          (* the slots, from 0 on                                 *)
    appended        (* history: what was appended                           *)

bufferVars == <<stage, arena_cnt, arena_cur, arena, appended>>

(* A slot holds the pointer to a chunk, NULL, or what realloc found there. *)
Kinds      == {"chunk", "NULL", "junk", "dangling"}
Slot(k, d) == [kind |-> k, data |-> d]
Null       == Slot("NULL", << >>)
Junk       == Slot("junk", << >>)

BufferInit ==
    /\ stage = "none"
    /\ arena_cnt = 0
    /\ arena_cur = 0
    /\ arena = [i \in {} |-> Null]
    /\ appended = << >>

(* buff_char_create and buff_char_init, or the constructor.                *)
InitBuffer(count) ==
    /\ stage = "none"
    /\ stage' = "live"
    /\ arena_cnt' = count
    /\ arena_cur' = 0
    /\ arena' = [i \in 0..(count - 1) |-> Null]
    /\ UNCHANGED appended

(* realloc keeps what fits and leaves the rest as it is.                   *)
Realloc(slots, count) ==
    [i \in 0..(count - 1) |-> IF i \in DOMAIN slots THEN slots[i] ELSE Junk]

(* memset of count slots from the one at first on; outside of the array is *)
(* outside of the model's function, too, and an error.                     *)
Cleared(slots, first, count) ==
    [i \in DOMAIN slots \cup first..(first + count - 1) |->
        IF i \in first..(first + count - 1) THEN Null ELSE slots[i]]

GrownShort ==       \* mutant: clears as many slots as there were before
    IF arena_cur # arena_cnt THEN arena
    ELSE Cleared(Realloc(arena, 2 * (arena_cnt + 1)), arena_cnt, arena_cnt)

Grown ==
    IF arena_cur # arena_cnt THEN arena
    ELSE Cleared(Realloc(arena, 2 * (arena_cnt + 1)), arena_cnt, arena_cnt + 2)

append(content) ==
    /\ stage = "live"
    /\ Len(appended) < MaxAppends
    /\ arena_cnt' = IF arena_cur = arena_cnt THEN 2 * (arena_cnt + 1) ELSE arena_cnt
    /\ arena' = [Grown EXCEPT ![arena_cur] = Slot("chunk", content)]
    /\ arena_cur' = arena_cur + 1
    /\ appended' = Append(appended, content)
    /\ UNCHANGED stage

(* The chunks and the structure are freed; the array is not, nor arena_cur *)
(* reset.                                                                  *)
Destroy ==
    /\ stage = "live"
    /\ stage' = "destroyed"
    /\ arena' = [i \in DOMAIN arena |->
                    IF i < arena_cur /\ arena[i] # Null THEN Slot("dangling", << >>) ELSE arena[i]]
    /\ UNCHANGED <<arena_cnt, arena_cur, appended>>

BufferNext ==
    \/ \E count \in Counts : InitBuffer(count)
    \/ \E content \in Contents : append(content)
    \/ Destroy

BufferSpec == BufferInit /\ [][BufferNext]_bufferVars

-----------------------------------------------------------------------------
(* buff_char_size and buff_char_data, or size and data of Buffer<char>.    *)

Chunks == [i \in 1..arena_cur |-> arena[i - 1].data]

size == FoldLeft(LAMBDA total, chunk : total + Len(chunk), 0, Chunks)

(* malloc returns memory nobody wrote; what memcpy writes outside of it is *)
(* outside of the model's function, and an error.                          *)
Terminator == "NUL"
Malloc(n)  == [i \in 0..(n - 1) |-> "unwritten"]

MemCpy(memory, at, chunk) ==
    [i \in DOMAIN memory \cup at..(at + Len(chunk) - 1) |->
        IF i \in at..(at + Len(chunk) - 1) THEN chunk[i - at + 1] ELSE memory[i]]

NextChunkTerminated(ret, chunk) ==      \* mutant: skips a terminator of each chunk
    [memory |-> MemCpy(ret.memory, ret.offset, chunk), offset |-> ret.offset + Len(chunk) + 1]

(* One round of the loop that copies.                                      *)
NextChunk(ret, chunk) ==
    [memory |-> MemCpy(ret.memory, ret.offset, chunk), offset |-> ret.offset + Len(chunk)]

data ==
    LET ret == FoldLeft(NextChunk, [memory |-> Malloc(size + 1), offset |-> 0], Chunks)
    IN  MemCpy(ret.memory, size, <<Terminator>>)

-----------------------------------------------------------------------------
(* The array is as large as arena_cnt says, whatever it grew from (0 too), *)
(* the slots in use are chunks and all behind them are NULL: the array is  *)
(* never written outside of, and what realloc left there is never read.    *)
ArenaInv ==
    /\ arena_cnt \in Nat
    /\ arena_cur \in 0..arena_cnt
    /\ DOMAIN arena = 0..(arena_cnt - 1)
    /\ \A i \in DOMAIN arena :
           IF i >= arena_cur THEN arena[i] = Null
           ELSE arena[i].kind = IF stage = "destroyed" THEN "dangling" ELSE "chunk"

(* data returns all that was appended, in order, through every growth, and *)
(* a NUL behind it: the offsets of the copying loop leave no gap, overlap  *)
(* nothing and end with the memory that size asked malloc for.             *)
DataIsAppended ==
    stage = "live" =>
        LET all == Append(FlattenSeq(appended), Terminator)
        IN  /\ DOMAIN data = 0..(Len(all) - 1)
            /\ \A i \in DOMAIN data : data[i] = all[i + 1]

(* And the chunks are what was appended.                                   *)
BufferInv ==
    /\ ArenaInv
    /\ stage = "none" => appended = << >>
    /\ stage = "live" => appended = Chunks
=============================================================================
