------------------------------- MODULE O2Mem -------------------------------
(***************************************************************************)
(* The real-time allocator of o2mem.cpp.  Every thread carves blocks off a *)
(* chunk of its own; freed blocks go to lists shared by all threads, one   *)
(* per size.  A push or a pop of a list is one step, as O2Queue justifies, *)
(* and all else a call does concerns its own thread or its own block, so a *)
(* call is one step.  Sizes and limits are those of a 64-bit build.  An    *)
(* address is a pair <<chunk, offset>>; malloc aligns chunks to 16 bytes.  *)
(***************************************************************************)
EXTENDS Integers, Sequences, FiniteSets

CONSTANTS
    Threads,    \* the O2 thread and the shared memory threads
    Main,       \* the O2 thread
    Requests,   \* the sizes asked for
    Debug,      \* O2MEM_DEBUG
    MaxBlocks   \* bound on blocks taken from chunks between two initializations

VARIABLES
    o2mem_state,     \* "UNINITIALIZED", "NOT_USED" or "INITIALIZED"
    chunks,          \* sizes of the chunks in allocated_chunk_list, by their number
    free_lists,      \* linear_free (0..31) and exponential_free (32..47)
    ctx,             \* chunk, offset and chunk_remaining of each thread's o2_ctx
    heap,            \* what block headers and trailers say: address -> block
    unused,          \* where the O2MEM_UNUSED sentinel of each chunk is
    used             \* addresses the program was given and has not freed

vars == <<o2mem_state, chunks, free_lists, ctx, heap, unused, used>>

LOG2_MAX_LINEAR_BYTES == 9
MAX_LINEAR_BYTES == 512
LOG2_MAX_EXPONENTIAL_BYTES == 25
O2MEM_CHUNK_SIZE == 8192
Pointer == 8
Lists == 0 .. (MAX_LINEAR_BYTES \div 16
               + LOG2_MAX_EXPONENTIAL_BYTES - LOG2_MAX_LINEAR_BYTES - 1)

\* preamble_t in front of the payload, postlude_t behind it.
preamble_t == IF Debug THEN 24 ELSE 8
postlude_t == IF Debug THEN 18 * 8 ELSE 0

need_debug_space == IF Debug THEN 8 ELSE 0

SIZE_REQUEST_TO_ACTUAL(size) == ((size + 7) \div 16) * 16 + 8

SIZE_TO_REALSIZE(size) == preamble_t + size + postlude_t

power_of_2_block_size(size) ==
    CHOOSE log \in LOG2_MAX_LINEAR_BYTES .. LOG2_MAX_EXPONENTIAL_BYTES :
        /\ (size <= 2 ^ log \/ log = LOG2_MAX_EXPONENTIAL_BYTES)
        /\ \A l \in LOG2_MAX_LINEAR_BYTES .. (log - 1) : size > 2 ^ l

\* The list for blocks of a requested size (-1 where there is none) and the
\* size of its blocks.
head_ptr_for_size(request) ==
    LET size == SIZE_REQUEST_TO_ACTUAL(request)
        index == size \div 16
        log == power_of_2_block_size(size - 8)
    IN  IF index < MAX_LINEAR_BYTES \div 16 THEN [list |-> index, size |-> size]
        ELSE IF log < LOG2_MAX_EXPONENTIAL_BYTES
        THEN [list |-> MAX_LINEAR_BYTES \div 16 + log - LOG2_MAX_LINEAR_BYTES,
              size |-> 2 ^ log + 8]
        ELSE [list |-> -1, size |-> size]

NoChunk == [chunk |-> 0, at |-> 0, remaining |-> 0]

Init ==
    /\ o2mem_state = "UNINITIALIZED"
    /\ chunks = <<>>
    /\ free_lists = [l \in Lists |-> <<>>]
    /\ ctx = [t \in Threads |-> NoChunk]
    /\ heap = <<>>
    /\ unused = <<>>
    /\ used = {}

\* o2_memory given a malloc and a free of the program's own: the allocator here
\* is never called.  With neither it asserts a context that no thread has yet.
o2_memory ==
    /\ o2mem_state = "UNINITIALIZED"
    /\ o2mem_state' = "NOT_USED"
    /\ UNCHANGED <<chunks, free_lists, ctx, heap, unused, used>>

o2_mem_init ==
    /\ o2mem_state = "UNINITIALIZED"
    /\ o2mem_state' = "INITIALIZED"
    /\ free_lists' = [l \in Lists |-> <<>>]
    /\ ctx' = [ctx EXCEPT ![Main] = NoChunk]
    /\ UNCHANGED <<chunks, heap, unused, used>>

\* Called by o2_finish in the O2 thread, when the shared memory threads have
\* ended; what the program still holds is freed with its chunk.
o2_mem_finish ==
    /\ o2mem_state = "INITIALIZED"
    /\ \A t \in Threads \ {Main} : ctx[t] = NoChunk
    /\ chunks' = <<>> /\ heap' = <<>> /\ unused' = <<>> /\ used' = {}
    /\ free_lists' = [l \in Lists |-> <<>>]
    /\ o2mem_state' = "UNINITIALIZED"
    /\ UNCHANGED ctx

\* The header and trailer of a block in use, the sequence number left out.
write_debug_info_into(size) == [size |-> size, start |-> "data", end |-> "data"]

\* A chunk with a single block in it.
malloc_one_object(size) ==
    LET c == Len(chunks) + 1
        block == <<c, Pointer + preamble_t>>
        realsize == SIZE_TO_REALSIZE(size)
    IN  /\ chunks' = Append(chunks, realsize + Pointer + need_debug_space * 2)
        /\ heap' = [a \in DOMAIN heap \cup {block} |->
                      IF a = block THEN write_debug_info_into(size) ELSE heap[a]]
        /\ unused' = Append(unused, Pointer + realsize)
        /\ used' = used \cup {block}
        /\ UNCHANGED <<ctx, free_lists>>

\* A block off the front of the thread's chunk.
carve(t, from, size) ==
    LET realsize == SIZE_TO_REALSIZE(size)
        block == <<from.chunk, from.at + preamble_t>>
    IN  /\ ctx' = [ctx EXCEPT ![t] = [chunk |-> from.chunk,
                                      at |-> from.at + realsize,
                                      remaining |-> from.remaining - realsize]]
        /\ heap' = [a \in DOMAIN heap \cup {block} |->
                      IF a = block THEN write_debug_info_into(size) ELSE heap[a]]
        /\ used' = used \cup {block}

from_chunk(t, size) ==
    /\ unused' = [unused EXCEPT ![ctx[t].chunk] = ctx[t].at + SIZE_TO_REALSIZE(size)]
    /\ carve(t, ctx[t], size)
    /\ UNCHANGED <<chunks, free_lists>>

\* A new chunk; what was left of the old one is lost.
from_new_chunk(t, size) ==
    /\ chunks' = Append(chunks, O2MEM_CHUNK_SIZE)
    /\ unused' = Append(unused, Pointer + SIZE_TO_REALSIZE(size))
    /\ carve(t, [chunk |-> Len(chunks) + 1, at |-> Pointer,
                 remaining |-> O2MEM_CHUNK_SIZE - Pointer], size)
    /\ UNCHANGED free_lists

\* Mutant: the first block is used and stays on the list.
from_free_list_peek(l) ==
    LET block == Head(free_lists[l])
    IN  /\ heap' = [heap EXCEPT ![block] = write_debug_info_into(@.size)]
        /\ used' = used \cup {block}
        /\ UNCHANGED <<chunks, ctx, unused, free_lists>>

from_free_list(l) ==
    LET block == Head(free_lists[l])
    IN  /\ free_lists' = [free_lists EXCEPT ![l] = Tail(@)]
        /\ heap' = [heap EXCEPT ![block] = write_debug_info_into(@.size)]
        /\ used' = used \cup {block}
        /\ UNCHANGED <<chunks, ctx, unused>>

o2_malloc(t, request) ==
    LET h == head_ptr_for_size(request)
        space == SIZE_TO_REALSIZE(h.size) + need_debug_space
        fits == ctx[t].remaining >= space
    IN  /\ o2mem_state = "INITIALIZED"
        /\ UNCHANGED o2mem_state
        /\ IF h.list # -1 /\ free_lists[h.list] # <<>>
           THEN from_free_list(h.list)
           ELSE /\ Cardinality(DOMAIN heap) < MaxBlocks
                /\ \/ /\ h.list = -1 \/ space > O2MEM_CHUNK_SIZE
                      /\ malloc_one_object(h.size)
                   \/ /\ h.list # -1 /\ space <= O2MEM_CHUNK_SIZE /\ fits
                      /\ from_chunk(t, h.size)
                   \/ /\ h.list # -1 /\ space <= O2MEM_CHUNK_SIZE /\ ~fits
                      /\ IF /\ SIZE_TO_REALSIZE(h.size) >= MAX_LINEAR_BYTES
                            /\ ctx[t].remaining > MAX_LINEAR_BYTES
                         THEN malloc_one_object(h.size)
                         ELSE from_new_chunk(t, h.size)

\* Any thread may free a block: messages travel between threads.  A block too
\* large for any list is only marked; it is freed when O2 is shut down.
o2_free(block) ==
    LET h == head_ptr_for_size(heap[block].size)
    IN  /\ o2mem_state = "INITIALIZED"
        /\ heap' = [heap EXCEPT ![block] =
                      [size |-> h.size, start |-> "free", end |-> "free"]]
        /\ free_lists' = IF h.list = -1 THEN free_lists
                         ELSE [free_lists EXCEPT ![h.list] = <<block>> \o @]
        /\ used' = used \ {block}
        /\ UNCHANGED <<o2mem_state, chunks, ctx, unused>>

\* delete o2_ctx in o2sm_finish: the rest of the thread's chunk is lost, its
\* blocks live on.
o2sm_finish(t) ==
    /\ t # Main /\ ctx[t] # NoChunk
    /\ ctx' = [ctx EXCEPT ![t] = NoChunk]
    /\ UNCHANGED <<o2mem_state, chunks, free_lists, heap, unused, used>>

Next ==
    \/ o2_memory \/ o2_mem_init \/ o2_mem_finish
    \/ \E t \in Threads : o2sm_finish(t) \/ \E r \in Requests : o2_malloc(t, r)
    \/ \E b \in used : o2_free(b)
    \/ o2mem_state = "NOT_USED" /\ UNCHANGED vars

Spec == Init /\ [][Next]_vars

-----------------------------------------------------------------------------
(* Properties *)

\* The bytes of a block from its preamble to the end of its postlude.
First(a) == a[2] - preamble_t
Last(a) == a[2] + heap[a].size + postlude_t

\* block_check finds nothing wrong: the two sentinels of a block agree.
block_check(a, alloc_ok, free_ok) ==
    \/ alloc_ok /\ heap[a].start = "data" /\ heap[a].end = "data"
    \/ free_ok /\ heap[a].start = "free" /\ heap[a].end = "free"

\* Whatever the threads allocate and free, no two blocks overlap and none
\* passes the end of its chunk or reaches into the part of a chunk from which
\* its thread will carve next.
NoOverlap ==
    /\ \A a \in DOMAIN heap : Last(a) <= chunks[a[1]]
    /\ \A a, b \in DOMAIN heap :
          a # b /\ a[1] = b[1] => Last(a) <= First(b) \/ Last(b) <= First(a)
    /\ \A t \in Threads, a \in DOMAIN heap :
          ctx[t].chunk = a[1] => Last(a) <= ctx[t].at
    /\ \A t, u \in Threads : t # u /\ ctx[t].chunk # 0 => ctx[t].chunk # ctx[u].chunk

\* A block is in use or on exactly one free list, once, and on the list of its
\* own size (the assertion at o2mem.cpp:725): the size in its header survives
\* being rounded up again when it is freed.
RightList ==
    \A l \in Lists : \A i \in DOMAIN free_lists[l] :
        LET a == free_lists[l][i]
        IN  /\ a \in DOMAIN heap \ used
            /\ block_check(a, FALSE, TRUE)
            /\ head_ptr_for_size(heap[a].size) = [list |-> l, size |-> heap[a].size]
            /\ \A m \in Lists : \A j \in DOMAIN free_lists[m] :
                  free_lists[m][j] = a => l = m /\ i = j

\* Every payload has the alignment that the lock-free lists and the callers
\* rely on (preamble_t: "aligned to O2MEM_ALIGN").
Aligned == \A a \in DOMAIN heap : a[2] % 16 = 0

\* mem_check_all can walk every chunk from its first block to the UNUSED
\* sentinel: the blocks follow each other without a gap, the last one ends at
\* the sentinel, and that lies inside of the chunk.
Walkable ==
    \A c \in DOMAIN chunks :
        LET blocks == {a \in DOMAIN heap : a[1] = c}
            Follows(a) == Last(a) = unused[c] \/ \E b \in blocks : First(b) = Last(a)
        IN  /\ \E a \in blocks : First(a) = Pointer
            /\ \A a \in blocks : Follows(a) /\ block_check(a, TRUE, TRUE)
            /\ Debug => unused[c] + Pointer <= chunks[c]
=============================================================================
