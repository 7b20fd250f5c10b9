--------------------------- MODULE InternalMalloc ---------------------------
(***************************************************************************)
(* The runtime's allocator of small blocks.  Each worker has, per block    *)
(* size, a free list and a count of the blocks that may still be put on    *)
(* it; so has the global pool, whose lists are refilled by cutting up      *)
(* chunks obtained from the system.  Batches of half a list go between the *)
(* two under one lock, and are moved block by block by calling the same    *)
(* malloc and free that ask for batches.                                   *)
(*                                                                         *)
(* Memory is counted in units, block sizes being multiples of one; the     *)
(* system's k-th chunk is the units from k*Chunk on, until its supply is   *)
(* exhausted.  A step of a worker is one block moved.                      *)
(***************************************************************************)
EXTENDS Integers, SequencesExt, FiniteSets

CONSTANTS
  NProc,
  Bucket,            \* indices of bucket_sizes
  Size, Capacity,    \* bucket_sizes and bucket_capacity, as functions of the bucket
  Chunk,             \* INTERNAL_MALLOC_CHUNK_SIZE
  Supply,            \* number of chunks the system has
  MEM_LIST_SIZE,
  NULL,
  UNINIT,            \* an element of mem_list that was never written
  MaxInUse           \* bound on the blocks in use at a time

Worker == 0..NProc-1

ASSUME BucketAssumption ==
  /\ NProc \in Nat \ {0} /\ {Chunk, Supply} \subseteq Nat /\ MEM_LIST_SIZE \in Nat \ {0}
  /\ Size \in [Bucket -> 1..Chunk]
  /\ Capacity \in [Bucket -> Nat \ {0, 1}]
  /\ NULL \notin Int

VARIABLES
  list,       \* free_list of each worker and bucket, head last: addresses
  until,      \* count_until_free of each
  glist,      \* free_list of the global buckets
  begin, end, \* mem_begin and mem_end of the chunk being cut up
  memList,    \* mem_list, from index 0 on as a sequence
  chunks,     \* mem_list_index + 1: the chunks obtained so far
  lock,       \* who holds im_lock
  pc, job,    \* where each worker is: bucket, blocks left to move, block to free
  users,      \* how many times each block <<address, bucket>> in use is in use
  wasted,     \* history: units given up at the end of a chunk
  freed       \* what global_im_pool_destroy passed to munmap; NULL before

listVars == <<list, until>>
globalVars == <<glist, begin, end, memList, chunks, wasted>>
vars == <<listVars, globalVars, lock, pc, job, users, freed>>

Idle == [bucket |-> NULL, left |-> 0, block |-> NULL]

(* What mmap returns for the k-th chunk. *)
MAP_FAILED == -1
Mmap(k) == IF k <= Supply THEN Chunk * k ELSE MAP_FAILED

Users(x) == IF x \in DOMAIN users THEN users[x] ELSE 0
InUse == DOMAIN users
AddUser(x) == [y \in InUse \union {x} |-> IF y = x THEN Users(x) + 1 ELSE users[y]]
DropUser(x) == [y \in {z \in InUse : z # x \/ users[x] > 1} |-> IF y = x THEN users[x] - 1 ELSE users[y]]

Running(w) == pc[w] = "run" /\ freed = NULL
Goto(w, label) == pc' = [pc EXCEPT ![w] = label]

-----------------------------------------------------------------------------
(* Slips: plausible mistakes in the definitions below.                        *)

(* A new bucket has no room. *)
Fresh_NoRoom == [b \in Bucket |-> 0]

(* A block is put on a list without counting it. *)
Push_Uncounted(w, b, a) ==
  list' = [list EXCEPT ![w][b] = Append(@, a)] /\ until' = until

(* mem_list is not made longer. *)
Grown_Not(s, n) == s

-----------------------------------------------------------------------------
(* init_im_buckets: the count of an empty list.                               *)
Fresh == Capacity

(* cilk_internal_malloc_global_init and cilk_internal_malloc_per_worker_init. *)
Init ==
  /\ list = [w \in Worker |-> [b \in Bucket |-> <<>>]]
  /\ until = [w \in Worker |-> Fresh]
  /\ glist = [b \in Bucket |-> <<>>]
  /\ begin = 0 /\ end = 0
  /\ memList = [i \in 1..MEM_LIST_SIZE |-> UNINIT] /\ chunks = 0
  /\ lock = NULL
  /\ pc = [w \in Worker |-> "run"] /\ job = [w \in Worker |-> Idle]
  /\ users = <<>>
  /\ wasted = {} /\ freed = NULL

BatchSize(b) == Capacity[b] \div 2

(* The head of a local list is taken, a block is put at its head.             *)
Pop(w, b) ==
  /\ list' = [list EXCEPT ![w][b] = Front(@)]
  /\ until' = [until EXCEPT ![w][b] = @ + 1]
Push(w, b, a) ==
  /\ list' = [list EXCEPT ![w][b] = Append(@, a)]
  /\ until' = [until EXCEPT ![w][b] = @ - 1]

(* cilk_internal_malloc with a block in the list.  (The bound on InUse is the *)
(* model's.)                                                                  *)
Malloc(w, b) ==
  /\ Running(w) /\ Cardinality(InUse) < MaxInUse
  /\ list[w][b] # <<>>
  /\ users' = AddUser(<<Last(list[w][b]), b>>)
  /\ Pop(w, b)
  /\ UNCHANGED <<globalVars, lock, pc, job, freed>>

(* ... and with none: im_allocate_batch wants the lock.                       *)
FindEmpty(w, b) ==
  /\ Running(w) /\ Cardinality(InUse) < MaxInUse
  /\ list[w][b] = <<>>
  /\ job' = [job EXCEPT ![w].bucket = b]
  /\ Goto(w, "want")
  /\ UNCHANGED <<listVars, globalVars, lock, users, freed>>

(* cilk_internal_free with room in the list.                                  *)
Free(w, x) ==
  /\ Running(w) /\ x \in InUse
  /\ until[w][x[2]] > 0
  /\ users' = DropUser(x)
  /\ Push(w, x[2], x[1])
  /\ UNCHANGED <<globalVars, lock, pc, job, freed>>

(* ... and with none: im_free_batch wants the lock.                           *)
FindFull(w, x) ==
  /\ Running(w) /\ x \in InUse
  /\ until[w][x[2]] <= 0
  /\ users' = DropUser(x)
  /\ job' = [job EXCEPT ![w].bucket = x[2], ![w].block = x[1]]
  /\ Goto(w, "full")
  /\ UNCHANGED <<listVars, globalVars, lock, freed>>

Lock(w) ==
  /\ pc[w] \in {"want", "full"}
  /\ lock = NULL /\ lock' = w
  /\ job' = [job EXCEPT ![w].left = BatchSize(job[w].bucket)]
  /\ Goto(w, IF pc[w] = "want" THEN "fill" ELSE "drain")
  /\ UNCHANGED <<listVars, globalVars, users, freed>>

-----------------------------------------------------------------------------
(* extend_global_pool: a new chunk, recorded in mem_list, which grows if it   *)
(* must; what was left of the old one is given up.                            *)
Grown(s, n) == IF n <= Len(s) THEN s ELSE s \o [i \in 1..MEM_LIST_SIZE |-> UNINIT]

DoesNotFit(b) == begin + Size[b] > end

(* global_im_alloc from a chunk.  The check of what mmap returned compares it *)
(* with NULL, which mmap never returns.                                       *)
CutAddress(b) == IF DoesNotFit(b) THEN Mmap(chunks + 1) ELSE begin
Cut(b) ==
  /\ begin' = CutAddress(b) + Size[b]
  /\ \/ /\ DoesNotFit(b)
        /\ chunks' = chunks + 1
        /\ end' = Mmap(chunks + 1) + Chunk
        /\ memList' = [Grown(memList, chunks + 1) EXCEPT ![chunks + 1] = Mmap(chunks + 1)]
        /\ wasted' = wasted \union (begin..end-1)
     \/ ~DoesNotFit(b) /\ UNCHANGED <<end, memList, chunks, wasted>>

(* One turn of im_allocate_batch's loop: global_im_alloc, from the list or    *)
(* from the chunk, and cilk_internal_free into the worker's list.             *)
FillOne(w) ==
  LET b == job[w].bucket IN
  /\ pc[w] = "fill" /\ job[w].left > 0
  /\ until[w][b] > 0
  /\ \/ /\ glist[b] # <<>>
        /\ Push(w, b, Last(glist[b]))
        /\ glist' = [glist EXCEPT ![b] = Front(@)]
        /\ UNCHANGED <<begin, end, memList, chunks, wasted>>
     \/ /\ glist[b] = <<>>
        /\ Push(w, b, CutAddress(b))
        /\ Cut(b)
        /\ UNCHANGED glist
  /\ job' = [job EXCEPT ![w].left = @ - 1]
  /\ UNCHANGED <<lock, pc, users, freed>>

(* The end of im_allocate_batch, and of the malloc that called it.            *)
Filled(w) ==
  LET b == job[w].bucket IN
  /\ pc[w] = "fill" /\ job[w].left = 0
  /\ lock' = NULL
  /\ users' = AddUser(<<Last(list[w][b]), b>>)
  /\ Pop(w, b)
  /\ job' = [job EXCEPT ![w] = Idle]
  /\ Goto(w, "run")
  /\ UNCHANGED <<globalVars, freed>>

(* One turn of im_free_batch's loop: cilk_internal_malloc, global_im_free.    *)
DrainOne(w) ==
  LET b == job[w].bucket IN
  /\ pc[w] = "drain" /\ job[w].left > 0
  /\ list[w][b] # <<>>
  /\ Pop(w, b)
  /\ glist' = [glist EXCEPT ![b] = Append(@, Last(list[w][b]))]
  /\ job' = [job EXCEPT ![w].left = @ - 1]
  /\ UNCHANGED <<begin, end, memList, chunks, wasted, lock, pc, users, freed>>

(* The end of im_free_batch, and of the free that called it.                  *)
Drained(w) ==
  LET b == job[w].bucket IN
  /\ pc[w] = "drain" /\ job[w].left = 0
  /\ until[w][b] > 0
  /\ lock' = NULL
  /\ Push(w, b, job[w].block)
  /\ job' = [job EXCEPT ![w] = Idle]
  /\ Goto(w, "run")
  /\ UNCHANGED <<globalVars, users, freed>>

-----------------------------------------------------------------------------
(* cilk_internal_malloc_global_destroy, when the workers are gone.            *)
Destroy ==
  /\ freed = NULL /\ InUse = {} /\ \A w \in Worker : pc[w] = "run"
  /\ freed' = Range(memList)
  /\ UNCHANGED <<listVars, globalVars, lock, pc, job, users>>

Terminated == freed # NULL /\ UNCHANGED vars

Next ==
  \/ \E w \in Worker :
       \/ \E b \in Bucket : Malloc(w, b) \/ FindEmpty(w, b)
       \/ \E x \in InUse : Free(w, x) \/ FindFull(w, x)
       \/ Lock(w) \/ FillOne(w) \/ Filled(w) \/ DrainOne(w) \/ Drained(w)
  \/ Destroy \/ Terminated

Spec == Init /\ [][Next]_vars

-----------------------------------------------------------------------------
(* Every unit of every chunk is in one place: a block in use or about to be   *)
(* freed, a block on a free list, the rest of the current chunk, or waste.    *)
(* Blocks of different sizes never overlap, and no block is on two lists.     *)
(* (The chunks are those the system did give.)  And every call of mmap is     *)
(* recorded in mem_list, however often that has to grow.                      *)
Units(a, b) == a..a+Size[b]-1
OnList(s, b, u) == {i \in 1..Len(s) : u \in Units(s[i], b)}
ClaimsOf(w, u) == UNION {{<<"local", w, b, i>> : i \in OnList(list[w][b], b, u)} : b \in Bucket}
LocalClaims(u) == UNION {ClaimsOf(w, u) : w \in Worker}
GlobalClaims(u) == UNION {{<<"global", b, i>> : i \in OnList(glist[b], b, u)} : b \in Bucket}
Freeing(w, u) == job[w].block # NULL /\ u \in Units(job[w].block, job[w].bucket)
FreeingClaims(u) == {<<"freeing", w>> : w \in {v \in Worker : Freeing(v, u)}}
UseClaims(u) == UNION {{<<"use", x, i>> : i \in 1..users[x]} : x \in {y \in InUse : u \in Units(y[1], y[2])}}
RestClaims(u) == {<<"rest">> : v \in {u} \intersect (begin..end-1)}
WasteClaims(u) == {<<"waste">> : v \in {u} \intersect wasted}
Claims(u) ==
  UNION {LocalClaims(u), GlobalClaims(u), FreeingClaims(u), UseClaims(u), RestClaims(u), WasteClaims(u)}

Obtained == IF chunks <= Supply THEN chunks ELSE Supply
EachUnitOnce ==
  /\ \A u \in Chunk..Chunk * (Obtained + 1) - 1 : Cardinality(Claims(u)) = 1
  /\ \A k \in 1..chunks : k <= Len(memList) /\ memList[k] = Mmap(k)

(* The count and the length of a free list agree, between any two steps: the  *)
(* assertion of cilk_internal_malloc_per_worker_destroy (compiled out).  The  *)
(* list then never holds more than its capacity.                              *)
CountsAgree ==
  \A w \in Worker, b \in Bucket :
    /\ until[w][b] + Len(list[w][b]) = Capacity[b]
    /\ until[w][b] >= 0

(* A worker never asks for the lock it holds, which is not recursive: inside  *)
(* a batch malloc finds a block in the list and free finds room on it, and    *)
(* one batch makes room enough to end the loop in cilk_internal_free.  (The   *)
(* actions of the batches have only these ways.)                              *)
NoReentry ==
  \A w \in Worker :
    LET b == job[w].bucket
    IN /\ pc[w] = "fill" => IF job[w].left > 0 THEN until[w][b] > 0 ELSE list[w][b] # <<>>
       /\ pc[w] = "drain" => IF job[w].left > 0 THEN list[w][b] # <<>> ELSE until[w][b] > 0

(* global_im_pool_destroy gives back the chunks, and only the chunks, that    *)
(* were obtained ("free global mem blocks").                                  *)
FreesItsChunks == freed # NULL => freed = {Mmap(k) : k \in 1..chunks}

(* The worker that exhausts the system is stopped by the check whose message  *)
(* is "Internal malloc running out of memory!", so that no memory that mmap   *)
(* refused is handed out.                                                     *)
OutOfMemoryNoticed == \A x \in InUse : x[1] # MAP_FAILED
=============================================================================
