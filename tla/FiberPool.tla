----------------------------- MODULE FiberPool ------------------------------
(***************************************************************************)
(* The two levels of fiber pools: a private one per worker and a global    *)
(* one, the parent of all, behind a lock.  A worker whose pool is empty    *)
(* (full) moves half a pool of fibers from (to) the parent, and as many    *)
(* from (to) the system as the parent cannot give (take).                  *)
(*                                                                         *)
(* The parent's lock is held over two steps: one decides how many fibers   *)
(* to move, the other moves them and unlocks.  Only then, and one by one,  *)
(* is the rest of the batch mapped or unmapped, while other workers use    *)
(* the parent.                                                             *)
(***************************************************************************)
EXTENDS Integers, SequencesExt, FiniteSets

CONSTANTS
  NProc,             \* number of workers
  Capacity,          \* options.fiber_pool_cap
  ParentCapacity,    \* of the global pool, GLOBAL_POOL_RATIO * Capacity in the code
  Fiber,             \* what the system can supply
  NULL,
  MaxInUse           \* bound on the fibers the scheduler holds at a time

Worker == 0..NProc-1
BATCH_FRACTION == 2
Half == Capacity \div BATCH_FRACTION

(* parse_command_line keeps the capacity at 8 or more; the program ends at    *)
(* once if the system cannot fill half of every worker's pool.                *)
ASSUME PoolAssumption ==
  /\ NProc \in Nat \ {0} /\ Capacity \in Nat /\ Half > 0
  /\ ParentCapacity \in Nat
  /\ NULL \notin Fiber \union 0..NProc
ASSUME SupplyAssumption == ExistsInjection(Worker \X (1..Half), Fiber)

VARIABLES
  pool,      \* each worker's pool, last in first out
  parent,    \* the global pool
  lock,      \* who holds the global pool's lock
  users,     \* how many times each fiber is in the scheduler's hands
  mapped,    \* fibers obtained from the system and not unmapped
  pc,        \* where each worker is
  surplus,   \* the fiber a worker wants to put into its full pool
  moving,    \* from_parent or to_parent, then the loops' i: fibers of the batch moved so far
  since,     \* history: allocations and deallocations since the last batch, up to Half
  left,      \* history: how many fibers the parent had when a worker unlocked it,
             \* until the batch is complete
  stage      \* number of workers deinitialised, NULL before, "over" after

history == <<since, left>>
vars == <<pool, parent, lock, users, mapped, pc, surplus, moving, history, stage>>

PC == {"run", "refill", "take", "map", "drain", "give", "unmap"}

Smaller(a, b) == IF a <= b THEN a ELSE b

(* cilk_fiber_allocate: a fiber nobody has (which, is immaterial).  When mmap *)
(* fails the program ends.                                                    *)
CanSupply == Fiber \ mapped # {}
FromSystem == CHOOSE x \in Fiber \ mapped : TRUE

(* cilk_fiber_pool_per_worker_init: half a pool each; the parent is empty. *)
FirstFibers == CHOOSE f \in Injection(Worker \X (1..Half), Fiber) : TRUE
Init ==
  /\ pool = [w \in Worker |-> [i \in 1..Half |-> FirstFibers[<<w, i>>]]]
  /\ parent = <<>> /\ lock = NULL
  /\ users = [x \in Fiber |-> 0] /\ mapped = UNION {Range(pool[w]) : w \in Worker}
  /\ pc = [w \in Worker |-> "run"]
  /\ surplus = [w \in Worker |-> NULL] /\ moving = [w \in Worker |-> 0]
  /\ since = [w \in Worker |-> Half] /\ left = [w \in Worker |-> NULL]
  /\ stage = NULL

InUse == {x \in Fiber : users[x] > 0}
Running(w) == pc[w] = "run" /\ stage = NULL
Goto(w, label) == pc' = [pc EXCEPT ![w] = label]
Count(w) == since' = [since EXCEPT ![w] = Smaller(@ + 1, Half)]

-----------------------------------------------------------------------------
(* Slips: plausible mistakes in the definitions below.                        *)

(* The parent's lock is not taken. *)
LockParent_Not(w) == lock' = lock

(* The room in the parent is not looked at. *)
ToParent_NoLimit == Half

(* A batch of just what the request needs. *)
Batch_One == 1

(* Fibers moved out of a pool stay there. *)
Below_Not(s, n) == s

(* Worker 0 forgets the global pool. *)
FreedBy_OwnOnly(w) == Range(pool[w])

(* The fiber handed out stays in the pool. *)
Popped_Not(s) == s

-----------------------------------------------------------------------------
LockParent(w) == lock = NULL /\ lock' = w
UnlockParent == lock' = NULL

(* The size of a batch. *)
Batch == Half

(* What the parent can give, and take, of a batch. *)
FromParent == Smaller(Len(parent), Batch)
ToParent == Smaller(Batch, ParentCapacity - Len(parent))

(* pool->fibers[--pool->size] *)
Popped(s) == Front(s)

(* The last n of a stack of fibers, in the order they are moved one by one. *)
Top(s, n) == Reverse(SubSeq(s, Len(s) - n + 1, Len(s)))
Below(s, n) == SubSeq(s, 1, Len(s) - n)

(* cilk_fiber_allocate_from_pool with a fiber in the pool.  The bound on      *)
(* InUse is the model's.                                                      *)
Allocate(w) ==
  /\ Running(w) /\ Cardinality(InUse) < MaxInUse
  /\ pool[w] # <<>>
  /\ users' = [users EXCEPT ![Last(pool[w])] = @ + 1]
  /\ pool' = [pool EXCEPT ![w] = Popped(@)]
  /\ Count(w)
  /\ UNCHANGED <<parent, lock, mapped, pc, surplus, moving, left, stage>>

(* ... and with none: fiber_pool_allocate_batch. *)
FindEmpty(w) ==
  /\ Running(w) /\ Cardinality(InUse) < MaxInUse
  /\ pool[w] = <<>>
  /\ Goto(w, "refill")
  /\ UNCHANGED <<pool, parent, lock, users, mapped, surplus, moving, history, stage>>

StartRefill(w) ==
  /\ pc[w] = "refill"
  /\ LockParent(w)
  /\ moving' = [moving EXCEPT ![w] = FromParent]
  /\ Goto(w, "take")
  /\ UNCHANGED <<pool, parent, users, mapped, surplus, history, stage>>

Refill(w) ==
  /\ pc[w] = "take"
  /\ parent' = Below(parent, moving[w])
  /\ pool' = [pool EXCEPT ![w] = @ \o Top(parent, moving[w])]
  /\ UnlockParent
  /\ left' = [left EXCEPT ![w] = Len(parent')]
  /\ Goto(w, "map")
  /\ UNCHANGED <<users, mapped, surplus, moving, since, stage>>

(* What is missing of the batch is mapped ...                                 *)
MapFiber(w) ==
  /\ pc[w] = "map" /\ moving[w] < Batch
  /\ CanSupply
  /\ mapped' = mapped \union {FromSystem}
  /\ pool' = [pool EXCEPT ![w] = Append(@, FromSystem)]
  /\ moving' = [moving EXCEPT ![w] = @ + 1]
  /\ UNCHANGED <<parent, lock, users, pc, surplus, history, stage>>

BatchDone(w) ==
  /\ moving[w] = Batch
  /\ since' = [since EXCEPT ![w] = 0] /\ left' = [left EXCEPT ![w] = NULL]
  /\ Goto(w, "run")

(* ... and the allocation that found the pool empty gets its fiber.           *)
FinishAllocate(w) ==
  /\ pc[w] = "map" /\ BatchDone(w)
  /\ users' = [users EXCEPT ![Last(pool[w])] = @ + 1]
  /\ pool' = [pool EXCEPT ![w] = Popped(@)]
  /\ UNCHANGED <<parent, lock, mapped, surplus, moving, stage>>

(* cilk_fiber_deallocate_to_pool, by whoever has the fiber now. *)
Deallocate(w, x) ==
  /\ Running(w) /\ x \in InUse
  /\ Len(pool[w]) # Capacity
  /\ users' = [users EXCEPT ![x] = @ - 1]
  /\ pool' = [pool EXCEPT ![w] = Append(@, x)]
  /\ Count(w)
  /\ UNCHANGED <<parent, lock, mapped, pc, surplus, moving, left, stage>>

(* ... and with a full pool: fiber_pool_free_batch. *)
FindFull(w, x) ==
  /\ Running(w) /\ x \in InUse
  /\ Len(pool[w]) = Capacity
  /\ users' = [users EXCEPT ![x] = @ - 1]
  /\ surplus' = [surplus EXCEPT ![w] = x]
  /\ Goto(w, "drain")
  /\ UNCHANGED <<pool, parent, lock, mapped, moving, history, stage>>

StartDrain(w) ==
  /\ pc[w] = "drain"
  /\ LockParent(w)
  /\ moving' = [moving EXCEPT ![w] = ToParent]
  /\ Goto(w, "give")
  /\ UNCHANGED <<pool, parent, users, mapped, surplus, history, stage>>

Drain(w) ==
  /\ pc[w] = "give"
  /\ parent' = parent \o Top(pool[w], moving[w])
  /\ pool' = [pool EXCEPT ![w] = Below(@, moving[w])]
  /\ UnlockParent
  /\ left' = [left EXCEPT ![w] = Len(parent')]
  /\ Goto(w, "unmap")
  /\ UNCHANGED <<users, mapped, surplus, moving, since, stage>>

(* What is left of the batch is unmapped ...                                  *)
UnmapFiber(w) ==
  /\ pc[w] = "unmap" /\ moving[w] < Batch
  /\ mapped' = mapped \ {Last(pool[w])}
  /\ pool' = [pool EXCEPT ![w] = Popped(@)]
  /\ moving' = [moving EXCEPT ![w] = @ + 1]
  /\ UNCHANGED <<parent, lock, users, pc, surplus, history, stage>>

(* ... and the fiber that found the pool full is put there.                   *)
FinishDeallocate(w) ==
  /\ pc[w] = "unmap" /\ BatchDone(w)
  /\ pool' = [pool EXCEPT ![w] = Append(@, surplus[w])]
  /\ surplus' = [surplus EXCEPT ![w] = NULL]
  /\ UNCHANGED <<parent, lock, users, mapped, moving, stage>>

-----------------------------------------------------------------------------
(* threads_join: the scheduler has given everything back (NothingLeftBehind   *)
(* of module Scheduler).                                                      *)
Join ==
  /\ stage = NULL /\ InUse = {} /\ \A w \in Worker : pc[w] = "run"
  /\ stage' = 0
  /\ UNCHANGED <<pool, parent, lock, users, mapped, pc, surplus, moving, history>>

(* cilk_fiber_pool_per_worker_destroy, called by workers_deinit for worker    *)
(* after worker; worker 0 frees the global pool too.                          *)
FreedBy(w) == Range(pool[w]) \union (IF w = 0 THEN Range(parent) ELSE {})

Destroy(w) ==
  /\ stage = w
  /\ mapped' = mapped \ FreedBy(w)
  /\ pool' = [pool EXCEPT ![w] = <<>>]
  /\ parent' = IF w = 0 THEN <<>> ELSE parent
  /\ stage' = w + 1
  /\ UNCHANGED <<lock, users, pc, surplus, moving, history>>

Terminated == stage = NProc /\ UNCHANGED vars

Work(w) == \/ StartRefill(w) \/ Refill(w) \/ MapFiber(w) \/ FinishAllocate(w)
           \/ StartDrain(w) \/ Drain(w) \/ UnmapFiber(w) \/ FinishDeallocate(w)

Next ==
  \/ \E w \in Worker : \/ Allocate(w) \/ FindEmpty(w) \/ Work(w) \/ Destroy(w)
                       \/ \E x \in Fiber : Deallocate(w, x) \/ FindFull(w, x)
  \/ Join \/ Terminated

Spec == Init /\ [][Next]_vars

-----------------------------------------------------------------------------
(* A fiber that is mapped is in exactly one place, however often it moved     *)
(* between workers, pools and the scheduler; one that is not, in none.        *)
InPool(w, x) == {<<"pool", w, i>> : i \in {j \in 1..Len(pool[w]) : pool[w][j] = x}}
InParent(x) == {<<"parent", i>> : i \in {j \in 1..Len(parent) : parent[j] = x}}
AtHand(x) == {<<"surplus", w>> : w \in {v \in Worker : surplus[v] = x}}
InPools(x) == UNION {InPool(w, x) : w \in Worker}
Places(x) == InPools(x) \union InParent(x) \union AtHand(x)
OnePlace == \A x \in Fiber : Cardinality(Places(x)) + users[x] = IF x \in mapped THEN 1 ELSE 0

(* No pool outgrows its array: fiber_pool_increase_capacity never has to      *)
(* reallocate one, and the global pool's, which has no owner to do so, never  *)
(* overflows whatever number of workers drain into it.                        *)
WithinCapacity ==
  /\ \A w \in Worker : Len(pool[w]) <= Capacity
  /\ Len(parent) <= ParentCapacity

(* After a batch a worker has room, and fibers, for half a pool of further    *)
(* operations, whatever they are: the global lock is not taken at every turn  *)
(* by a worker that goes to and fro at the edge of its pool.                  *)
Apart == \A w \in Worker : lock # w /\ lock' = w => since[w] >= Half - 1
BatchesApart == [][Apart]_vars

(* The system is asked for a fiber only by a worker that left the global pool *)
(* exhausted when it unlocked it, and given one (before the end) only by one  *)
(* that left it full, though others may have changed that since: no batch     *)
(* maps or unmaps a fiber that it could have moved.                           *)
SystemLastResort ==
  [][/\ mapped' \ mapped # {} => \E w \in Worker :
          pc[w] = "map" /\ pool'[w] # pool[w] /\ left[w] = 0
     /\ stage = NULL /\ mapped \ mapped' # {} => \E w \in Worker :
          pc[w] = "unmap" /\ pool'[w] # pool[w] /\ left[w] = ParentCapacity]_vars

(* When all workers are deinitialised every fiber is unmapped, and the global *)
(* pool is empty, as cilk_fiber_pool_global_destroy asserts.                  *)
NothingLeaked == stage = NProc => mapped = {} /\ parent = <<>>

(* Seen from the scheduler this is an allocator.                              *)
Pools == INSTANCE Allocator WITH Item <- Fiber, held <- users
ImplementsAllocator == Pools!Spec
=============================================================================
