-------------------------- MODULE FiberPool_proof ---------------------------
(***************************************************************************)
(* Proofs about the fiber pools, for any number of workers, any capacities *)
(* and any supply.  The first part is about how many fibers move: no pool  *)
(* outgrows its array, and batches are half a pool of operations apart.    *)
(* The second is about which: a mapped fiber is in one place, the pools    *)
(* are an allocator, the system is used last, and nothing is left mapped.  *)
(***************************************************************************)
EXTENDS FiberPool, StackFacts, FiniteSetTheorems

Typed ==
  /\ pool \in [Worker -> Seq(Fiber)] /\ parent \in Seq(Fiber)
  /\ lock \in Worker \union {NULL}
  /\ pc \in [Worker -> PC]
  /\ surplus \in [Worker -> Fiber \union {NULL}]
  /\ \A w \in Worker : pc[w] \in {"drain", "give", "unmap"} => surplus[w] \in Fiber
  /\ moving \in [Worker -> 0..Half]
  /\ since \in [Worker -> 0..Half] /\ left \in [Worker -> Nat \union {NULL}]
  /\ stage \in 0..NProc \union {NULL}

(* Whoever moves fibers holds the lock and decided how many by what the       *)
(* parent has; the others are not between the two steps of a batch.           *)
MovesInv ==
  /\ \A w \in Worker : lock = w <=> pc[w] \in {"take", "give"}
  /\ \A w \in Worker : pc[w] = "take" => moving[w] = Smaller(Len(parent), Half)
  /\ \A w \in Worker : pc[w] = "give" => moving[w] = Smaller(Half, ParentCapacity - Len(parent))

(* A batch is begun with an empty or with a full pool; after the move the     *)
(* pool has grown, or shrunk, by what was moved so far.                       *)
EdgeInv ==
  /\ \A w \in Worker : pc[w] \in {"refill", "take"} => pool[w] = <<>>
  /\ \A w \in Worker : pc[w] = "map" => Len(pool[w]) = moving[w]
  /\ \A w \in Worker : pc[w] \in {"drain", "give"} => Len(pool[w]) = Capacity
  /\ \A w \in Worker : pc[w] = "unmap" => Len(pool[w]) = Capacity - moving[w]
  /\ stage # NULL => \A w \in Worker : pc[w] = "run"

(* A worker that has yet to map, or unmap, fibers left none, or no room, in   *)
(* the parent.                                                                *)
LeftInv ==
  /\ \A w \in Worker : pc[w] = "map" /\ moving[w] < Half => left[w] = 0
  /\ \A w \in Worker : pc[w] = "unmap" /\ moving[w] < Half => left[w] = ParentCapacity

(* How far a pool can be from the half it had after its last batch, unless    *)
(* that is not complete.                                                      *)
DriftInv ==
  stage = NULL => \A w \in Worker : pc[w] \notin {"map", "unmap"} /\ since[w] < Half =>
    /\ Half - 1 <= Len(pool[w]) + since[w]
    /\ Len(pool[w]) <= Capacity - Half + 1 + since[w]

IInv == Typed /\ WithinCapacity /\ MovesInv /\ EdgeInv /\ LeftInv /\ DriftInv

-----------------------------------------------------------------------------
(* Half a pool, twice, is at most a pool.                                     *)
LEMMA HalfOfCapacity ==
  /\ Half \in Nat /\ Half > 0 /\ Capacity \in Nat /\ 2 * Half <= Capacity
  /\ Batch = Half /\ ParentCapacity \in Nat /\ NProc \in Nat
BY PoolAssumption DEF Half, BATCH_FRACTION, Batch

(* The two parts a stack is cut into.                                         *)
LEMMA CutStack ==
  ASSUME NEW S, NEW s \in Seq(S), NEW n \in 0..Len(s)
  PROVE  /\ Top(s, n) \in Seq(S) /\ Len(Top(s, n)) = n
         /\ Below(s, n) \in Seq(S) /\ Len(Below(s, n)) = Len(s) - n
<1>1. Len(s) \in Nat /\ \A i \in 1..Len(s) : s[i] \in S
  BY LenProperties, ElementOfSeq
<1>2. DEFINE t == SubSeq(s, Len(s) - n + 1, Len(s))
<1>3. t \in Seq(S) /\ Len(t) = n
  <2>1. Len(s) - n + 1 \in Int /\ \A i \in Len(s) - n + 1 .. Len(s) : s[i] \in S
    BY <1>1
  <2>2. t \in Seq(S) /\ Len(t) = IF Len(s) - n + 1 <= Len(s) THEN Len(s) - (Len(s) - n + 1) + 1 ELSE 0
    BY <1>1, <2>1, SubSeqProperties
  <2>. QED  BY <1>1, <2>2
<1>4. Reverse(t) \in Seq(S) /\ Len(Reverse(t)) = n
  <2>1. \A i \in 1..n : t[(n - i) + 1] \in S
    <3>. SUFFICES ASSUME NEW i \in 1..n  PROVE t[(n - i) + 1] \in S
      OBVIOUS
    <3>1. (n - i) + 1 \in 1..Len(t)
      BY <1>3
    <3>. QED  BY <1>3, <3>1, ElementOfSeq
  <2>2. Reverse(t) = [i \in 1..n |-> t[(n - i) + 1]]
    BY <1>3 DEF Reverse
  <2>3. n \in Nat /\ [i \in 1..n |-> t[(n - i) + 1]] \in [1..n -> S]
    BY <1>1, <2>1
  <2>. HIDE DEF t
  <2>. QED  BY <2>2, <2>3, IsASeq, LenProperties
<1>5. /\ Below(s, n) \in Seq(S)
      /\ Len(Below(s, n)) = IF 1 <= Len(s) - n THEN (Len(s) - n) - 1 + 1 ELSE 0
  <2>1. Len(s) - n \in Int /\ \A i \in 1 .. Len(s) - n : s[i] \in S
    BY <1>1
  <2>. QED  BY <2>1, SubSeqProperties DEF Below
<1>. QED  BY <1>1, <1>4, <1>5 DEF Top

(* A fiber is taken from the top, and put there.                              *)
LEMMA PopPush ==
  ASSUME NEW S, NEW s \in Seq(S)
  PROVE  /\ s # <<>> => Last(s) \in S /\ Popped(s) \in Seq(S) /\ Len(Popped(s)) = Len(s) - 1
         /\ \A x \in S : Append(s, x) \in Seq(S) /\ Len(Append(s, x)) = Len(s) + 1
BY PushFacts, PopFacts DEF Popped

(* What the system supplies is a fiber that nobody has.                       *)
LEMMA Supplied == CanSupply => FromSystem \in Fiber /\ FromSystem \notin mapped
BY DEF CanSupply, FromSystem

(* The fibers every worker starts with: no two have one in common.            *)
LEMMA FirstSupplied ==
  /\ \A w \in Worker, i \in 1..Half : FirstFibers[<<w, i>>] \in Fiber
  /\ \A v, w \in Worker : \A i, j \in 1..Half :
       FirstFibers[<<v, i>>] = FirstFibers[<<w, j>>] => v = w /\ i = j
<1>1. FirstFibers \in Injection(Worker \X (1..Half), Fiber)
  BY SupplyAssumption DEF ExistsInjection, FirstFibers
<1>2. FirstFibers \in [Worker \X (1..Half) -> Fiber] /\ IsInjective(FirstFibers)
  BY <1>1 DEF Injection
<1>3. \A w \in Worker, i \in 1..Half : <<w, i>> \in DOMAIN FirstFibers
  BY <1>2
<1>. QED  BY <1>2, <1>3 DEF IsInjective

-----------------------------------------------------------------------------
LEMMA InitEstablishes == Init => IInv
<1>. SUFFICES ASSUME Init  PROVE IInv
  OBVIOUS
<1>. USE HalfOfCapacity, PoolAssumption
<1>1. \A w \in Worker : pool[w] \in Seq(Fiber) /\ Len(pool[w]) = Half
  <2>. SUFFICES ASSUME NEW w \in Worker  PROVE pool[w] \in Seq(Fiber) /\ Len(pool[w]) = Half
    OBVIOUS
  <2>1. pool[w] = [i \in 1..Half |-> FirstFibers[<<w, i>>]]
    BY DEF Init
  <2>2. pool[w] \in [1..Half -> Fiber]
    BY <2>1, FirstSupplied
  <2>. QED  BY <2>1, <2>2, IsASeq, LenProperties
<1>2. pool \in [Worker -> Seq(Fiber)] /\ parent = <<>>
  BY <1>1 DEF Init
<1>3. parent \in Seq(Fiber) /\ Len(parent) = 0
  BY <1>2, EmptySeq
<1>4. Typed
  BY <1>2, <1>3 DEF Init, Typed, PC
<1>5. WithinCapacity
  BY <1>1, <1>3 DEF WithinCapacity
<1>6. MovesInv /\ EdgeInv /\ LeftInv
  <2>1. \A w \in Worker : pc[w] = "run" /\ lock # w /\ stage = NULL
    BY DEF Init, Worker
  <2>. QED  BY <2>1 DEF MovesInv, EdgeInv, LeftInv
<1>7. DriftInv
  BY DEF Init, DriftInv
<1>. QED  BY <1>4, <1>5, <1>6, <1>7 DEF IInv

(* Operations on a worker's own pool.                                         *)
LEMMA AllocatePreserves ==
  ASSUME IInv, NEW w \in Worker, Allocate(w)  PROVE IInv'
<1>. USE HalfOfCapacity, PoolAssumption
<1>1. pool[w] \in Seq(Fiber) /\ pool[w] # <<>> /\ pc[w] = "run" /\ stage = NULL
  BY DEF IInv, Typed, Allocate, Running
<1>2. /\ Popped(pool[w]) \in Seq(Fiber) /\ Len(Popped(pool[w])) = Len(pool[w]) - 1
      /\ Len(pool[w]) \in Nat
  BY <1>1, PopPush, LenProperties
<1>3. pool' = [pool EXCEPT ![w] = Popped(pool[w])]
  BY DEF Allocate
<1>4. since' = [since EXCEPT ![w] = Smaller(since[w] + 1, Half)]
  BY DEF Allocate, Count
<1>5. Typed'
  <2>1. since' \in [Worker -> 0..Half]
    BY <1>4 DEF IInv, Typed, Smaller
  <2>2. pool' \in [Worker -> Seq(Fiber)]
    BY <1>2, <1>3 DEF IInv, Typed
  <2>3. UNCHANGED <<parent, lock, pc, surplus, moving, left, stage>>
    BY DEF Allocate
  <2>. QED  BY <2>1, <2>2, <2>3 DEF IInv, Typed
<1>6. WithinCapacity'
  BY <1>2, <1>3 DEF IInv, Typed, WithinCapacity, Allocate
<1>7. MovesInv' /\ EdgeInv' /\ LeftInv'
  BY <1>1, <1>3 DEF IInv, Typed, MovesInv, EdgeInv, LeftInv, Allocate
<1>8. DriftInv'
  <2>. SUFFICES ASSUME NEW v \in Worker, pc'[v] \notin {"map", "unmap"}, since'[v] < Half
                PROVE  /\ Half - 1 <= Len(pool'[v]) + since'[v]
                       /\ Len(pool'[v]) <= Capacity - Half + 1 + since'[v]
    BY DEF DriftInv
  <2>1. /\ since[v] < Half => /\ Half - 1 <= Len(pool[v]) + since[v]
                              /\ Len(pool[v]) <= Capacity - Half + 1 + since[v]
        /\ since[v] \in 0..Half
    <3>1. pc' = pc
      BY DEF Allocate
    <3>. QED  BY <1>1, <3>1 DEF IInv, Typed, DriftInv
  <2>2. CASE v = w
    <3>1. Len(pool'[w]) = Len(pool[w]) - 1
      BY <1>2, <1>3 DEF IInv, Typed
    <3>2. since'[w] = Smaller(since[w] + 1, Half)
      BY <1>4 DEF IInv, Typed
    <3>3. since'[w] < Half
      BY <2>2
    <3>4. since[w] < Half /\ since'[w] = since[w] + 1 /\ since[w] \in 0..Half
      BY <2>1, <2>2, <3>2, <3>3 DEF Smaller
    <3>5. /\ Half - 1 <= Len(pool[w]) + since[w]
          /\ Len(pool[w]) <= Capacity - Half + 1 + since[w]
      BY <2>1, <2>2, <3>4
    <3>6. \A m, k, j \in Nat :
            /\ j = k + 1 /\ Half - 1 <= m + k /\ m <= Capacity - Half + 1 + k
            => /\ Half - 1 <= (m - 1) + j
               /\ (m - 1) <= Capacity - Half + 1 + j
      OBVIOUS
    <3>7. Len(pool[w]) \in Nat /\ since[w] \in Nat /\ since'[w] \in Nat
      BY <1>2, <3>4
    <3>8. /\ Half - 1 <= Len(pool'[w]) + since'[w]
          /\ Len(pool'[w]) <= Capacity - Half + 1 + since'[w]
      BY <3>1, <3>4, <3>5, <3>6, <3>7, Zenon
    <3>. QED  BY <2>2, <3>8
  <2>3. CASE v # w
    <3>1. pool'[v] = pool[v] /\ since'[v] = since[v]
      BY <1>3, <1>4, <2>3 DEF IInv, Typed
    <3>. QED  BY <2>1, <3>1
  <2>. QED  BY <2>2, <2>3
<1>. QED  BY <1>5, <1>6, <1>7, <1>8 DEF IInv

LEMMA DeallocatePreserves ==
  ASSUME IInv, NEW w \in Worker, NEW x \in Fiber, Deallocate(w, x)  PROVE IInv'
<1>. USE HalfOfCapacity, PoolAssumption
<1>1. pool[w] \in Seq(Fiber) /\ Len(pool[w]) # Capacity /\ pc[w] = "run" /\ stage = NULL
  BY DEF IInv, Typed, Deallocate, Running
<1>2. /\ Append(pool[w], x) \in Seq(Fiber) /\ Len(Append(pool[w], x)) = Len(pool[w]) + 1
      /\ Len(pool[w]) \in Nat
  BY <1>1, PopPush, LenProperties
<1>3. pool' = [pool EXCEPT ![w] = Append(pool[w], x)]
  BY DEF Deallocate
<1>4. since' = [since EXCEPT ![w] = Smaller(since[w] + 1, Half)]
  BY DEF Deallocate, Count
<1>5. Typed'
  <2>1. since' \in [Worker -> 0..Half]
    BY <1>4 DEF IInv, Typed, Smaller
  <2>2. pool' \in [Worker -> Seq(Fiber)]
    BY <1>2, <1>3 DEF IInv, Typed
  <2>3. UNCHANGED <<parent, lock, pc, surplus, moving, left, stage>>
    BY DEF Deallocate
  <2>. QED  BY <2>1, <2>2, <2>3 DEF IInv, Typed
<1>6. WithinCapacity'
  BY <1>1, <1>2, <1>3 DEF IInv, Typed, WithinCapacity, Deallocate
<1>7. MovesInv' /\ EdgeInv' /\ LeftInv'
  BY <1>1, <1>3 DEF IInv, Typed, MovesInv, EdgeInv, LeftInv, Deallocate
<1>8. DriftInv'
  <2>. SUFFICES ASSUME NEW v \in Worker, pc'[v] \notin {"map", "unmap"}, since'[v] < Half
                PROVE  /\ Half - 1 <= Len(pool'[v]) + since'[v]
                       /\ Len(pool'[v]) <= Capacity - Half + 1 + since'[v]
    BY DEF DriftInv
  <2>1. /\ since[v] < Half => /\ Half - 1 <= Len(pool[v]) + since[v]
                              /\ Len(pool[v]) <= Capacity - Half + 1 + since[v]
        /\ since[v] \in 0..Half
    <3>1. pc' = pc
      BY DEF Deallocate
    <3>. QED  BY <1>1, <3>1 DEF IInv, Typed, DriftInv
  <2>2. CASE v = w
    <3>1. Len(pool'[w]) = Len(pool[w]) + 1
      BY <1>2, <1>3 DEF IInv, Typed
    <3>2. since'[w] = Smaller(since[w] + 1, Half)
      BY <1>4 DEF IInv, Typed
    <3>3. since'[w] < Half
      BY <2>2
    <3>4. since[w] < Half /\ since'[w] = since[w] + 1 /\ since[w] \in 0..Half
      BY <2>1, <2>2, <3>2, <3>3 DEF Smaller
    <3>5. /\ Half - 1 <= Len(pool[w]) + since[w]
          /\ Len(pool[w]) <= Capacity - Half + 1 + since[w]
      BY <2>1, <2>2, <3>4
    <3>6. \A m, k, j \in Nat :
            /\ j = k + 1 /\ Half - 1 <= m + k /\ m <= Capacity - Half + 1 + k
            => /\ Half - 1 <= (m + 1) + j
               /\ (m + 1) <= Capacity - Half + 1 + j
      OBVIOUS
    <3>7. Len(pool[w]) \in Nat /\ since[w] \in Nat /\ since'[w] \in Nat
      BY <1>2, <3>4
    <3>8. /\ Half - 1 <= Len(pool'[w]) + since'[w]
          /\ Len(pool'[w]) <= Capacity - Half + 1 + since'[w]
      BY <3>1, <3>4, <3>5, <3>6, <3>7, Zenon
    <3>. QED  BY <2>2, <3>8
  <2>3. CASE v # w
    <3>1. pool'[v] = pool[v] /\ since'[v] = since[v]
      BY <1>3, <1>4, <2>3 DEF IInv, Typed
    <3>. QED  BY <2>1, <3>1
  <2>. QED  BY <2>2, <2>3
<1>. QED  BY <1>5, <1>6, <1>7, <1>8 DEF IInv

(* A batch is begun: the pool stays as it is.                                 *)
LEMMA FindPreserves ==
  ASSUME IInv, NEW w \in Worker,
         FindEmpty(w) \/ \E x \in Fiber : FindFull(w, x)
  PROVE  IInv'
<1>. USE HalfOfCapacity, PoolAssumption
<1>1. CASE FindEmpty(w)
  BY <1>1 DEF IInv, Typed, WithinCapacity, MovesInv, EdgeInv, LeftInv, DriftInv, FindEmpty, Running, Goto, PC, history
<1>2. CASE \E x \in Fiber : FindFull(w, x)
  <2>1. PICK x \in Fiber : FindFull(w, x)
    BY <1>2
  <2>. QED  BY <2>1 DEF IInv, Typed, WithinCapacity, MovesInv, EdgeInv, LeftInv, DriftInv, FindFull,
               Running, Goto, PC, history
<1>. QED  BY <1>1, <1>2

(* How many fibers to move is decided under the lock.                         *)
LEMMA StartPreserves ==
  ASSUME IInv, NEW w \in Worker, StartRefill(w) \/ StartDrain(w)
  PROVE  IInv'
<1>. USE HalfOfCapacity, PoolAssumption
<1>1. Len(parent) \in Nat /\ Len(parent) <= ParentCapacity /\ lock = NULL /\ NULL \notin Worker
  BY LenProperties DEF IInv, Typed, WithinCapacity, StartRefill, StartDrain, LockParent, Worker
<1>2. FromParent \in 0..Half /\ ToParent \in 0..Half
  BY <1>1 DEF FromParent, ToParent, Smaller
<1>3. CASE StartRefill(w)
  BY <1>1, <1>2, <1>3 DEF IInv, Typed, WithinCapacity, MovesInv, EdgeInv, LeftInv, DriftInv, StartRefill,
     LockParent, Goto, PC, history, FromParent
<1>4. CASE StartDrain(w)
  BY <1>1, <1>2, <1>4 DEF IInv, Typed, WithinCapacity, MovesInv, EdgeInv, LeftInv, DriftInv, StartDrain,
     LockParent, Goto, PC, history, ToParent
<1>. QED  BY <1>3, <1>4

(* One worker acts: the invariants about each worker hold of the others.      *)
LEMMA OthersKept ==
  ASSUME IInv, NEW w \in Worker, stage = NULL, stage' = NULL,
         \A v \in Worker : v # w => /\ pool'[v] = pool[v] /\ pc'[v] = pc[v] /\ moving'[v] = moving[v]
                                   /\ since'[v] = since[v] /\ left'[v] = left[v],
         pc'[w] \in {"map", "unmap", "run"},
         pc'[w] = "map" => /\ Len(pool'[w]) = moving'[w]
                           /\ (moving'[w] < Half => left'[w] = 0),
         pc'[w] = "unmap" => /\ Len(pool'[w]) = Capacity - moving'[w]
                             /\ (moving'[w] < Half => left'[w] = ParentCapacity),
         pc'[w] = "run" => /\ Half - 1 <= Len(pool'[w]) + since'[w]
                           /\ Len(pool'[w]) <= Capacity - Half + 1 + since'[w]
  PROVE  EdgeInv' /\ LeftInv' /\ DriftInv'
<1>1. EdgeInv'
  <2>. SUFFICES ASSUME NEW v \in Worker
                PROVE  /\ pc'[v] \in {"refill", "take"} => pool'[v] = <<>>
                       /\ pc'[v] = "map" => Len(pool'[v]) = moving'[v]
                       /\ pc'[v] \in {"drain", "give"} => Len(pool'[v]) = Capacity
                       /\ pc'[v] = "unmap" => Len(pool'[v]) = Capacity - moving'[v]
    BY DEF EdgeInv
  <2>1. CASE v = w
    BY <2>1
  <2>2. CASE v # w
    BY <2>2 DEF IInv, EdgeInv
  <2>. QED  BY <2>1, <2>2
<1>2. LeftInv'
  <2>. SUFFICES ASSUME NEW v \in Worker
                PROVE  /\ pc'[v] = "map" /\ moving'[v] < Half => left'[v] = 0
                       /\ pc'[v] = "unmap" /\ moving'[v] < Half => left'[v] = ParentCapacity
    BY DEF LeftInv
  <2>1. CASE v = w
    BY <2>1
  <2>2. CASE v # w
    BY <2>2 DEF IInv, LeftInv
  <2>. QED  BY <2>1, <2>2
<1>3. DriftInv'
  <2>. SUFFICES ASSUME NEW v \in Worker, pc'[v] \notin {"map", "unmap"}, since'[v] < Half
                PROVE  /\ Half - 1 <= Len(pool'[v]) + since'[v]
                       /\ Len(pool'[v]) <= Capacity - Half + 1 + since'[v]
    BY DEF DriftInv
  <2>1. CASE v = w
    BY <2>1
  <2>2. CASE v # w
    BY <2>2 DEF IInv, DriftInv
  <2>. QED  BY <2>1, <2>2
<1>. QED  BY <1>1, <1>2, <1>3

(* The holder of the lock gives it back: nobody is between deciding and       *)
(* moving.                                                                    *)
LEMMA Unlocks ==
  ASSUME IInv, NEW w \in Worker, lock = w, lock' = NULL, pc'[w] \notin {"take", "give"},
         \A v \in Worker : v # w => pc'[v] = pc[v]
  PROVE  MovesInv'
<1>1. \A v \in Worker : pc'[v] \notin {"take", "give"} /\ lock' # v
  BY PoolAssumption DEF IInv, MovesInv, Worker
<1>. QED  BY <1>1 DEF MovesInv

(* The fibers are moved, as many from the parent as was decided.              *)
LEMMA RefillPreserves ==
  ASSUME IInv, NEW w \in Worker, Refill(w)  PROVE IInv'
<1>. USE HalfOfCapacity, PoolAssumption
<1>. DEFINE n == moving[w]
<1>1. /\ pc[w] = "take" /\ lock = w /\ stage = NULL /\ pool[w] = <<>>
      /\ n = Smaller(Len(parent), Half)
      /\ parent \in Seq(Fiber) /\ Len(parent) \in Nat /\ Len(parent) <= ParentCapacity
  BY LenProperties DEF IInv, Typed, WithinCapacity, MovesInv, EdgeInv, Refill
<1>2. n \in 0..Len(parent) /\ n \in 0..Half /\ (n < Half => n = Len(parent))
  BY <1>1 DEF Smaller
<1>3. /\ Top(parent, n) \in Seq(Fiber) /\ Len(Top(parent, n)) = n
      /\ Below(parent, n) \in Seq(Fiber) /\ Len(Below(parent, n)) = Len(parent) - n
  BY <1>1, <1>2, CutStack
<1>4. pool[w] \o Top(parent, n) = Top(parent, n)
  BY <1>1, <1>3, ConcatEmptySeq
<1>5. /\ parent' = Below(parent, n) /\ lock' = NULL
      /\ pool' = [pool EXCEPT ![w] = Top(parent, n)]
      /\ left' = [left EXCEPT ![w] = Len(parent')]
      /\ pc' = [pc EXCEPT ![w] = "map"]
      /\ UNCHANGED <<surplus, moving, since, stage>>
  BY <1>4 DEF Refill, UnlockParent, Goto
<1>. HIDE DEF n
<1>6. /\ pool'[w] = Top(parent, n) /\ pc'[w] = "map" /\ left'[w] = Len(parent) - n
      /\ \A v \in Worker : v # w => /\ pool'[v] = pool[v] /\ pc'[v] = pc[v] /\ moving'[v] = moving[v]
                                   /\ since'[v] = since[v] /\ left'[v] = left[v]
  BY <1>3, <1>5 DEF IInv, Typed
<1>7. Typed'
  <2>1. Len(parent') \in Nat
    BY <1>1, <1>2, <1>3, <1>5
  <2>. QED  BY <1>3, <1>5, <2>1 DEF IInv, Typed, PC
<1>8. WithinCapacity'
  <2>1. Len(parent') <= ParentCapacity
    BY <1>1, <1>2, <1>3, <1>5
  <2>2. n <= Capacity
    BY <1>2
  <2>. QED  BY <1>3, <1>6, <2>1, <2>2 DEF IInv, WithinCapacity
<1>9. MovesInv'
  BY <1>1, <1>5, <1>6, Unlocks
<1>10. EdgeInv' /\ LeftInv' /\ DriftInv'
  <2>1. Len(pool'[w]) = moving'[w] /\ (moving'[w] < Half => left'[w] = 0)
    BY <1>1, <1>2, <1>3, <1>5, <1>6 DEF n
  <2>. QED  BY <1>1, <1>5, <1>6, <2>1, OthersKept
<1>. QED  BY <1>7, <1>8, <1>9, <1>10 DEF IInv

(* One by one the missing fibers are mapped; one is handed out at the end.    *)
LEMMA MapPreserves ==
  ASSUME IInv, NEW w \in Worker, MapFiber(w)  PROVE IInv'
<1>. USE HalfOfCapacity, PoolAssumption
<1>. DEFINE x == FromSystem
<1>1. /\ pc[w] = "map" /\ stage = NULL /\ moving[w] \in 0..Half /\ moving[w] < Half
      /\ pool[w] \in Seq(Fiber) /\ Len(pool[w]) = moving[w] /\ x \in Fiber
      /\ left[w] = 0
  BY Supplied DEF IInv, Typed, EdgeInv, LeftInv, MapFiber
<1>2. /\ pool' = [pool EXCEPT ![w] = Append(@, x)]
      /\ moving' = [moving EXCEPT ![w] = @ + 1]
      /\ UNCHANGED <<parent, lock, pc, surplus, since, left, stage>>
  BY DEF MapFiber, history
<1>. HIDE DEF x
<1>3. Append(pool[w], x) \in Seq(Fiber) /\ Len(Append(pool[w], x)) = moving[w] + 1
  BY <1>1, PopPush
<1>4. /\ pool'[w] = Append(pool[w], x) /\ moving'[w] = moving[w] + 1
      /\ \A v \in Worker : v # w => pool'[v] = pool[v] /\ moving'[v] = moving[v]
  BY <1>2 DEF IInv, Typed
<1>5. Typed'
  <2>1. moving' \in [Worker -> 0..Half]
    BY <1>1, <1>2 DEF IInv, Typed
  <2>. QED  BY <1>2, <1>3, <2>1 DEF IInv, Typed
<1>6. WithinCapacity'
  <2>1. Len(pool'[w]) <= Capacity
    BY <1>1, <1>3, <1>4
  <2>. QED  BY <1>2, <1>4, <2>1 DEF IInv, WithinCapacity
<1>7. MovesInv'
  BY <1>1, <1>2, <1>4 DEF IInv, MovesInv
<1>8. EdgeInv' /\ LeftInv' /\ DriftInv'
  BY <1>1, <1>2, <1>3, <1>4, OthersKept
<1>. QED  BY <1>5, <1>6, <1>7, <1>8 DEF IInv

LEMMA FinishAllocatePreserves ==
  ASSUME IInv, NEW w \in Worker, FinishAllocate(w)  PROVE IInv'
<1>. USE HalfOfCapacity, PoolAssumption
<1>1. /\ pc[w] = "map" /\ stage = NULL
      /\ pool[w] \in Seq(Fiber) /\ Len(pool[w]) = Half
  BY DEF IInv, Typed, EdgeInv, FinishAllocate, BatchDone
<1>2. /\ pool' = [pool EXCEPT ![w] = Popped(@)]
      /\ since' = [since EXCEPT ![w] = 0] /\ left' = [left EXCEPT ![w] = NULL]
      /\ pc' = [pc EXCEPT ![w] = "run"]
      /\ UNCHANGED <<parent, lock, surplus, moving, stage>>
  BY DEF FinishAllocate, BatchDone, Goto
<1>3. Popped(pool[w]) \in Seq(Fiber) /\ Len(Popped(pool[w])) = Half - 1
  <2>1. pool[w] # <<>>
    BY <1>1, EmptySeq
  <2>. QED  BY <1>1, <2>1, PopPush
<1>4. /\ pool'[w] = Popped(pool[w]) /\ pc'[w] = "run" /\ since'[w] = 0
      /\ \A v \in Worker : v # w => /\ pool'[v] = pool[v] /\ pc'[v] = pc[v] /\ moving'[v] = moving[v]
                                   /\ since'[v] = since[v] /\ left'[v] = left[v]
  BY <1>2 DEF IInv, Typed
<1>5. Typed'
  BY <1>2, <1>3 DEF IInv, Typed, PC
<1>6. WithinCapacity'
  <2>1. Len(pool'[w]) <= Capacity
    BY <1>3, <1>4
  <2>. QED  BY <1>2, <1>4, <2>1 DEF IInv, WithinCapacity
<1>7. MovesInv'
  BY <1>1, <1>2, <1>4 DEF IInv, MovesInv
<1>8. EdgeInv' /\ LeftInv' /\ DriftInv'
  <2>1. Half - 1 <= (Half - 1) + 0 /\ Half - 1 <= Capacity - Half + 1 + 0
    OBVIOUS
  <2>. QED  BY <1>1, <1>2, <1>3, <1>4, <2>1, OthersKept
<1>. QED  BY <1>5, <1>6, <1>7, <1>8 DEF IInv

(* Of half a full pool as many go to the parent as was decided.               *)
LEMMA DrainPreserves ==
  ASSUME IInv, NEW w \in Worker, Drain(w)  PROVE IInv'
<1>. USE HalfOfCapacity, PoolAssumption
<1>. DEFINE n == moving[w]
            t == Top(pool[w], n)
<1>1. /\ pc[w] = "give" /\ lock = w /\ stage = NULL
      /\ pool[w] \in Seq(Fiber) /\ Len(pool[w]) = Capacity /\ surplus[w] \in Fiber
      /\ n = Smaller(Half, ParentCapacity - Len(parent))
      /\ parent \in Seq(Fiber) /\ Len(parent) \in Nat /\ Len(parent) <= ParentCapacity
  BY LenProperties DEF IInv, Typed, WithinCapacity, MovesInv, EdgeInv, Drain
<1>2. /\ n \in 0..Half /\ n <= ParentCapacity - Len(parent) /\ n \in 0..Len(pool[w])
      /\ (n < Half => Len(parent) + n = ParentCapacity)
  BY <1>1 DEF Smaller
<1>3. /\ t \in Seq(Fiber) /\ Len(t) = n
      /\ Below(pool[w], n) \in Seq(Fiber) /\ Len(Below(pool[w], n)) = Capacity - n
  <2>1. pool[w] \in Seq(Fiber) /\ n \in 0..Len(pool[w]) /\ Len(pool[w]) = Capacity
    BY <1>1, <1>2
  <2>. HIDE DEF n
  <2>2. /\ Top(pool[w], n) \in Seq(Fiber) /\ Len(Top(pool[w], n)) = n
        /\ Below(pool[w], n) \in Seq(Fiber) /\ Len(Below(pool[w], n)) = Len(pool[w]) - n
    BY ONLY <2>1, CutStack
  <2>. QED  BY ONLY <2>1, <2>2 DEF t
<1>4. /\ parent' = parent \o t /\ lock' = NULL
      /\ pool' = [pool EXCEPT ![w] = Below(@, n)]
      /\ left' = [left EXCEPT ![w] = Len(parent')]
      /\ pc' = [pc EXCEPT ![w] = "unmap"]
      /\ UNCHANGED <<surplus, moving, since, stage>>
  BY DEF Drain, UnlockParent, Goto
<1>. HIDE DEF n, t
<1>5. parent' \in Seq(Fiber) /\ Len(parent') = Len(parent) + n
  <2>1. parent \o t \in Seq(Fiber) /\ Len(parent \o t) = Len(parent) + Len(t)
    BY <1>1, <1>3, JoinRange
  <2>. QED  BY <1>3, <1>4, <2>1
<1>6. /\ pool'[w] = Below(pool[w], n) /\ pc'[w] = "unmap" /\ left'[w] = Len(parent) + n
      /\ \A v \in Worker : v # w => /\ pool'[v] = pool[v] /\ pc'[v] = pc[v] /\ moving'[v] = moving[v]
                                   /\ since'[v] = since[v] /\ left'[v] = left[v]
  BY <1>4, <1>5 DEF IInv, Typed
<1>7. Typed'
  <2>1. Len(parent') \in Nat
    BY <1>1, <1>2, <1>5
  <2>2. \A v \in Worker : pc'[v] \in {"drain", "give", "unmap"} => surplus'[v] \in Fiber
    BY <1>1, <1>4, <1>6 DEF IInv, Typed
  <2>. QED  BY <1>3, <1>4, <1>5, <2>1, <2>2 DEF IInv, Typed, PC
<1>8. WithinCapacity'
  <2>1. Len(parent') <= ParentCapacity
    BY <1>1, <1>2, <1>5
  <2>2. Capacity - n <= Capacity
    BY <1>2
  <2>. QED  BY <1>3, <1>6, <2>1, <2>2 DEF IInv, WithinCapacity
<1>9. MovesInv'
  BY <1>1, <1>4, <1>6, Unlocks
<1>10. EdgeInv' /\ LeftInv' /\ DriftInv'
  <2>1. Len(pool'[w]) = Capacity - moving'[w] /\ (moving'[w] < Half => left'[w] = ParentCapacity)
    BY <1>2, <1>3, <1>4, <1>6 DEF n
  <2>. QED  BY <1>1, <1>4, <1>6, <2>1, OthersKept
<1>. QED  BY <1>7, <1>8, <1>9, <1>10 DEF IInv

(* One by one the rest is unmapped; what began the batch is put into the      *)
(* other half at the end.                                                     *)
LEMMA UnmapPreserves ==
  ASSUME IInv, NEW w \in Worker, UnmapFiber(w)  PROVE IInv'
<1>. USE HalfOfCapacity, PoolAssumption
<1>1. /\ pc[w] = "unmap" /\ stage = NULL /\ moving[w] \in 0..Half /\ moving[w] < Half
      /\ pool[w] \in Seq(Fiber) /\ Len(pool[w]) = Capacity - moving[w]
      /\ left[w] = ParentCapacity
  BY DEF IInv, Typed, EdgeInv, LeftInv, UnmapFiber
<1>2. /\ pool' = [pool EXCEPT ![w] = Popped(@)]
      /\ moving' = [moving EXCEPT ![w] = @ + 1]
      /\ UNCHANGED <<parent, lock, pc, surplus, since, left, stage>>
  BY DEF UnmapFiber, history
<1>3. Popped(pool[w]) \in Seq(Fiber) /\ Len(Popped(pool[w])) = Capacity - (moving[w] + 1)
  <2>1. pool[w] # <<>>
    BY <1>1, EmptySeq
  <2>2. Popped(pool[w]) \in Seq(Fiber) /\ Len(Popped(pool[w])) = Len(pool[w]) - 1
    BY <1>1, <2>1, PopPush
  <2>. QED  BY <1>1, <2>2
<1>4. /\ pool'[w] = Popped(pool[w]) /\ moving'[w] = moving[w] + 1
      /\ \A v \in Worker : v # w => pool'[v] = pool[v] /\ moving'[v] = moving[v]
  BY <1>2 DEF IInv, Typed
<1>5. Typed'
  <2>1. moving' \in [Worker -> 0..Half]
    BY <1>1, <1>2 DEF IInv, Typed
  <2>. QED  BY <1>2, <1>3, <2>1 DEF IInv, Typed
<1>6. WithinCapacity'
  <2>1. Len(pool'[w]) <= Capacity
    BY <1>1, <1>3, <1>4
  <2>. QED  BY <1>2, <1>4, <2>1 DEF IInv, WithinCapacity
<1>7. MovesInv'
  BY <1>1, <1>2, <1>4 DEF IInv, MovesInv
<1>8. EdgeInv' /\ LeftInv' /\ DriftInv'
  BY <1>1, <1>2, <1>3, <1>4, OthersKept
<1>. QED  BY <1>5, <1>6, <1>7, <1>8 DEF IInv

LEMMA FinishDeallocatePreserves ==
  ASSUME IInv, NEW w \in Worker, FinishDeallocate(w)  PROVE IInv'
<1>. USE HalfOfCapacity, PoolAssumption
<1>1. /\ pc[w] = "unmap" /\ stage = NULL /\ surplus[w] \in Fiber
      /\ pool[w] \in Seq(Fiber) /\ Len(pool[w]) = Capacity - Half
  BY DEF IInv, Typed, EdgeInv, FinishDeallocate, BatchDone
<1>2. /\ pool' = [pool EXCEPT ![w] = Append(@, surplus[w])]
      /\ surplus' = [surplus EXCEPT ![w] = NULL]
      /\ since' = [since EXCEPT ![w] = 0] /\ left' = [left EXCEPT ![w] = NULL]
      /\ pc' = [pc EXCEPT ![w] = "run"]
      /\ UNCHANGED <<parent, lock, moving, stage>>
  BY DEF FinishDeallocate, BatchDone, Goto
<1>3. /\ Append(pool[w], surplus[w]) \in Seq(Fiber)
      /\ Len(Append(pool[w], surplus[w])) = Capacity - Half + 1
  BY <1>1, PopPush
<1>4. /\ pool'[w] = Append(pool[w], surplus[w]) /\ pc'[w] = "run" /\ since'[w] = 0
      /\ \A v \in Worker : v # w => /\ pool'[v] = pool[v] /\ pc'[v] = pc[v] /\ moving'[v] = moving[v]
                                   /\ since'[v] = since[v] /\ left'[v] = left[v]
                                   /\ surplus'[v] = surplus[v]
  BY <1>2 DEF IInv, Typed
<1>5. Typed'
  <2>1. \A v \in Worker : pc'[v] \in {"drain", "give", "unmap"} => surplus'[v] \in Fiber
    BY <1>4 DEF IInv, Typed
  <2>. QED  BY <1>2, <1>3, <2>1 DEF IInv, Typed, PC
<1>6. WithinCapacity'
  <2>1. Len(pool'[w]) <= Capacity
    BY <1>3, <1>4
  <2>. QED  BY <1>2, <1>4, <2>1 DEF IInv, WithinCapacity
<1>7. MovesInv'
  BY <1>1, <1>2, <1>4 DEF IInv, MovesInv
<1>8. EdgeInv' /\ LeftInv' /\ DriftInv'
  <2>1. Half - 1 <= (Capacity - Half + 1) + 0 /\ Capacity - Half + 1 <= Capacity - Half + 1 + 0
    OBVIOUS
  <2>. QED  BY <1>1, <1>2, <1>3, <1>4, <2>1, OthersKept
<1>. QED  BY <1>5, <1>6, <1>7, <1>8 DEF IInv

(* The end: no batch is under way.                                            *)
LEMMA EndPreserves ==
  ASSUME IInv, Join \/ \E w \in Worker : Destroy(w)  PROVE IInv'
<1>. USE HalfOfCapacity, PoolAssumption
<1>1. CASE Join
  BY <1>1 DEF IInv, Typed, WithinCapacity, MovesInv, EdgeInv, LeftInv, DriftInv, Join, history
<1>2. CASE \E w \in Worker : Destroy(w)
  <2>1. PICK w \in Worker : Destroy(w)
    BY <1>2
  <2>2. <<>> \in Seq(Fiber) /\ Len(<<>>) = 0
    BY EmptySeq
  <2>3. w \in 0..NProc - 1 /\ stage = w /\ stage' = w + 1 /\ stage # NULL /\ stage' # NULL
    BY <2>1 DEF Destroy, Worker
  <2>4. /\ pool' = [pool EXCEPT ![w] = <<>>]
        /\ parent' \in {parent, <<>>}
        /\ UNCHANGED <<lock, pc, surplus, moving, since, left>>
    BY <2>1 DEF Destroy, history
  <2>5. \A v \in Worker : pc[v] = "run" /\ pc'[v] = "run" /\ lock' # v
    <3>1. \A v \in Worker : pc[v] = "run"
      BY <2>3 DEF IInv, EdgeInv
    <3>2. \A v \in Worker : lock # v
      BY <3>1 DEF IInv, MovesInv
    <3>. QED  BY <2>4, <3>1, <3>2
  <2>6. Typed'
    <3>1. stage' \in 0..NProc \union {NULL}
      BY <2>3
    <3>2. pool' \in [Worker -> Seq(Fiber)]
      BY <2>2, <2>4 DEF IInv, Typed
    <3>3. parent' \in Seq(Fiber)
      BY <2>2, <2>4 DEF IInv, Typed
    <3>. QED  BY <2>4, <3>1, <3>2, <3>3 DEF IInv, Typed
  <2>7. WithinCapacity'
    BY <2>2, <2>4 DEF IInv, Typed, WithinCapacity
  <2>8. MovesInv' /\ EdgeInv' /\ LeftInv' /\ DriftInv'
    BY <2>3, <2>5 DEF MovesInv, EdgeInv, LeftInv, DriftInv
  <2>. QED  BY <2>6, <2>7, <2>8 DEF IInv
<1>. QED  BY <1>1, <1>2

-----------------------------------------------------------------------------
LEMMA NextPreserves == IInv /\ [Next]_vars => IInv'
<1>. SUFFICES ASSUME IInv, [Next]_vars  PROVE IInv'
  OBVIOUS
<1>1. ASSUME NEW w \in Worker, Allocate(w)  PROVE IInv'
  BY <1>1, AllocatePreserves
<1>2. ASSUME NEW w \in Worker, FindEmpty(w)  PROVE IInv'
  BY <1>2, FindPreserves
<1>3. ASSUME NEW w \in Worker, Work(w)  PROVE IInv'
  BY <1>3, StartPreserves, RefillPreserves, MapPreserves, FinishAllocatePreserves,
     DrainPreserves, UnmapPreserves, FinishDeallocatePreserves DEF Work
<1>4. ASSUME NEW w \in Worker, Destroy(w)  PROVE IInv'
  BY <1>4, EndPreserves
<1>5. ASSUME NEW w \in Worker, NEW x \in Fiber, Deallocate(w, x)  PROVE IInv'
  BY <1>5, DeallocatePreserves
<1>6. ASSUME NEW w \in Worker, NEW x \in Fiber, FindFull(w, x)  PROVE IInv'
  BY <1>6, FindPreserves
<1>7. CASE Join
  BY <1>7, EndPreserves
<1>8. CASE UNCHANGED vars
  BY <1>8 DEF vars, history, IInv, Typed, WithinCapacity, MovesInv, EdgeInv, LeftInv, DriftInv
<1>. QED  BY <1>1, <1>2, <1>3, <1>4, <1>5, <1>6, <1>7, <1>8 DEF Next, Terminated

LEMMA Invariance == Spec => []IInv
<1>. QED  BY InitEstablishes, NextPreserves, PTL DEF Spec

(* No array of a pool is ever too small, so that the growing of the global    *)
(* one, which no lock would protect from its other users, never happens.      *)
THEOREM PoolsWithinCapacity == Spec => []WithinCapacity
<1>1. IInv => WithinCapacity
  BY DEF IInv
<1>. QED  BY <1>1, Invariance, PTL

(* Between two batches a worker does at least half a pool of operations less  *)
(* one, whatever it and the others do.                                        *)
THEOREM BatchesHalfAPoolApart == Spec => BatchesApart
<1>1. ASSUME IInv, [Next]_vars, NEW w \in Worker, lock # w, lock' = w
      PROVE  since[w] >= Half - 1
  <2>1. pc[w] \in {"refill", "drain"} /\ stage = NULL
    <3>1. lock' # lock /\ lock' # NULL
      BY <1>1, PoolAssumption DEF Worker
    <3>2. ASSUME NEW v \in Worker, Work(v)  PROVE v = w /\ (StartRefill(w) \/ StartDrain(w))
      <4>1. ~ (MapFiber(v) \/ FinishAllocate(v) \/ UnmapFiber(v) \/ FinishDeallocate(v))
        BY <3>1 DEF MapFiber, FinishAllocate, UnmapFiber, FinishDeallocate
      <4>2. ~ (Refill(v) \/ Drain(v))
        BY <3>1 DEF Refill, Drain, UnlockParent
      <4>. QED  BY <1>1, <3>2, <4>1, <4>2 DEF Work, StartRefill, StartDrain, LockParent
    <3>3. \E v \in Worker : Work(v)
      BY <1>1, <3>1 DEF Next, vars, Allocate, FindEmpty, Deallocate, FindFull, Join, Destroy, Terminated
    <3>4. StartRefill(w) \/ StartDrain(w)
      BY <3>2, <3>3
    <3>. QED  BY <1>1, <3>4 DEF StartRefill, StartDrain, IInv, EdgeInv
  <2>2. Len(pool[w]) = 0 \/ Len(pool[w]) = Capacity
    BY <1>1, <2>1, EmptySeq DEF IInv, EdgeInv
  <2>3. since[w] \in 0..Half
    BY <1>1 DEF IInv, Typed
  <2>4. since[w] < Half => /\ Half - 1 <= Len(pool[w]) + since[w]
                          /\ Len(pool[w]) <= Capacity - Half + 1 + since[w]
    BY <1>1, <2>1 DEF IInv, DriftInv
  <2>. QED  BY <2>2, <2>3, <2>4, HalfOfCapacity
<1>2. IInv /\ [Next]_vars => [\A w \in Worker : lock # w /\ lock' = w => since[w] >= Half - 1]_vars
  BY <1>1
<1>. QED  BY <1>2, Invariance, PTL DEF Spec, BatchesApart, Apart

-----------------------------------------------------------------------------
(* Which fibers move.                                                         *)

(* What a worker has: its pool and the fiber it wants to put there.           *)
Own(w) == Range(pool[w]) \union ({surplus[w]} \ {NULL})

(* No stack holds a fiber twice.                                              *)
OnceEach ==
  /\ \A w \in Worker : IsInjective(pool[w]) /\ surplus[w] \notin Range(pool[w])
  /\ IsInjective(parent)

(* No two of the workers, the global pool and the scheduler have a fiber in   *)
(* common, and what they have is what is mapped.                              *)
OwnersInv ==
  /\ \A v, w \in Worker : v # w => Own(v) \intersect Own(w) = {}
  /\ \A w \in Worker : Own(w) \intersect Range(parent) = {} /\ Own(w) \intersect InUse = {}
  /\ InUse \intersect Range(parent) = {}
  /\ \A x : x \in mapped <=> \/ \E w \in Worker : x \in Own(w)
                            \/ x \in Range(parent) \/ x \in InUse

(* The scheduler has each fiber once or not at all; a worker has a fiber      *)
(* beside its pool only while it makes room for it.                           *)
HandsInv ==
  /\ users \in [Fiber -> {0, 1}]
  /\ \A w \in Worker : pc[w] \notin {"drain", "give", "unmap"} => surplus[w] = NULL

(* Deinitialisation has come so far.                                          *)
EndInv ==
  stage # NULL =>
    /\ InUse = {}
    /\ \A w \in Worker : w < stage => pool[w] = <<>> /\ parent = <<>>

PlacesInv == OnceEach /\ OwnersInv /\ HandsInv /\ EndInv
-----------------------------------------------------------------------------
(* What a batch cuts off the top of a stack, and what it leaves.              *)
LEMMA CutRange ==
  ASSUME NEW S, NEW s \in Seq(S), NEW n \in 0..Len(s), IsInjective(s)
  PROVE  /\ Range(s) = Range(Top(s, n)) \union Range(Below(s, n))
         /\ Range(Top(s, n)) \intersect Range(Below(s, n)) = {}
         /\ IsInjective(Top(s, n)) /\ IsInjective(Below(s, n))
<1>. DEFINE m == Len(s)
            t == Top(s, n)
            b == Below(s, n)
            u == SubSeq(s, m - n + 1, m)
<1>1. m \in Nat /\ DOMAIN s = 1..m /\ n \in Nat /\ n <= m /\ \A i \in 1..m : s[i] \in S
  BY LenProperties, ElementOfSeq
<1>2. /\ t \in Seq(S) /\ Len(t) = n /\ b \in Seq(S) /\ Len(b) = m - n
  BY CutStack
<1>3. DOMAIN t = 1..n /\ DOMAIN b = 1..m - n
  BY <1>2, LenProperties
<1>4. \A i \in 1..n : t[i] = s[m - i + 1]
  <2>1. m - n + 1 \in Int /\ m \in Int /\ \A i \in m - n + 1 .. m : s[i] \in S
    BY <1>1
  <2>2. /\ Len(u) = IF m - n + 1 <= m THEN m - (m - n + 1) + 1 ELSE 0
        /\ \A i \in 1 .. m - (m - n + 1) + 1 : u[i] = s[(m - n + 1) + i - 1]
    <3>. DEFINE a == m - n + 1
    <3>1. a \in Int /\ m \in Int /\ \A i \in a..m : s[i] \in S
      BY <2>1
    <3>. HIDE DEF a, m
    <3>2. /\ Len(SubSeq(s, a, m)) = IF a <= m THEN m - a + 1 ELSE 0
          /\ \A i \in 1 .. m - a + 1 : SubSeq(s, a, m)[i] = s[a + i - 1]
      BY <3>1, SubSeqProperties
    <3>. QED  BY <3>2 DEF a
  <2>3. Len(u) = n
    BY <1>1, <2>2
  <2>4. \A i \in 1..n : t[i] = u[(n - i) + 1]
    <3>. HIDE DEF u
    <3>1. Reverse(u) = [i \in 1..n |-> u[(n - i) + 1]]
      BY <2>3 DEF Reverse
    <3>2. t = Reverse(u)
      BY DEF Top, u
    <3>. QED  BY <3>1, <3>2
  <2>. HIDE DEF t, u
  <2>5. ASSUME NEW i \in 1..n  PROVE u[(n - i) + 1] = s[m - i + 1]
    <3>1. /\ (n - i) + 1 \in 1 .. m - (m - n + 1) + 1
          /\ (m - n + 1) + ((n - i) + 1) - 1 = m - i + 1
      BY <1>1
    <3>. QED  BY <2>2, <3>1
  <2>. QED  BY <2>4, <2>5
<1>5. \A i \in 1..m - n : b[i] = s[i]
  <2>1. m - n \in Int /\ 1 \in Int /\ \A i \in 1 .. m - n : s[i] \in S
    BY <1>1
  <2>2. \A i \in 1 .. (m - n) - 1 + 1 : b[i] = s[1 + i - 1]
    BY <2>1, SubSeqProperties DEF Below
  <2>. HIDE DEF b
  <2>. QED  BY <1>1, <2>2
<1>6. \A i, j \in 1..m : s[i] = s[j] => i = j
  BY <1>1 DEF IsInjective
<1>. HIDE DEF m, t, b, u
<1>7. \A i \in 1..n : m - i + 1 \in 1..m /\ m - i + 1 \notin 1..m - n
  BY <1>1
<1>8. \A i \in 1..m - n : i \in 1..m
  BY <1>1
<1>9. \A i \in 1..m : i \in 1..m - n \/ \E j \in 1..n : i = m - j + 1
  <2>. SUFFICES ASSUME NEW i \in 1..m, i \notin 1..m - n  PROVE \E j \in 1..n : i = m - j + 1
    OBVIOUS
  <2>1. m - i + 1 \in 1..n /\ i = m - (m - i + 1) + 1
    BY <1>1
  <2>. QED  BY <2>1
<1>10. Range(s) = Range(t) \union Range(b)
  <2>1. ASSUME NEW x \in Range(s)  PROVE  x \in Range(t) \/ x \in Range(b)
    <3>1. PICK i \in 1..m : x = s[i]
      BY <1>1 DEF Range
    <3>2. CASE i \in 1..m - n
      <4>1. x = b[i]
        BY <1>5, <3>1, <3>2
      <4>. QED  BY <1>3, <3>2, <4>1 DEF Range
    <3>3. CASE \E j \in 1..n : i = m - j + 1
      <4>1. PICK j \in 1..n : i = m - j + 1
        BY <3>3
      <4>2. x = t[j]
        BY <1>4, <3>1, <4>1
      <4>. QED  BY <1>3, <4>2 DEF Range
    <3>. QED  BY <1>9, <3>2, <3>3
  <2>2. ASSUME NEW x \in Range(t)  PROVE  x \in Range(s)
    <3>1. PICK j \in 1..n : x = t[j]
      BY <1>3 DEF Range
    <3>2. x = s[m - j + 1] /\ m - j + 1 \in 1..m
      BY <1>4, <1>7, <3>1
    <3>. QED  BY <1>1, <3>2 DEF Range
  <2>3. ASSUME NEW x \in Range(b)  PROVE  x \in Range(s)
    <3>1. PICK i \in 1..m - n : x = b[i]
      BY <1>3 DEF Range
    <3>2. x = s[i] /\ i \in 1..m
      BY <1>5, <1>8, <3>1
    <3>. QED  BY <1>1, <3>2 DEF Range
  <2>. QED  BY <2>1, <2>2, <2>3
<1>11. Range(t) \intersect Range(b) = {}
  <2>1. \A i \in 1..n, j \in 1..m - n : t[i] # b[j]
    BY <1>4, <1>5, <1>6, <1>7, <1>8
  <2>. QED  BY <1>3, <2>1 DEF Range
<1>12. IsInjective(b)
  BY <1>3, <1>5, <1>6, <1>8 DEF IsInjective
<1>13. IsInjective(t)
  <2>. SUFFICES ASSUME NEW i \in 1..n, NEW j \in 1..n, t[i] = t[j]  PROVE i = j
    BY <1>3 DEF IsInjective
  <2>1. m - i + 1 = m - j + 1
    BY <1>4, <1>6, <1>7
  <2>. QED  BY <1>1, <2>1
<1>. QED  BY <1>10, <1>11, <1>12, <1>13 DEF t, b

(* The fibers in use after one is handed out, and after one is given back.    *)
LEMMA HandOut ==
  ASSUME users \in [Fiber -> {0, 1}], NEW x \in Fiber, x \notin InUse,
         users' = [users EXCEPT ![x] = @ + 1]
  PROVE  users' \in [Fiber -> {0, 1}] /\ InUse' = InUse \union {x} /\ users[x] = 0 /\ users'[x] = 1
<1>1. users[x] = 0
  BY DEF InUse
<1>2. users' \in [Fiber -> {0, 1}] /\ users'[x] = 1 /\ \A y \in Fiber : y # x => users'[y] = users[y]
  BY <1>1
<1>3. \A y \in Fiber : users'[y] > 0 <=> users[y] > 0 \/ y = x
  BY <1>2
<1>. QED  BY <1>1, <1>2, <1>3 DEF InUse

LEMMA TakeBack ==
  ASSUME users \in [Fiber -> {0, 1}], NEW x \in InUse,
         users' = [users EXCEPT ![x] = @ - 1]
  PROVE  users' \in [Fiber -> {0, 1}] /\ InUse' = InUse \ {x} /\ users[x] = 1 /\ users'[x] = 0
<1>1. x \in Fiber /\ users[x] = 1
  BY DEF InUse
<1>2. users' \in [Fiber -> {0, 1}] /\ users'[x] = 0 /\ \A y \in Fiber : y # x => users'[y] = users[y]
  BY <1>1
<1>3. \A y \in Fiber : users'[y] > 0 <=> users[y] > 0 /\ y # x
  BY <1>2
<1>. QED  BY <1>1, <1>2, <1>3 DEF InUse

(* Fibers change hands between a worker, the global pool, the scheduler and   *)
(* the system; what the other workers have is their own.                      *)
LEMMA HandsChanged ==
  ASSUME OwnersInv, NEW w \in Worker,
         \A v \in Worker : v # w => Own(v)' = Own(v),
         Own(w)' \intersect Range(parent') = {}, Own(w)' \intersect InUse' = {},
         InUse' \intersect Range(parent') = {},
         \A x \in Own(w)' \union Range(parent') \union InUse' :
           x \in Own(w) \union Range(parent) \union InUse \/ x \notin mapped,
         \A x : x \in mapped' <=>
           \/ x \in Own(w)' \union Range(parent') \union InUse'
           \/ x \in mapped /\ x \notin Own(w) \union Range(parent) \union InUse
  PROVE  OwnersInv'
<1>1. \A x : x \in mapped <=> (\E v \in Worker : x \in Own(v)) \/ x \in Range(parent) \/ x \in InUse
  BY DEF OwnersInv
<1>2. \A v \in Worker : v # w =>
        /\ \A x \in Own(v) : x \in mapped /\ x \notin Own(w) /\ x \notin Range(parent) /\ x \notin InUse
  BY <1>1 DEF OwnersInv
<1>3. \A v \in Worker : v # w => Own(v) \intersect (Own(w)' \union Range(parent') \union InUse') = {}
  BY <1>2
<1>4. \A u, v \in Worker : u # v => Own(u)' \intersect Own(v)' = {}
  <2>. SUFFICES ASSUME NEW u \in Worker, NEW v \in Worker, u # v  PROVE Own(u)' \intersect Own(v)' = {}
    OBVIOUS
  <2>1. CASE u # w /\ v # w
    BY <2>1 DEF OwnersInv
  <2>2. CASE u = w
    BY <1>3, <2>2
  <2>3. CASE v = w
    BY <1>3, <2>3
  <2>. QED  BY <2>1, <2>2, <2>3
<1>5. \A v \in Worker : Own(v)' \intersect Range(parent') = {} /\ Own(v)' \intersect InUse' = {}
  BY <1>3
<1>6. \A x : x \in mapped' <=> (\E v \in Worker : x \in Own(v)') \/ x \in Range(parent') \/ x \in InUse'
  <2>1. ASSUME NEW x \in mapped'
        PROVE  (\E v \in Worker : x \in Own(v)') \/ x \in Range(parent') \/ x \in InUse'
    <3>1. CASE x \in Own(w)' \union Range(parent') \union InUse'
      BY <3>1
    <3>2. CASE x \in mapped /\ x \notin Own(w) \union Range(parent) \union InUse
      <4>1. PICK v \in Worker : x \in Own(v)
        BY <1>1, <3>2
      <4>. QED  BY <3>2, <4>1
    <3>. QED  BY <2>1, <3>1, <3>2
  <2>2. ASSUME NEW v \in Worker, NEW x \in Own(v)'  PROVE x \in mapped'
    <3>1. CASE v = w
      BY <2>2, <3>1
    <3>2. CASE v # w
      BY <1>2, <2>2, <3>2
    <3>. QED  BY <3>1, <3>2
  <2>3. \A x : x \in Range(parent') \/ x \in InUse' => x \in mapped'
    OBVIOUS
  <2>. QED  BY <2>1, <2>2, <2>3
<1>. QED  BY <1>4, <1>5, <1>6 DEF OwnersInv

(* What a worker has in the three cases that matter.                          *)
LEMMA OwnIs ==
  ASSUME NEW w \in Worker
  PROVE  /\ surplus[w] = NULL => Own(w) = Range(pool[w])
         /\ surplus[w] # NULL => Own(w) = Range(pool[w]) \union {surplus[w]}
         /\ surplus'[w] = NULL => Own(w)' = Range(pool'[w])
         /\ surplus'[w] # NULL => Own(w)' = Range(pool'[w]) \union {surplus'[w]}
         /\ surplus'[w] = surplus[w] /\ pool'[w] = pool[w] => Own(w)' = Own(w)
BY DEF Own
-----------------------------------------------------------------------------
LEMMA PlacesAtFirst == Init => PlacesInv
<1>. SUFFICES ASSUME Init  PROVE PlacesInv
  OBVIOUS
<1>. USE HalfOfCapacity, PoolAssumption
<1>1. /\ pool = [w \in Worker |-> [i \in 1..Half |-> FirstFibers[<<w, i>>]]]
      /\ parent = <<>> /\ users = [x \in Fiber |-> 0] /\ surplus = [w \in Worker |-> NULL]
      /\ mapped = UNION {Range(pool[w]) : w \in Worker} /\ stage = NULL
  BY DEF Init
<1>2. \A w \in Worker : /\ DOMAIN pool[w] = 1..Half
                        /\ \A i \in 1..Half : pool[w][i] = FirstFibers[<<w, i>>] /\ pool[w][i] \in Fiber
  BY <1>1, FirstSupplied
<1>3. InUse = {} /\ Range(parent) = {} /\ IsInjective(parent)
  BY <1>1 DEF InUse, Range, IsInjective
<1>4. \A w \in Worker : IsInjective(pool[w]) /\ Range(pool[w]) \subseteq Fiber
  <2>. SUFFICES ASSUME NEW w \in Worker  PROVE IsInjective(pool[w]) /\ Range(pool[w]) \subseteq Fiber
    OBVIOUS
  <2>1. \A i, j \in 1..Half : pool[w][i] = pool[w][j] => i = j
    <3>1. \A v \in Worker : \A i, j \in 1..Half :
            FirstFibers[<<w, i>>] = FirstFibers[<<v, j>>] => w = v /\ i = j
      BY FirstSupplied, Zenon
    <3>2. \A i, j \in 1..Half : FirstFibers[<<w, i>>] = FirstFibers[<<w, j>>] => i = j
      BY <3>1, Zenon
    <3>. QED  BY <1>2, <3>2, Zenon
  <2>2. IsInjective(pool[w])
    BY <1>2, <2>1 DEF IsInjective
  <2>3. Range(pool[w]) \subseteq Fiber
    BY <1>2 DEF Range
  <2>. QED  BY <2>2, <2>3
<1>5. \A w \in Worker : Own(w) = Range(pool[w])
  BY <1>1 DEF Own
<1>6. OnceEach
  <2>1. \A w \in Worker : surplus[w] \notin Range(pool[w])
    BY <1>1, <1>4
  <2>. QED  BY <1>3, <1>4, <2>1 DEF OnceEach
<1>7. \A v, w \in Worker : v # w => Own(v) \intersect Own(w) = {}
  <2>. SUFFICES ASSUME NEW v \in Worker, NEW w \in Worker, NEW x \in Range(pool[v]), x \in Range(pool[w])
                PROVE  v = w
    BY <1>5
  <2>1. PICK i \in 1..Half : x = pool[v][i]
    BY <1>2 DEF Range
  <2>2. PICK j \in 1..Half : x = pool[w][j]
    BY <1>2 DEF Range
  <2>3. FirstFibers[<<v, i>>] = FirstFibers[<<w, j>>]
    BY <1>2, <2>1, <2>2
  <2>. QED  BY <2>3, FirstSupplied
<1>8. \A x : x \in mapped <=> \E w \in Worker : x \in Own(w)
  <2>1. ASSUME NEW x, NEW w \in Worker, x \in Own(w)  PROVE x \in mapped
    BY <1>1, <1>5, <2>1, Zenon
  <2>2. ASSUME NEW x \in mapped  PROVE \E w \in Worker : x \in Own(w)
    BY <1>1, <1>5, <2>2, Zenon
  <2>. QED  BY <2>1, <2>2, Zenon
<1>9. OwnersInv
  BY <1>3, <1>7, <1>8 DEF OwnersInv
<1>10. HandsInv /\ EndInv
  BY <1>1 DEF HandsInv, EndInv
<1>. QED  BY <1>6, <1>9, <1>10 DEF PlacesInv

(* A worker hands out the fiber on top of its pool.                           *)
LEMMA HandedOut ==
  ASSUME IInv, PlacesInv, NEW w \in Worker,
         pool[w] # <<>>, surplus[w] = NULL, stage = NULL, stage' = NULL,
         pool' = [pool EXCEPT ![w] = Popped(pool[w])],
         users' = [users EXCEPT ![Last(pool[w])] = @ + 1],
         UNCHANGED <<parent, mapped, surplus>>,
         \A v \in Worker : v # w => pc'[v] = pc[v]
  PROVE  PlacesInv' /\ Pools!Next
<1>. USE HalfOfCapacity, PoolAssumption
<1>. DEFINE x == Last(pool[w])
<1>1. /\ pool[w] \in Seq(Fiber) /\ pool[w] # <<>> /\ stage = NULL /\ stage' = NULL /\ surplus[w] = NULL
      /\ IsInjective(pool[w]) /\ users \in [Fiber -> {0, 1}]
  BY DEF IInv, Typed, PlacesInv, OnceEach, HandsInv
<1>2. /\ x \in Fiber /\ x \in Range(pool[w]) /\ Range(Popped(pool[w])) = Range(pool[w]) \ {x}
      /\ IsInjective(Popped(pool[w]))
  BY <1>1, PopRange, PopFacts DEF Popped
<1>3. /\ pool' = [pool EXCEPT ![w] = Popped(pool[w])]
      /\ users' = [users EXCEPT ![x] = @ + 1]
      /\ UNCHANGED <<parent, mapped, surplus>>
  OBVIOUS
<1>. HIDE DEF x
<1>4. pool'[w] = Popped(pool[w]) /\ \A v \in Worker : v # w => pool'[v] = pool[v]
  BY <1>3 DEF IInv, Typed
<1>5. Own(w) = Range(pool[w]) /\ Own(w)' = Own(w) \ {x}
  BY <1>1, <1>2, <1>3, <1>4, OwnIs
<1>6. x \notin InUse
  BY <1>2, <1>5 DEF PlacesInv, OwnersInv
<1>7. users' \in [Fiber -> {0, 1}] /\ InUse' = InUse \union {x} /\ users[x] = 0
  BY <1>1, <1>2, <1>3, <1>6, HandOut
<1>8. \A v \in Worker : v # w => Own(v)' = Own(v)
  BY <1>3, <1>4, OwnIs
<1>9. OwnersInv'
  <2>. DEFINE A == Own(w)
              B == Own(w)'
              U == InUse'
  <2>1. /\ A \intersect Range(parent) = {} /\ A \intersect InUse = {} /\ InUse \intersect Range(parent) = {}
        /\ A \subseteq mapped /\ Range(parent) \subseteq mapped /\ InUse \subseteq mapped
    BY DEF PlacesInv, OwnersInv
  <2>2. B = A \ {x} /\ x \in A /\ U = InUse \union {x} /\ parent' = parent /\ mapped' = mapped
    BY <1>2, <1>3, <1>5, <1>7
  <2>. HIDE DEF A, B, U
  <2>3. /\ B \intersect Range(parent') = {} /\ B \intersect U = {} /\ U \intersect Range(parent') = {}
        /\ \A y \in B \union Range(parent') \union U :
             y \in A \union Range(parent) \union InUse \/ y \notin mapped
        /\ \A y : y \in mapped' <=>
             \/ y \in B \union Range(parent') \union U
             \/ y \in mapped /\ y \notin A \union Range(parent) \union InUse
    BY <2>1, <2>2
  <2>. QED  BY <1>8, <2>3, HandsChanged DEF PlacesInv, A, B, U
<1>10. OnceEach'
  BY <1>1, <1>2, <1>3, <1>4 DEF PlacesInv, OnceEach
<1>11. HandsInv' /\ EndInv'
  BY <1>1, <1>3, <1>7 DEF PlacesInv, HandsInv, EndInv
<1>12. Pools!Next
  <2>1. users' = [users EXCEPT ![x] = 1]
    <3>1. users' = [users EXCEPT ![x] = users[x] + 1]
      BY <1>3
    <3>2. users[x] + 1 = 1
      BY <1>7
    <3>. QED  BY ONLY <3>1, <3>2
  <2>. QED  BY <1>2, <1>7, <2>1 DEF Pools!Next, Pools!Take
<1>. QED  BY <1>9, <1>10, <1>11, <1>12 DEF PlacesInv

LEMMA AllocatePlaces ==
  ASSUME IInv, PlacesInv, NEW w \in Worker, Allocate(w)
  PROVE  PlacesInv' /\ Pools!Next
<1>1. /\ pool[w] # <<>> /\ stage = NULL /\ stage' = NULL /\ surplus[w] = NULL
      /\ pool' = [pool EXCEPT ![w] = Popped(pool[w])]
      /\ users' = [users EXCEPT ![Last(pool[w])] = @ + 1]
      /\ UNCHANGED <<parent, mapped, pc, surplus>>
  BY DEF PlacesInv, HandsInv, Allocate, Running
<1>. QED  BY <1>1, HandedOut

(* A fiber that is given back lies on top of the pool ...                     *)
LEMMA DeallocatePlaces ==
  ASSUME IInv, PlacesInv, NEW w \in Worker, NEW x \in Fiber, Deallocate(w, x)
  PROVE  PlacesInv' /\ Pools!Next
<1>. USE HalfOfCapacity, PoolAssumption
<1>1. /\ pool[w] \in Seq(Fiber) /\ stage = NULL /\ stage' = NULL /\ surplus[w] = NULL
      /\ IsInjective(pool[w]) /\ users \in [Fiber -> {0, 1}] /\ x \in InUse
  BY DEF IInv, Typed, PlacesInv, OnceEach, HandsInv, Deallocate, Running
<1>2. /\ pool' = [pool EXCEPT ![w] = Append(pool[w], x)]
      /\ users' = [users EXCEPT ![x] = @ - 1]
      /\ UNCHANGED <<parent, mapped, pc, surplus>>
  BY DEF Deallocate
<1>3. pool'[w] = Append(pool[w], x) /\ \A v \in Worker : v # w => pool'[v] = pool[v]
  BY <1>2 DEF IInv, Typed
<1>4. Own(w) = Range(pool[w]) /\ Own(w)' = Own(w) \union {x}
  BY <1>1, <1>2, <1>3, OwnIs, PushRange
<1>5. x \notin Own(w)
  BY <1>1 DEF PlacesInv, OwnersInv
<1>6. users' \in [Fiber -> {0, 1}] /\ InUse' = InUse \ {x} /\ users[x] = 1
  BY <1>1, <1>2, TakeBack
<1>7. \A v \in Worker : v # w => Own(v)' = Own(v)
  BY <1>2, <1>3, OwnIs
<1>8. OwnersInv'
  <2>. DEFINE A == Own(w)
              B == Own(w)'
              U == InUse'
  <2>1. /\ A \intersect Range(parent) = {} /\ A \intersect InUse = {} /\ InUse \intersect Range(parent) = {}
        /\ A \subseteq mapped /\ Range(parent) \subseteq mapped /\ InUse \subseteq mapped
    BY DEF PlacesInv, OwnersInv
  <2>2. B = A \union {x} /\ x \in InUse /\ U = InUse \ {x} /\ parent' = parent /\ mapped' = mapped
    BY <1>1, <1>2, <1>4, <1>6
  <2>. HIDE DEF A, B, U
  <2>3. /\ B \intersect Range(parent') = {} /\ B \intersect U = {} /\ U \intersect Range(parent') = {}
        /\ \A y \in B \union Range(parent') \union U :
             y \in A \union Range(parent) \union InUse \/ y \notin mapped
        /\ \A y : y \in mapped' <=>
             \/ y \in B \union Range(parent') \union U
             \/ y \in mapped /\ y \notin A \union Range(parent) \union InUse
    BY <2>1, <2>2
  <2>. QED  BY <1>7, <2>3, HandsChanged DEF PlacesInv, A, B, U
<1>9. OnceEach'
  <2>1. IsInjective(pool'[w]) /\ surplus'[w] \notin Range(pool'[w])
    BY <1>1, <1>2, <1>3, <1>4, <1>5, PushRange DEF PlacesInv, OnceEach
  <2>. QED  BY <1>2, <1>3, <2>1 DEF PlacesInv, OnceEach
<1>10. HandsInv' /\ EndInv'
  BY <1>1, <1>2, <1>6 DEF PlacesInv, HandsInv, EndInv
<1>11. Pools!Next
  <2>1. users' = [users EXCEPT ![x] = 0]
    BY <1>1, <1>2, <1>6
  <2>. QED  BY <1>6, <2>1 DEF Pools!Next, Pools!Give
<1>. QED  BY <1>8, <1>9, <1>10, <1>11 DEF PlacesInv

(* ... or beside it, if it is full.                                           *)
LEMMA FindFullPlaces ==
  ASSUME IInv, PlacesInv, NEW w \in Worker, NEW x \in Fiber, FindFull(w, x)
  PROVE  PlacesInv' /\ Pools!Next
<1>. USE HalfOfCapacity, PoolAssumption
<1>1. /\ stage = NULL /\ stage' = NULL /\ surplus[w] = NULL
      /\ users \in [Fiber -> {0, 1}] /\ x \in InUse
  BY DEF IInv, Typed, PlacesInv, HandsInv, FindFull, Running
<1>2. /\ surplus' = [surplus EXCEPT ![w] = x]
      /\ users' = [users EXCEPT ![x] = @ - 1]
      /\ pc' = [pc EXCEPT ![w] = "drain"]
      /\ UNCHANGED <<parent, mapped, pool>>
  BY DEF FindFull, Goto
<1>3. surplus'[w] = x /\ pc'[w] = "drain"
      /\ \A v \in Worker : v # w => surplus'[v] = surplus[v] /\ pc'[v] = pc[v]
  BY <1>2 DEF IInv, Typed
<1>4. Own(w) = Range(pool[w]) /\ Own(w)' = Own(w) \union {x}
  BY <1>1, <1>2, <1>3, OwnIs
<1>5. x \notin Own(w)
  BY <1>1 DEF PlacesInv, OwnersInv
<1>6. users' \in [Fiber -> {0, 1}] /\ InUse' = InUse \ {x} /\ users[x] = 1
  BY <1>1, <1>2, TakeBack
<1>7. \A v \in Worker : v # w => Own(v)' = Own(v)
  BY <1>2, <1>3, OwnIs
<1>8. OwnersInv'
  <2>. DEFINE A == Own(w)
              B == Own(w)'
              U == InUse'
  <2>1. /\ A \intersect Range(parent) = {} /\ A \intersect InUse = {} /\ InUse \intersect Range(parent) = {}
        /\ A \subseteq mapped /\ Range(parent) \subseteq mapped /\ InUse \subseteq mapped
    BY DEF PlacesInv, OwnersInv
  <2>2. B = A \union {x} /\ x \in InUse /\ U = InUse \ {x} /\ parent' = parent /\ mapped' = mapped
    BY <1>1, <1>2, <1>4, <1>6
  <2>. HIDE DEF A, B, U
  <2>3. /\ B \intersect Range(parent') = {} /\ B \intersect U = {} /\ U \intersect Range(parent') = {}
        /\ \A y \in B \union Range(parent') \union U :
             y \in A \union Range(parent) \union InUse \/ y \notin mapped
        /\ \A y : y \in mapped' <=>
             \/ y \in B \union Range(parent') \union U
             \/ y \in mapped /\ y \notin A \union Range(parent) \union InUse
    BY <2>1, <2>2
  <2>. QED  BY <1>7, <2>3, HandsChanged DEF PlacesInv, A, B, U
<1>9. OnceEach'
  BY <1>2, <1>3, <1>4, <1>5 DEF PlacesInv, OnceEach
<1>10. HandsInv' /\ EndInv'
  BY <1>1, <1>3, <1>6 DEF PlacesInv, HandsInv, EndInv
<1>11. Pools!Next
  <2>1. users' = [users EXCEPT ![x] = 0]
    BY <1>1, <1>2, <1>6
  <2>. QED  BY <1>6, <2>1 DEF Pools!Next, Pools!Give
<1>. QED  BY <1>8, <1>9, <1>10, <1>11 DEF PlacesInv

(* Steps that move no fiber.                                                  *)
LEMMA NothingMoves ==
  ASSUME IInv, PlacesInv, UNCHANGED <<pool, parent, users, mapped, surplus>>,
         stage' = stage \/ (stage' = 0 /\ InUse = {}),
         \A w \in Worker : pc'[w] \notin {"drain", "give", "unmap"} => pc[w] \notin {"drain", "give", "unmap"}
  PROVE  PlacesInv'
<1>1. (\A w \in Worker : Own(w)' = Own(w)) /\ InUse' = InUse
  BY DEF Own, InUse
<1>2. OnceEach' /\ HandsInv'
  BY DEF PlacesInv, OnceEach, HandsInv
<1>3. OwnersInv'
  BY <1>1 DEF PlacesInv, OwnersInv
<1>4. EndInv'
  <2>1. CASE stage' = stage
    BY <1>1, <2>1 DEF PlacesInv, EndInv
  <2>2. CASE stage' = 0 /\ InUse = {}
    BY <1>1, <2>2, PoolAssumption DEF EndInv, Worker
  <2>. QED  BY <2>1, <2>2
<1>. QED  BY <1>2, <1>3, <1>4 DEF PlacesInv
(* A batch comes from the global pool ...                                     *)
LEMMA RefillPlaces ==
  ASSUME IInv, PlacesInv, NEW w \in Worker, Refill(w)
  PROVE  PlacesInv'
<1>. USE HalfOfCapacity, PoolAssumption
<1>. DEFINE n == moving[w]
            top == Top(parent, n)
<1>1. /\ pc[w] = "take" /\ stage = NULL /\ pool[w] = <<>> /\ surplus[w] = NULL
      /\ n \in 0..Len(parent)
      /\ parent \in Seq(Fiber) /\ Len(parent) \in Nat /\ IsInjective(parent)
  <2>1. n = Smaller(Len(parent), Half) /\ parent \in Seq(Fiber) /\ Len(parent) \in Nat
    BY LenProperties DEF IInv, Typed, MovesInv, Refill
  <2>. QED  BY <2>1 DEF IInv, EdgeInv, PlacesInv, HandsInv, OnceEach, Refill, Smaller
<1>2. /\ top \in Seq(Fiber) /\ IsInjective(top)
      /\ Below(parent, n) \in Seq(Fiber) /\ IsInjective(Below(parent, n))
      /\ Range(parent) = Range(top) \union Range(Below(parent, n))
      /\ Range(top) \intersect Range(Below(parent, n)) = {}
  <2>. HIDE DEF n
  <2>. QED  BY ONLY <1>1, CutStack, CutRange DEF top
<1>3. pool[w] \o top = top
  BY <1>1, <1>2, ConcatEmptySeq
<1>4. /\ parent' = Below(parent, n)
      /\ pool' = [pool EXCEPT ![w] = top]
      /\ pc' = [pc EXCEPT ![w] = "map"]
      /\ UNCHANGED <<users, mapped, surplus, stage>>
  BY <1>3 DEF Refill, Goto
<1>. HIDE DEF n, top
<1>5. /\ pool'[w] = top /\ pc'[w] = "map"
      /\ \A v \in Worker : v # w => pool'[v] = pool[v] /\ pc'[v] = pc[v]
  BY <1>4 DEF IInv, Typed
<1>6. Own(w) = {} /\ Own(w)' = Range(top)
  <2>1. Range(pool[w]) = {}
    BY <1>1 DEF Range
  <2>. QED  BY <1>1, <1>4, <1>5, <2>1, OwnIs
<1>7. \A v \in Worker : v # w => Own(v)' = Own(v)
  BY <1>4, <1>5, OwnIs
<1>8. InUse' = InUse
  BY <1>4 DEF InUse
<1>9. OwnersInv'
  <2>. DEFINE A == Own(w)
              B == Own(w)'
              U == InUse'
              P == Range(parent)
              Q == Range(parent')
  <2>1. /\ InUse \intersect P = {} /\ P \subseteq mapped /\ InUse \subseteq mapped
    BY DEF PlacesInv, OwnersInv
  <2>2. A = {} /\ P = B \union Q /\ B \intersect Q = {} /\ U = InUse /\ mapped' = mapped
    BY <1>2, <1>4, <1>6, <1>8
  <2>. HIDE DEF A, B, U, P, Q
  <2>3. /\ B \intersect Q = {} /\ B \intersect U = {} /\ U \intersect Q = {}
        /\ \A y \in B \union Q \union U :
             y \in A \union P \union InUse \/ y \notin mapped
        /\ \A y : y \in mapped' <=>
             \/ y \in B \union Q \union U
             \/ y \in mapped /\ y \notin A \union P \union InUse
    BY <2>1, <2>2
  <2>. QED  BY <1>7, <2>3, HandsChanged DEF PlacesInv, A, B, U, P, Q
<1>10. OnceEach'
  <2>1. NULL \notin Range(top)
    BY <1>2, RangeOfSeq
  <2>. QED  BY <1>1, <1>2, <1>4, <1>5, <2>1 DEF PlacesInv, OnceEach
<1>11. HandsInv' /\ EndInv'
  BY <1>1, <1>4, <1>5 DEF PlacesInv, HandsInv, EndInv
<1>. QED  BY <1>9, <1>10, <1>11 DEF PlacesInv

(* ... and, as far as that had too few, from the system ...                   *)
LEMMA MapPlaces ==
  ASSUME IInv, PlacesInv, NEW w \in Worker, MapFiber(w)
  PROVE  /\ PlacesInv' /\ mapped \subseteq mapped'
         /\ pc[w] = "map" /\ pool'[w] # pool[w] /\ left[w] = 0
<1>. USE HalfOfCapacity, PoolAssumption
<1>. DEFINE x == FromSystem
<1>1. /\ pc[w] = "map" /\ moving[w] < Half /\ left[w] = 0
      /\ pool[w] \in Seq(Fiber) /\ stage = NULL /\ stage' = NULL /\ surplus[w] = NULL
      /\ IsInjective(pool[w]) /\ x \in Fiber /\ x \notin mapped
  BY Supplied DEF IInv, Typed, EdgeInv, LeftInv, PlacesInv, OnceEach, HandsInv, MapFiber
<1>2. /\ pool' = [pool EXCEPT ![w] = Append(pool[w], x)]
      /\ mapped' = mapped \union {x}
      /\ UNCHANGED <<parent, users, pc, surplus>>
  BY DEF MapFiber
<1>. HIDE DEF x
<1>3. pool'[w] = Append(pool[w], x) /\ \A v \in Worker : v # w => pool'[v] = pool[v]
  BY <1>2 DEF IInv, Typed
<1>4. Own(w) = Range(pool[w]) /\ Own(w)' = Own(w) \union {x}
  BY <1>1, <1>2, <1>3, OwnIs, PushRange
<1>5. Own(w) \subseteq mapped /\ x \notin Own(w)
  BY <1>1 DEF PlacesInv, OwnersInv
<1>6. \A v \in Worker : v # w => Own(v)' = Own(v)
  BY <1>2, <1>3, OwnIs
<1>7. InUse' = InUse
  BY <1>2 DEF InUse
<1>8. OwnersInv'
  <2>. DEFINE A == Own(w)
              B == Own(w)'
              U == InUse'
  <2>1. /\ A \intersect Range(parent) = {} /\ A \intersect InUse = {} /\ InUse \intersect Range(parent) = {}
        /\ A \subseteq mapped /\ Range(parent) \subseteq mapped /\ InUse \subseteq mapped
    BY DEF PlacesInv, OwnersInv
  <2>2. B = A \union {x} /\ x \notin mapped /\ U = InUse /\ parent' = parent /\ mapped' = mapped \union {x}
    BY <1>1, <1>2, <1>4, <1>7
  <2>. HIDE DEF A, B, U
  <2>3. /\ B \intersect Range(parent') = {} /\ B \intersect U = {} /\ U \intersect Range(parent') = {}
        /\ \A y \in B \union Range(parent') \union U :
             y \in A \union Range(parent) \union InUse \/ y \notin mapped
        /\ \A y : y \in mapped' <=>
             \/ y \in B \union Range(parent') \union U
             \/ y \in mapped /\ y \notin A \union Range(parent) \union InUse
    BY <2>1, <2>2
  <2>. QED  BY <1>6, <2>3, HandsChanged DEF PlacesInv, A, B, U
<1>9. OnceEach'
  <2>1. IsInjective(pool'[w]) /\ surplus'[w] \notin Range(pool'[w])
    <3>1. NULL \notin Range(Append(pool[w], x))
      BY <1>1, PushFacts, RangeOfSeq
    <3>. QED  BY <1>1, <1>2, <1>3, <1>4, <1>5, <3>1, PushRange
  <2>. QED  BY <1>2, <1>3, <2>1 DEF PlacesInv, OnceEach
<1>10. HandsInv' /\ EndInv'
  BY <1>1, <1>2 DEF PlacesInv, HandsInv, EndInv
<1>11. pool'[w] # pool[w]
  <2>1. x \in Range(pool'[w])
    BY <1>1, <1>3, PushRange
  <2>. QED  BY <1>4, <1>5, <2>1
<1>. QED  BY <1>1, <1>2, <1>8, <1>9, <1>10, <1>11 DEF PlacesInv

(* ... and a worker hands out the last of it.                                 *)
LEMMA FinishAllocatePlaces ==
  ASSUME IInv, PlacesInv, NEW w \in Worker, FinishAllocate(w)
  PROVE  PlacesInv' /\ Pools!Next
<1>. USE HalfOfCapacity, PoolAssumption
<1>1. /\ pool[w] \in Seq(Fiber) /\ pool[w] # <<>> /\ stage = NULL /\ stage' = NULL /\ surplus[w] = NULL
  <2>1. Len(pool[w]) = Half
    BY DEF IInv, EdgeInv, FinishAllocate, BatchDone
  <2>2. pool[w] # <<>>
    BY <2>1, EmptySeq
  <2>. QED  BY <2>2 DEF IInv, Typed, EdgeInv, PlacesInv, HandsInv, FinishAllocate
<1>2. /\ pool' = [pool EXCEPT ![w] = Popped(pool[w])]
      /\ users' = [users EXCEPT ![Last(pool[w])] = @ + 1]
      /\ pc' = [pc EXCEPT ![w] = "run"]
      /\ UNCHANGED <<parent, mapped, surplus>>
  BY DEF FinishAllocate, BatchDone, Goto
<1>3. surplus'[w] = NULL /\ \A v \in Worker : v # w => pc'[v] = pc[v]
  BY <1>1, <1>2 DEF IInv, Typed
<1>. QED  BY <1>1, <1>2, <1>3, HandedOut

(* A batch goes to the global pool ...                                        *)
LEMMA DrainPlaces ==
  ASSUME IInv, PlacesInv, NEW w \in Worker, Drain(w)
  PROVE  PlacesInv'
<1>. USE HalfOfCapacity, PoolAssumption
<1>. DEFINE n == moving[w]
            s == pool[w]
            x == surplus[w]
            top == Top(s, n)
            rest == Below(s, n)
<1>1. /\ pc[w] = "give" /\ stage = NULL /\ s \in Seq(Fiber) /\ n \in 0..Len(s)
      /\ x \in Fiber /\ IsInjective(s) /\ x \notin Range(s)
      /\ parent \in Seq(Fiber) /\ IsInjective(parent)
  <2>1. Len(s) = Capacity /\ n \in 0..Half
    BY DEF IInv, Typed, EdgeInv, Drain
  <2>. QED  BY <2>1 DEF IInv, Typed, EdgeInv, PlacesInv, OnceEach, Drain
<1>2. /\ parent' = parent \o top
      /\ pool' = [pool EXCEPT ![w] = rest]
      /\ pc' = [pc EXCEPT ![w] = "unmap"]
      /\ UNCHANGED <<users, mapped, surplus, stage>>
  BY DEF Drain, Goto
<1>. HIDE DEF n, s, x
<1>3. /\ top \in Seq(Fiber) /\ IsInjective(top)
      /\ rest \in Seq(Fiber) /\ IsInjective(rest)
      /\ Range(s) = Range(top) \union Range(rest)
      /\ Range(top) \intersect Range(rest) = {}
  BY ONLY <1>1, CutStack, CutRange DEF top, rest
<1>. HIDE DEF top, rest
<1>4. /\ pool'[w] = rest /\ surplus'[w] = x /\ pc'[w] = "unmap"
      /\ \A v \in Worker : v # w => /\ pool'[v] = pool[v] /\ pc'[v] = pc[v]
  BY <1>2 DEF IInv, Typed, x
<1>5. Own(w) = Range(s) \union {x} /\ Own(w)' = Range(rest) \union {x}
  <2>1. surplus[w] = x /\ pool[w] = s /\ x # NULL
    BY <1>1 DEF s, x
  <2>. QED  BY <1>4, <2>1, OwnIs
<1>6. \A v \in Worker : v # w => Own(v)' = Own(v)
  BY <1>2, <1>4, OwnIs
<1>7. Own(w) \intersect Range(parent) = {} /\ Range(s) \intersect Range(parent) = {}
  BY <1>5 DEF PlacesInv, OwnersInv
<1>8. Range(parent') = Range(parent) \union Range(top) /\ IsInjective(parent')
  <2>1. Range(parent) \intersect Range(top) = {}
    BY <1>3, <1>7
  <2>. QED  BY <1>1, <1>2, <1>3, <2>1, JoinRange
<1>9. InUse' = InUse
  BY <1>2 DEF InUse
<1>10. OwnersInv'
  <2>. DEFINE A == Own(w)
              B == Own(w)'
              U == InUse'
              T == Range(top)
              K == Range(rest)
              P == Range(parent)
              Q == Range(parent')
  <2>1. /\ A \intersect P = {} /\ A \intersect InUse = {} /\ InUse \intersect P = {}
        /\ A \subseteq mapped /\ P \subseteq mapped /\ InUse \subseteq mapped
    BY DEF PlacesInv, OwnersInv
  <2>2. /\ A = T \union K \union {x} /\ x \notin T \union K
        /\ T \intersect K = {}
        /\ B = K \union {x} /\ Q = P \union T /\ U = InUse /\ mapped' = mapped
    BY <1>1, <1>2, <1>3, <1>5, <1>8, <1>9
  <2>. HIDE DEF A, B, U, T, K, P, Q
  <2>3. /\ B \intersect Q = {} /\ B \intersect U = {} /\ U \intersect Q = {}
        /\ \A y \in B \union Q \union U :
             y \in A \union P \union InUse \/ y \notin mapped
        /\ \A y : y \in mapped' <=>
             \/ y \in B \union Q \union U
             \/ y \in mapped /\ y \notin A \union P \union InUse
    BY <2>1, <2>2
  <2>. QED  BY <1>6, <2>3, HandsChanged DEF PlacesInv, A, B, U, P, Q
<1>11. OnceEach'
  <2>1. IsInjective(pool'[w]) /\ surplus'[w] \notin Range(pool'[w])
    BY <1>1, <1>3, <1>4
  <2>. QED  BY <1>2, <1>4, <1>8, <2>1 DEF PlacesInv, OnceEach
<1>12. HandsInv' /\ EndInv'
  BY <1>1, <1>2, <1>4 DEF PlacesInv, HandsInv, EndInv
<1>. QED  BY <1>10, <1>11, <1>12 DEF PlacesInv

(* ... and, as far as that has no room, to the system;                        *)
LEMMA UnmapPlaces ==
  ASSUME IInv, PlacesInv, NEW w \in Worker, UnmapFiber(w)
  PROVE  /\ PlacesInv' /\ mapped' \subseteq mapped
         /\ pc[w] = "unmap" /\ pool'[w] # pool[w] /\ left[w] = ParentCapacity
<1>. USE HalfOfCapacity, PoolAssumption
<1>. DEFINE x == Last(pool[w])
<1>1. /\ pc[w] = "unmap" /\ left[w] = ParentCapacity /\ pool[w] \in Seq(Fiber) /\ pool[w] # <<>>
      /\ stage = NULL /\ stage' = NULL /\ surplus[w] \in Fiber /\ surplus[w] # NULL
      /\ surplus[w] \notin Range(pool[w]) /\ IsInjective(pool[w])
  <2>1. /\ pc[w] = "unmap" /\ moving[w] < Half /\ moving[w] \in 0..Half
        /\ Len(pool[w]) = Capacity - moving[w]
    BY DEF IInv, Typed, EdgeInv, UnmapFiber
  <2>2. Len(pool[w]) # 0
    BY <2>1
  <2>3. pool[w] # <<>>
    BY <2>2, EmptySeq
  <2>. QED  BY <2>1, <2>3 DEF IInv, Typed, EdgeInv, LeftInv, PlacesInv, OnceEach, UnmapFiber
<1>2. /\ x \in Fiber /\ x \in Range(pool[w]) /\ Range(Popped(pool[w])) = Range(pool[w]) \ {x}
      /\ IsInjective(Popped(pool[w]))
  BY <1>1, PopRange, PopFacts DEF Popped
<1>3. /\ pool' = [pool EXCEPT ![w] = Popped(pool[w])]
      /\ mapped' = mapped \ {x}
      /\ UNCHANGED <<parent, users, pc, surplus>>
  BY DEF UnmapFiber
<1>. HIDE DEF x
<1>4. pool'[w] = Popped(pool[w]) /\ \A v \in Worker : v # w => pool'[v] = pool[v]
  BY <1>3 DEF IInv, Typed
<1>5. /\ Own(w) = Range(pool[w]) \union {surplus[w]} /\ Own(w)' = Own(w) \ {x} /\ x \in Own(w)
  <2>1. /\ Own(w) = Range(pool[w]) \union {surplus[w]}
        /\ Own(w)' = Range(Popped(pool[w])) \union {surplus[w]}
    BY <1>1, <1>3, <1>4, OwnIs
  <2>. QED  BY <1>1, <1>2, <2>1
<1>6. \A v \in Worker : v # w => Own(v)' = Own(v)
  BY <1>3, <1>4, OwnIs
<1>7. InUse' = InUse
  BY <1>3 DEF InUse
<1>8. OwnersInv'
  <2>. DEFINE A == Own(w)
              B == Own(w)'
              U == InUse'
  <2>1. /\ A \intersect Range(parent) = {} /\ A \intersect InUse = {} /\ InUse \intersect Range(parent) = {}
        /\ A \subseteq mapped /\ Range(parent) \subseteq mapped /\ InUse \subseteq mapped
    BY DEF PlacesInv, OwnersInv
  <2>2. B = A \ {x} /\ x \in A /\ U = InUse /\ parent' = parent /\ mapped' = mapped \ {x}
    BY <1>3, <1>5, <1>7
  <2>. HIDE DEF A, B, U
  <2>3. /\ B \intersect Range(parent') = {} /\ B \intersect U = {} /\ U \intersect Range(parent') = {}
        /\ \A y \in B \union Range(parent') \union U :
             y \in A \union Range(parent) \union InUse \/ y \notin mapped
        /\ \A y : y \in mapped' <=>
             \/ y \in B \union Range(parent') \union U
             \/ y \in mapped /\ y \notin A \union Range(parent) \union InUse
    BY <2>1, <2>2
  <2>. QED  BY <1>6, <2>3, HandsChanged DEF PlacesInv, A, B, U
<1>9. OnceEach'
  BY <1>1, <1>2, <1>3, <1>4 DEF PlacesInv, OnceEach
<1>10. HandsInv' /\ EndInv'
  BY <1>1, <1>3 DEF PlacesInv, HandsInv, EndInv
<1>11. pool'[w] # pool[w]
  BY <1>2, <1>4
<1>. QED  BY <1>1, <1>3, <1>8, <1>9, <1>10, <1>11 DEF PlacesInv

(* the fiber that waited beside the pool is put there.                        *)
LEMMA FinishDeallocatePlaces ==
  ASSUME IInv, PlacesInv, NEW w \in Worker, FinishDeallocate(w)
  PROVE  PlacesInv'
<1>. USE HalfOfCapacity, PoolAssumption
<1>. DEFINE x == surplus[w]
<1>1. /\ pool[w] \in Seq(Fiber) /\ stage = NULL /\ stage' = NULL /\ x \in Fiber
      /\ x \notin Range(pool[w]) /\ IsInjective(pool[w])
  BY DEF IInv, Typed, EdgeInv, PlacesInv, OnceEach, FinishDeallocate
<1>2. /\ pool' = [pool EXCEPT ![w] = Append(pool[w], x)]
      /\ surplus' = [surplus EXCEPT ![w] = NULL]
      /\ pc' = [pc EXCEPT ![w] = "run"]
      /\ UNCHANGED <<parent, users, mapped>>
  BY DEF FinishDeallocate, BatchDone, Goto
<1>3. /\ pool'[w] = Append(pool[w], x) /\ surplus'[w] = NULL
      /\ \A v \in Worker : v # w => pool'[v] = pool[v] /\ surplus'[v] = surplus[v] /\ pc'[v] = pc[v]
  BY <1>2 DEF IInv, Typed
<1>4. Range(pool'[w]) = Range(pool[w]) \union {x} /\ IsInjective(pool'[w])
  BY <1>1, <1>3, PushRange
<1>5. \A v \in Worker : Own(v)' = Own(v)
  <2>1. Own(w)' = Own(w)
    BY <1>1, <1>3, <1>4, OwnIs
  <2>2. \A v \in Worker : v # w => Own(v)' = Own(v)
    BY <1>3, OwnIs
  <2>. QED  BY <2>1, <2>2
<1>6. InUse' = InUse
  BY <1>2 DEF InUse
<1>7. OwnersInv'
  BY <1>2, <1>5, <1>6 DEF PlacesInv, OwnersInv
<1>8. OnceEach'
  <2>1. NULL \notin Range(pool'[w])
    BY <1>1, <1>4, RangeOfSeq
  <2>. QED  BY <1>2, <1>3, <1>4, <2>1 DEF PlacesInv, OnceEach
<1>9. HandsInv' /\ EndInv'
  BY <1>1, <1>2, <1>3 DEF PlacesInv, HandsInv, EndInv
<1>. QED  BY <1>7, <1>8, <1>9 DEF PlacesInv

(* A worker that is deinitialised unmaps what it has; worker 0 also what the  *)
(* global pool has.                                                           *)
LEMMA DestroyPlaces ==
  ASSUME IInv, PlacesInv, NEW w \in Worker, Destroy(w)
  PROVE  PlacesInv' /\ stage # NULL /\ mapped' \subseteq mapped
<1>. USE HalfOfCapacity, PoolAssumption
<1>1. /\ stage = w /\ stage' = w + 1 /\ w \in 0..NProc - 1 /\ stage # NULL /\ stage' # NULL
      /\ InUse = {} /\ (w > 0 => parent = <<>>)
  <2>1. /\ stage = w /\ stage' = w + 1 /\ w \in 0..NProc - 1 /\ stage # NULL /\ stage' # NULL
    BY DEF Destroy, Worker
  <2>2. w > 0 => 0 \in Worker /\ 0 < stage
    BY <2>1 DEF Worker
  <2>. QED  BY <2>1, <2>2 DEF PlacesInv, EndInv
<1>2. /\ mapped' = mapped \ FreedBy(w)
      /\ pool' = [pool EXCEPT ![w] = <<>>]
      /\ parent' = IF w = 0 THEN <<>> ELSE parent
      /\ UNCHANGED <<users, pc, surplus>>
  BY DEF Destroy
<1>3. parent' = <<>> /\ \A v \in Worker : surplus[v] = NULL
  BY <1>1, <1>2 DEF IInv, EdgeInv, PlacesInv, HandsInv
<1>4. pool'[w] = <<>> /\ \A v \in Worker : v # w => pool'[v] = pool[v]
  BY <1>2 DEF IInv, Typed
<1>5. Range(<<>>) = {} /\ IsInjective(<<>>)
  BY DEF Range, IsInjective
<1>6. Own(w) = Range(pool[w]) /\ Own(w)' = {}
  BY <1>2, <1>3, <1>4, <1>5, OwnIs
<1>7. \A v \in Worker : v # w => Own(v)' = Own(v)
  BY <1>2, <1>4, OwnIs
<1>8. InUse' = {} /\ Range(parent') = {}
  BY <1>1, <1>2, <1>3, <1>5 DEF InUse
<1>9. \A y : y \in FreedBy(w) <=> y \in Own(w) \/ y \in Range(parent)
  BY <1>1, <1>5, <1>6 DEF FreedBy
<1>10. OwnersInv'
  <2>1. /\ \A y \in Own(w)' \union Range(parent') \union InUse' :
             y \in Own(w) \union Range(parent) \union InUse \/ y \notin mapped
        /\ \A y : y \in mapped' <=>
             \/ y \in Own(w)' \union Range(parent') \union InUse'
             \/ y \in mapped /\ y \notin Own(w) \union Range(parent) \union InUse
    BY <1>1, <1>2, <1>6, <1>8, <1>9
  <2>. QED  BY <1>6, <1>7, <1>8, <2>1, HandsChanged DEF PlacesInv
<1>11. OnceEach'
  BY <1>2, <1>3, <1>4, <1>5 DEF PlacesInv, OnceEach
<1>12. HandsInv'
  BY <1>2 DEF PlacesInv, HandsInv
<1>13. EndInv'
  <2>1. \A v \in Worker : v < w + 1 => v < w \/ v = w
    BY <1>1 DEF Worker
  <2>. QED  BY <1>1, <1>3, <1>4, <1>8, <2>1 DEF PlacesInv, EndInv
<1>. QED  BY <1>1, <1>2, <1>10, <1>11, <1>12, <1>13 DEF PlacesInv

-----------------------------------------------------------------------------
(* Every step keeps the fibers in their places, hands one out, takes one back *)
(* or neither, and uses the system last.                                      *)
StepPlaces ==
  /\ PlacesInv' /\ [Pools!Next]_users
  /\ mapped' \ mapped # {} => \E w \in Worker :
       pc[w] = "map" /\ pool'[w] # pool[w] /\ left[w] = 0
  /\ stage = NULL /\ mapped \ mapped' # {} => \E w \in Worker :
       pc[w] = "unmap" /\ pool'[w] # pool[w] /\ left[w] = ParentCapacity

LEMMA NextPlaces == IInv /\ PlacesInv /\ [Next]_vars => StepPlaces
<1>. SUFFICES ASSUME IInv, PlacesInv, [Next]_vars  PROVE StepPlaces
  OBVIOUS
<1>1. ASSUME NEW w \in Worker, Allocate(w)  PROVE StepPlaces
  <2>1. mapped' = mapped
    BY <1>1 DEF Allocate
  <2>. QED  BY <1>1, <2>1, AllocatePlaces DEF StepPlaces
<1>2. ASSUME NEW w \in Worker, NEW x \in Fiber, Deallocate(w, x)  PROVE StepPlaces
  <2>1. mapped' = mapped
    BY <1>2 DEF Deallocate
  <2>. QED  BY <1>2, <2>1, DeallocatePlaces DEF StepPlaces
<1>3. ASSUME NEW w \in Worker, NEW x \in Fiber, FindFull(w, x)  PROVE StepPlaces
  <2>1. mapped' = mapped
    BY <1>3 DEF FindFull
  <2>. QED  BY <1>3, <2>1, FindFullPlaces DEF StepPlaces
<1>4. ASSUME NEW w \in Worker, MapFiber(w)  PROVE StepPlaces
  <2>1. users' = users
    BY <1>4 DEF MapFiber
  <2>2. /\ PlacesInv' /\ mapped \subseteq mapped'
        /\ pc[w] = "map" /\ pool'[w] # pool[w] /\ left[w] = 0
    BY <1>4, MapPlaces
  <2>. QED  BY <2>1, <2>2 DEF StepPlaces
<1>5. ASSUME NEW w \in Worker, UnmapFiber(w)  PROVE StepPlaces
  <2>1. users' = users
    BY <1>5 DEF UnmapFiber
  <2>2. /\ PlacesInv' /\ mapped' \subseteq mapped
        /\ pc[w] = "unmap" /\ pool'[w] # pool[w] /\ left[w] = ParentCapacity
    BY <1>5, UnmapPlaces
  <2>. QED  BY <2>1, <2>2 DEF StepPlaces
<1>10. ASSUME NEW w \in Worker, FinishAllocate(w)  PROVE StepPlaces
  <2>1. mapped' = mapped
    BY <1>10 DEF FinishAllocate
  <2>. QED  BY <1>10, <2>1, FinishAllocatePlaces DEF StepPlaces
<1>11. ASSUME NEW w \in Worker, Refill(w) \/ Drain(w) \/ FinishDeallocate(w)  PROVE StepPlaces
  <2>1. mapped' = mapped /\ users' = users
    BY <1>11 DEF Refill, Drain, FinishDeallocate
  <2>2. PlacesInv'
    BY <1>11, RefillPlaces, DrainPlaces, FinishDeallocatePlaces
  <2>. QED  BY <2>1, <2>2 DEF StepPlaces
<1>6. ASSUME NEW w \in Worker, Destroy(w)  PROVE StepPlaces
  <2>1. users' = users
    BY <1>6 DEF Destroy
  <2>. QED  BY <1>6, <2>1, DestroyPlaces DEF StepPlaces
<1>7. ASSUME NEW w \in Worker, FindEmpty(w) \/ StartRefill(w) \/ StartDrain(w)  PROVE StepPlaces
  <2>1. UNCHANGED <<pool, parent, users, mapped, surplus, stage>>
    BY <1>7 DEF FindEmpty, StartRefill, StartDrain
  <2>2. \A v \in Worker :
         pc'[v] \notin {"drain", "give", "unmap"} => pc[v] \notin {"drain", "give", "unmap"}
    BY <1>7 DEF IInv, Typed, FindEmpty, StartRefill, StartDrain, Running, Goto
  <2>. QED  BY <2>1, <2>2, NothingMoves DEF StepPlaces
<1>8. CASE Join
  <2>1. /\ UNCHANGED <<pool, parent, users, mapped, surplus, pc>>
        /\ stage' = 0 /\ InUse = {}
    BY <1>8 DEF Join
  <2>. QED  BY <2>1, NothingMoves DEF StepPlaces
<1>9. CASE UNCHANGED vars
  <2>1. UNCHANGED <<pool, parent, users, mapped, surplus, pc, stage>>
    BY <1>9 DEF vars
  <2>. QED  BY <2>1, NothingMoves DEF StepPlaces
<1>. QED  BY <1>1, <1>2, <1>3, <1>4, <1>5, <1>6, <1>7, <1>8, <1>9, <1>10, <1>11 DEF Next, Work, Terminated

LEMMA Placed == Spec => []PlacesInv
<1>1. IInv /\ PlacesInv /\ [Next]_vars => PlacesInv'
  BY NextPlaces DEF StepPlaces
<1>. QED  BY PlacesAtFirst, Invariance, <1>1, PTL DEF Spec

-----------------------------------------------------------------------------
(* From "in one worker's hands, once" to the count of the places.             *)
LEMMA PlacesCounted == IInv /\ PlacesInv => OnePlace
<1>. SUFFICES ASSUME IInv, PlacesInv, NEW x \in Fiber
              PROVE  Cardinality(Places(x)) + users[x] = IF x \in mapped THEN 1 ELSE 0
  BY DEF OnePlace
<1>. USE PoolAssumption
<1>1. /\ users[x] \in {0, 1} /\ (users[x] = 1 <=> x \in InUse) /\ x # NULL
      /\ parent \in Seq(Fiber) /\ \A w \in Worker : pool[w] \in Seq(Fiber)
  BY DEF PlacesInv, HandsInv, InUse, IInv, Typed
<1>2. \A s \in Seq(Fiber) : DOMAIN s = 1..Len(s)
  BY LenProperties
<1>3. \A p : p \in Places(x) <=>
        \/ \E w \in Worker : \E i \in 1..Len(pool[w]) : pool[w][i] = x /\ p = <<"pool", w, i>>
        \/ \E i \in 1..Len(parent) : parent[i] = x /\ p = <<"parent", i>>
        \/ \E w \in Worker : surplus[w] = x /\ p = <<"surplus", w>>
  <2>1. Places(x) = InPools(x) \union InParent(x) \union AtHand(x)
    BY DEF Places
  <2>2. \A p, w : p \in InPool(w, x) <=> \E i \in 1..Len(pool[w]) : pool[w][i] = x /\ p = <<"pool", w, i>>
    BY DEF InPool
  <2>3. \A p : p \in InParent(x) <=> \E i \in 1..Len(parent) : parent[i] = x /\ p = <<"parent", i>>
    BY DEF InParent
  <2>4. \A p : p \in AtHand(x) <=> \E w \in Worker : surplus[w] = x /\ p = <<"surplus", w>>
    BY DEF AtHand
  <2>5. \A p : p \in InPools(x) <=> \E w \in Worker : p \in InPool(w, x)
    <3>1. ASSUME NEW p \in InPools(x)  PROVE \E w \in Worker : p \in InPool(w, x)
      BY <3>1, Zenon DEF InPools
    <3>2. ASSUME NEW p, NEW w \in Worker, p \in InPool(w, x)  PROVE p \in InPools(x)
      BY <3>2, Zenon DEF InPools
    <3>. QED  BY <3>1, <3>2, Zenon
  <2>. QED  BY <2>1, <2>2, <2>3, <2>4, <2>5
<1>4. \A w \in Worker : \A i \in 1..Len(pool[w]) : pool[w][i] = x => x \in Range(pool[w])
  BY <1>1, <1>2 DEF Range
<1>5. \A i \in 1..Len(parent) : parent[i] = x => x \in Range(parent)
  BY <1>1, <1>2 DEF Range
<1>6. \A w \in Worker : x \in Range(pool[w]) \/ surplus[w] = x <=> x \in Own(w)
  BY <1>1 DEF Own
<1>7. /\ \A w \in Worker : x \in Own(w) => /\ \A v \in Worker : v # w => x \notin Own(v)
                                          /\ x \notin Range(parent) /\ x \notin InUse
      /\ x \in Range(parent) => x \notin InUse
      /\ x \in mapped <=> (\E w \in Worker : x \in Own(w)) \/ x \in Range(parent) \/ x \in InUse
  BY DEF PlacesInv, OwnersInv
<1>8. CASE x \in Range(parent)
  <2>1. PICK i \in 1..Len(parent) : parent[i] = x
    BY <1>1, <1>2, <1>8 DEF Range
  <2>2. \A j \in 1..Len(parent) : parent[j] = x => j = i
    BY <1>1, <1>2, <2>1 DEF PlacesInv, OnceEach, IsInjective
  <2>3. Places(x) = {<<"parent", i>>}
    BY <1>3, <1>4, <1>6, <1>7, <1>8, <2>1, <2>2
  <2>4. Cardinality(Places(x)) = 1
    BY <2>3, FS_Singleton
  <2>. QED  BY <1>1, <1>7, <1>8, <2>4
<1>9. CASE x \notin Range(parent) /\ \E w \in Worker : x \in Own(w)
  <2>1. PICK w \in Worker : x \in Own(w)
    BY <1>9
  <2>2. CASE surplus[w] = x
    <3>1. x \notin Range(pool[w])
      BY <2>2 DEF PlacesInv, OnceEach
    <3>2. Places(x) = {<<"surplus", w>>}
      BY <1>3, <1>4, <1>5, <1>6, <1>7, <1>9, <2>1, <2>2, <3>1
    <3>3. Cardinality(Places(x)) = 1
      BY <3>2, FS_Singleton
    <3>. QED  BY <1>1, <1>7, <2>1, <3>3
  <2>3. CASE surplus[w] # x
    <3>1. PICK i \in 1..Len(pool[w]) : pool[w][i] = x
      BY <1>1, <1>2, <1>6, <2>1, <2>3 DEF Range
    <3>2. \A j \in 1..Len(pool[w]) : pool[w][j] = x => j = i
      BY <1>1, <1>2, <3>1 DEF PlacesInv, OnceEach, IsInjective
    <3>3. Places(x) = {<<"pool", w, i>>}
      BY <1>3, <1>4, <1>5, <1>6, <1>7, <1>9, <2>1, <2>3, <3>1, <3>2
    <3>4. Cardinality(Places(x)) = 1
      BY <3>3, FS_Singleton
    <3>. QED  BY <1>1, <1>7, <2>1, <3>4
  <2>. QED  BY <2>2, <2>3
<1>10. CASE x \notin Range(parent) /\ \A w \in Worker : x \notin Own(w)
  <2>1. Places(x) = {}
    BY <1>3, <1>4, <1>5, <1>6, <1>10
  <2>2. Cardinality(Places(x)) = 0
    BY <2>1, FS_EmptySet
  <2>. QED  BY <1>1, <1>7, <1>10, <2>2
<1>. QED  BY <1>8, <1>9, <1>10

(* Wherever it has been, a fiber that is mapped is in one place: one pool and *)
(* one position there, one worker's hands or the scheduler's.                 *)
THEOREM FiberInOnePlace == Spec => []OnePlace
BY PlacesCounted, Invariance, Placed, PTL

(* When the last worker is deinitialised nothing is mapped.                   *)
THEOREM EveryFiberUnmapped == Spec => []NothingLeaked
<1>1. IInv /\ PlacesInv => NothingLeaked
  <2>. SUFFICES ASSUME IInv, PlacesInv, stage = NProc  PROVE mapped = {} /\ parent = <<>>
    BY DEF NothingLeaked
  <2>1. /\ NProc # NULL /\ 0 \in Worker /\ 0 < NProc /\ \A w \in Worker : w < NProc
    BY PoolAssumption DEF Worker
  <2>2. /\ InUse = {} /\ parent = <<>> /\ \A w \in Worker : pool[w] = <<>> /\ surplus[w] = NULL
    BY <2>1 DEF IInv, EdgeInv, PlacesInv, EndInv, HandsInv
  <2>3. Range(<<>>) = {}
    BY DEF Range
  <2>4. \A w \in Worker : Own(w) = {}
    BY <2>2, <2>3 DEF Own
  <2>. QED  BY <2>2, <2>3, <2>4 DEF PlacesInv, OwnersInv
<1>. QED  BY <1>1, Invariance, Placed, PTL

(* Fibers are mapped only by a worker that left the global pool empty when it *)
(* unlocked it, and unmapped, until the end, only by one that left it full.   *)
THEOREM SystemUsedLast == Spec => SystemLastResort
<1>1. IInv /\ PlacesInv /\ [Next]_vars =>
        [/\ mapped' \ mapped # {} => \E w \in Worker :
              pc[w] = "map" /\ pool'[w] # pool[w] /\ left[w] = 0
         /\ stage = NULL /\ mapped \ mapped' # {} => \E w \in Worker :
              pc[w] = "unmap" /\ pool'[w] # pool[w] /\ left[w] = ParentCapacity]_vars
  BY NextPlaces DEF StepPlaces
<1>. QED  BY <1>1, Invariance, Placed, PTL DEF Spec, SystemLastResort

(* For whoever uses them the pools of all workers are one allocator: a fiber  *)
(* is not handed out again before it was given back, to whichever worker.     *)
THEOREM PoolsAreAnAllocator == Spec => ImplementsAllocator
<1>1. Init => Pools!Init
  BY DEF Init, Pools!Init
<1>2. IInv /\ PlacesInv /\ [Next]_vars => [Pools!Next]_users
  BY NextPlaces DEF StepPlaces
<1>. QED  BY <1>1, <1>2, Invariance, Placed, PTL DEF Spec, ImplementsAllocator, Pools!Spec
=============================================================================
