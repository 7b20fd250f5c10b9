------------------------ MODULE InternalMalloc_proof ------------------------
(***************************************************************************)
(* Proofs about the internal allocator, for any number of workers, block   *)
(* sizes and capacities, and any supply of memory.                         *)
(***************************************************************************)
EXTENDS InternalMalloc, FiniteSetTheorems, StackFacts

Typed ==
  /\ list \in [Worker -> [Bucket -> Seq(Int)]]
  /\ until \in [Worker -> [Bucket -> Int]]
  /\ glist \in [Bucket -> Seq(Int)]
  /\ begin \in Int /\ end \in Int
  /\ memList \in Seq(Int \union {UNINIT}) /\ chunks \in Nat
  /\ pc \in [Worker -> {"run", "want", "full", "fill", "drain"}]
  /\ job \in [Worker -> [bucket : Bucket \union {NULL}, left : Nat, block : Int \union {NULL}]]
  /\ InUse \subseteq Int \X Bucket /\ users \in [InUse -> Nat \ {0}]

(* What a worker is moving, and how far it is: a batch to fill an empty list  *)
(* or to make room on a full one, which for this has to be moved once.        *)
JobInv ==
  \A w \in Worker :
    /\ pc[w] # "run" => job[w].bucket \in Bucket
    /\ pc[w] \in {"full", "drain"} <=> job[w].block # NULL
BatchInv ==
  \A w \in Worker :
    LET b == job[w].bucket
        n == Len(list[w][b])
    IN /\ pc[w] = "want" => n = 0
       /\ pc[w] = "full" => n = Capacity[b]
       /\ pc[w] = "fill" => n + job[w].left = BatchSize(b)
       /\ pc[w] = "drain" => n = Capacity[b] - BatchSize(b) + job[w].left

IInv == Typed /\ JobInv /\ BatchInv /\ CountsAgree

-----------------------------------------------------------------------------
(* A batch is not empty, and leaves room.                                     *)
LEMMA BatchSizes ==
  ASSUME NEW b \in Bucket
  PROVE  /\ Capacity[b] \in Nat /\ BatchSize(b) \in Nat
         /\ 0 < BatchSize(b) /\ BatchSize(b) < Capacity[b]
BY BucketAssumption DEF BatchSize

LEMMA Sizes ==
  /\ Chunk \in Nat /\ Supply \in Nat /\ MEM_LIST_SIZE \in Nat \ {0} /\ NULL \notin Int
  /\ \A b \in Bucket : Size[b] \in Nat /\ 0 < Size[b] /\ Size[b] <= Chunk
BY BucketAssumption

LEMMA Mapped ==
  ASSUME NEW k \in Nat
  PROVE  Chunk * k \in Nat /\ Mmap(k) \in Int
<1>1. Chunk * k \in Nat
  BY Sizes
<1>. QED  BY <1>1 DEF Mmap, MAP_FAILED

(* Moving a block to or from a local list.                                    *)
LEMMA PopKeeps ==
  ASSUME Typed, CountsAgree, NEW w \in Worker, NEW b \in Bucket, Pop(w, b), list[w][b] # <<>>
  PROVE  /\ list' \in [Worker -> [Bucket -> Seq(Int)]] /\ until' \in [Worker -> [Bucket -> Int]]
         /\ CountsAgree' /\ Last(list[w][b]) \in Int
         /\ Len(list[w][b]) \in Nat /\ Len(list'[w][b]) = Len(list[w][b]) - 1
         /\ \A v \in Worker, d \in Bucket : v # w \/ d # b => list'[v][d] = list[v][d]
<1>1. list[w][b] \in Seq(Int) /\ until[w][b] \in Int
  BY DEF Typed
<1>2. /\ Front(list[w][b]) \in Seq(Int) /\ Last(list[w][b]) \in Int
      /\ Len(list[w][b]) \in Nat \ {0} /\ Len(Front(list[w][b])) = Len(list[w][b]) - 1
  BY <1>1, PopFacts
<1>3. /\ list'[w][b] = Front(list[w][b]) /\ until'[w][b] = until[w][b] + 1
      /\ \A v \in Worker, d \in Bucket :
           v # w \/ d # b => list'[v][d] = list[v][d] /\ until'[v][d] = until[v][d]
  BY DEF Pop, Typed
<1>4. list' \in [Worker -> [Bucket -> Seq(Int)]] /\ until' \in [Worker -> [Bucket -> Int]]
  BY <1>1, <1>2 DEF Pop, Typed
<1>5. CountsAgree'
  <2>. SUFFICES ASSUME NEW v \in Worker, NEW d \in Bucket
                PROVE  until'[v][d] + Len(list'[v][d]) = Capacity[d] /\ until'[v][d] >= 0
    BY DEF CountsAgree
  <2>0. until[w][b] + Len(list[w][b]) = Capacity[b] /\ until[w][b] >= 0
    BY DEF CountsAgree
  <2>1. CASE v = w /\ d = b
    <3>. DEFINE n == Len(list[w][b])
                m == Len(list'[w][b])
                k == until[w][b]
                j == until'[w][b]
    <3>2. n \in Nat /\ m = n - 1 /\ k \in Int /\ j = k + 1 /\ k >= 0
      BY <1>1, <1>2, <1>3, <2>0
    <3>. HIDE DEF n, m, k, j
    <3>3. j + m = k + n /\ j >= 0
      BY <3>2
    <3>1. until'[w][b] + Len(list'[w][b]) = until[w][b] + Len(list[w][b]) /\ until'[w][b] >= 0
      BY <3>3 DEF n, m, k, j
    <3>. QED  BY <2>0, <2>1, <3>1
  <2>2. CASE v # w \/ d # b
    BY <1>3, <2>2 DEF CountsAgree
  <2>. QED  BY <2>1, <2>2
<1>. QED  BY <1>2, <1>3, <1>4, <1>5

LEMMA PushKeeps ==
  ASSUME Typed, CountsAgree, NEW w \in Worker, NEW b \in Bucket, NEW a \in Int, Push(w, b, a),
         until[w][b] > 0
  PROVE  /\ list' \in [Worker -> [Bucket -> Seq(Int)]] /\ until' \in [Worker -> [Bucket -> Int]]
         /\ CountsAgree'
         /\ Len(list[w][b]) \in Nat /\ Len(list'[w][b]) = Len(list[w][b]) + 1
         /\ \A v \in Worker, d \in Bucket : v # w \/ d # b => list'[v][d] = list[v][d]
<1>1. list[w][b] \in Seq(Int) /\ until[w][b] \in Int
  BY DEF Typed
<1>2. /\ Append(list[w][b], a) \in Seq(Int) /\ Len(list[w][b]) \in Nat
      /\ Len(Append(list[w][b], a)) = Len(list[w][b]) + 1
  BY <1>1, PushFacts
<1>3. /\ list'[w][b] = Append(list[w][b], a) /\ until'[w][b] = until[w][b] - 1
      /\ \A v \in Worker, d \in Bucket :
           v # w \/ d # b => list'[v][d] = list[v][d] /\ until'[v][d] = until[v][d]
  BY DEF Push, Typed
<1>4. list' \in [Worker -> [Bucket -> Seq(Int)]] /\ until' \in [Worker -> [Bucket -> Int]]
  BY <1>1, <1>2 DEF Push, Typed
<1>5. CountsAgree'
  <2>. SUFFICES ASSUME NEW v \in Worker, NEW d \in Bucket
                PROVE  until'[v][d] + Len(list'[v][d]) = Capacity[d] /\ until'[v][d] >= 0
    BY DEF CountsAgree
  <2>0. until[w][b] + Len(list[w][b]) = Capacity[b] /\ until[w][b] >= 0
    BY DEF CountsAgree
  <2>1. CASE v = w /\ d = b
    <3>. DEFINE n == Len(list[w][b])
                m == Len(list'[w][b])
                k == until[w][b]
                j == until'[w][b]
    <3>2. n \in Nat /\ m = n + 1 /\ k \in Int /\ j = k - 1 /\ k > 0
      BY <1>1, <1>2, <1>3, <2>0
    <3>. HIDE DEF n, m, k, j
    <3>3. j + m = k + n /\ j >= 0
      BY <3>2
    <3>1. until'[w][b] + Len(list'[w][b]) = until[w][b] + Len(list[w][b]) /\ until'[w][b] >= 0
      BY <3>3 DEF n, m, k, j
    <3>. QED  BY <2>0, <2>1, <3>1
  <2>2. CASE v # w \/ d # b
    BY <1>3, <2>2 DEF CountsAgree
  <2>. QED  BY <2>1, <2>2
<1>. QED  BY <1>2, <1>3, <1>4, <1>5

(* One use more, or less, of a block.                                         *)
LEMMA UsersTyped ==
  ASSUME Typed, NEW x \in Int \X Bucket
  PROVE  /\ users' = AddUser(x) =>
              InUse' \subseteq Int \X Bucket /\ users' \in [InUse' -> Nat \ {0}]
         /\ x \in InUse /\ users' = DropUser(x) =>
              InUse' \subseteq Int \X Bucket /\ users' \in [InUse' -> Nat \ {0}]
<1>1. InUse \subseteq Int \X Bucket /\ users \in [InUse -> Nat \ {0}]
  BY DEF Typed
<1>2. ASSUME users' = AddUser(x)
      PROVE  InUse' \subseteq Int \X Bucket /\ users' \in [InUse' -> Nat \ {0}]
  <2>1. InUse' = InUse \union {x}
    BY <1>2 DEF AddUser, InUse
  <2>2. \A y \in InUse' : users'[y] = IF y = x THEN Users(x) + 1 ELSE users[y]
    BY <1>2, <2>1 DEF AddUser
  <2>3. Users(x) \in Nat
    BY <1>1 DEF Users, InUse
  <2>4. \A y \in InUse' : users'[y] \in Nat \ {0}
    BY <1>1, <2>1, <2>2, <2>3
  <2>. QED  BY <1>1, <1>2, <2>1, <2>4 DEF AddUser
<1>3. ASSUME x \in InUse, users' = DropUser(x)
      PROVE  InUse' \subseteq Int \X Bucket /\ users' \in [InUse' -> Nat \ {0}]
  <2>1. InUse' = {z \in InUse : z # x \/ users[x] > 1}
    BY <1>3 DEF DropUser, InUse
  <2>2. \A y \in InUse' : users'[y] = IF y = x THEN users[x] - 1 ELSE users[y]
    BY <1>3, <2>1 DEF DropUser
  <2>4. \A y \in InUse' : users'[y] \in Nat \ {0}
    BY <1>1, <1>3, <2>1, <2>2
  <2>. QED  BY <1>1, <1>3, <2>1, <2>4 DEF DropUser
<1>. QED  BY <1>2, <1>3

-----------------------------------------------------------------------------
(* The shape of the state, the counts and the batches are kept.               *)
LEMMA Initially == Init => IInv
<1>. SUFFICES ASSUME Init  PROVE IInv
  OBVIOUS
<1>1. Capacity \in [Bucket -> Nat]
  BY BucketAssumption
<1>2. list \in [Worker -> [Bucket -> Seq(Int)]] /\ glist \in [Bucket -> Seq(Int)]
  BY EmptySeq DEF Init
<1>3. \A w \in Worker, b \in Bucket : list[w][b] = <<>> /\ until[w][b] = Capacity[b]
  BY DEF Init, Fresh
<1>4. memList \in Seq(Int \union {UNINIT})
  <2>1. memList \in [1..MEM_LIST_SIZE -> Int \union {UNINIT}]
    BY DEF Init
  <2>. QED  BY <2>1, Sizes, IsASeq
<1>5. InUse \subseteq Int \X Bucket /\ users \in [InUse -> Nat \ {0}]
  BY DEF Init, InUse
<1>6. until \in [Worker -> [Bucket -> Int]]
  BY <1>1 DEF Init, Fresh
<1>7. Typed
  BY <1>2, <1>4, <1>5, <1>6 DEF Init, Typed, Idle
<1>8. CountsAgree
  BY <1>1, <1>3, EmptySeq DEF CountsAgree
<1>9. JobInv /\ BatchInv
  BY DEF Init, JobInv, BatchInv, Idle
<1>. QED  BY <1>7, <1>8, <1>9 DEF IInv

(* A worker in the middle of something else keeps its place.                  *)
LEMMA OthersKeep ==
  ASSUME IInv, NEW w \in Worker, NEW v \in Worker, v # w,
         \A d \in Bucket : list'[v][d] = list[v][d], pc'[v] = pc[v], job'[v] = job[v]
  PROVE  /\ pc'[v] # "run" => job'[v].bucket \in Bucket
         /\ pc'[v] \in {"full", "drain"} <=> job'[v].block # NULL
         /\ LET b == job'[v].bucket
                n == Len(list'[v][b])
            IN /\ pc'[v] = "want" => n = 0
               /\ pc'[v] = "full" => n = Capacity[b]
               /\ pc'[v] = "fill" => n + job'[v].left = BatchSize(b)
               /\ pc'[v] = "drain" => n = Capacity[b] - BatchSize(b) + job'[v].left
<1>1. pc[v] # "run" => job[v].bucket \in Bucket
  BY DEF IInv, JobInv
<1>. QED  BY <1>1 DEF IInv, JobInv, BatchInv

(* A batch goes on as long as it can: this is NoReentry.                      *)
LEMMA BatchesSuffice ==
  ASSUME IInv
  PROVE  NoReentry
<1>. SUFFICES ASSUME NEW w \in Worker
              PROVE  LET b == job[w].bucket
                     IN /\ pc[w] = "fill" => IF job[w].left > 0 THEN until[w][b] > 0 ELSE list[w][b] # <<>>
                        /\ pc[w] = "drain" => IF job[w].left > 0 THEN list[w][b] # <<>> ELSE until[w][b] > 0
  BY DEF NoReentry
<1>. DEFINE b == job[w].bucket
            n == Len(list[w][b])
<1>. SUFFICES ASSUME pc[w] \in {"fill", "drain"}
              PROVE  /\ pc[w] = "fill" => IF job[w].left > 0 THEN until[w][b] > 0 ELSE list[w][b] # <<>>
                     /\ pc[w] = "drain" => IF job[w].left > 0 THEN list[w][b] # <<>> ELSE until[w][b] > 0
  OBVIOUS
<1>1. b \in Bucket
  BY DEF IInv, JobInv
<1>2. list[w][b] \in Seq(Int) /\ until[w][b] \in Int /\ job[w].left \in Nat
  BY <1>1 DEF IInv, Typed
<1>3. n \in Nat /\ (list[w][b] = <<>> => n = 0)
  BY <1>2, LenProperties, EmptySeq
<1>4. /\ Capacity[b] \in Nat /\ BatchSize(b) \in Nat
      /\ 0 < BatchSize(b) /\ BatchSize(b) < Capacity[b]
  BY <1>1, BatchSizes
<1>5. until[w][b] + n = Capacity[b]
  BY <1>1 DEF IInv, CountsAgree
<1>6. /\ pc[w] = "fill" => n + job[w].left = BatchSize(b)
      /\ pc[w] = "drain" => n = Capacity[b] - BatchSize(b) + job[w].left
  BY DEF IInv, BatchInv
<1>. DEFINE l == job[w].left
            k == until[w][b]
            c == Capacity[b]
            h == BatchSize(b)
<1>7. /\ l \in Nat /\ k \in Int /\ n \in Nat /\ c \in Nat /\ h \in Nat /\ 0 < h /\ h < c /\ k + n = c
      /\ pc[w] = "fill" => n + l = h
      /\ pc[w] = "drain" => n = c - h + l
  BY <1>2, <1>3, <1>4, <1>5, <1>6
<1>. HIDE DEF n, l, k, c, h
<1>8. pc[w] = "fill" => IF l > 0 THEN k > 0 ELSE n # 0
  BY <1>7
<1>9. pc[w] = "drain" => IF l > 0 THEN n # 0 ELSE k > 0
  BY <1>7
<1>. QED  BY <1>3, <1>8, <1>9 DEF l, k

LEMMA MallocKeeps ==
  ASSUME IInv, NEW w \in Worker, NEW b \in Bucket, Malloc(w, b)
  PROVE  IInv'
<1>1. Pop(w, b) /\ list[w][b] # <<>> /\ Typed /\ CountsAgree
  BY DEF Malloc, IInv
<1>2. /\ list' \in [Worker -> [Bucket -> Seq(Int)]] /\ until' \in [Worker -> [Bucket -> Int]]
      /\ CountsAgree' /\ Last(list[w][b]) \in Int
      /\ \A v \in Worker, d \in Bucket : v # w \/ d # b => list'[v][d] = list[v][d]
  BY <1>1, PopKeeps
<1>3. InUse' \subseteq Int \X Bucket /\ users' \in [InUse' -> Nat \ {0}]
  BY <1>1, <1>2, UsersTyped DEF Malloc
<1>4. Typed'
  BY <1>1, <1>2, <1>3 DEF Malloc, Typed, globalVars
<1>5. pc' = pc /\ job' = job /\ pc[w] = "run"
  BY DEF Malloc, Running
<1>6. JobInv' /\ BatchInv'
  BY <1>2, <1>5, OthersKeep DEF IInv, JobInv, BatchInv
<1>. QED  BY <1>2, <1>4, <1>6 DEF IInv

LEMMA FreeKeeps ==
  ASSUME IInv, NEW w \in Worker, NEW x \in InUse, Free(w, x)
  PROVE  IInv'
<1>0. x \in Int \X Bucket /\ x[1] \in Int /\ x[2] \in Bucket
  BY DEF IInv, Typed
<1>1. Push(w, x[2], x[1]) /\ until[w][x[2]] > 0 /\ Typed /\ CountsAgree
  BY DEF Free, IInv
<1>2. /\ list' \in [Worker -> [Bucket -> Seq(Int)]] /\ until' \in [Worker -> [Bucket -> Int]]
      /\ CountsAgree'
      /\ \A v \in Worker, d \in Bucket : v # w \/ d # x[2] => list'[v][d] = list[v][d]
  BY <1>0, <1>1, PushKeeps
<1>3. InUse' \subseteq Int \X Bucket /\ users' \in [InUse' -> Nat \ {0}]
  BY <1>0, <1>1, UsersTyped DEF Free
<1>4. Typed'
  BY <1>1, <1>2, <1>3 DEF Free, Typed, globalVars
<1>5. pc' = pc /\ job' = job /\ pc[w] = "run"
  BY DEF Free, Running
<1>6. JobInv' /\ BatchInv'
  BY <1>2, <1>5, OthersKeep DEF IInv, JobInv, BatchInv
<1>. QED  BY <1>2, <1>4, <1>6 DEF IInv

(* A worker that needs a batch, and gets the lock.                            *)
LEMMA FindKeeps ==
  ASSUME IInv, NEW w \in Worker,
         \/ \E b \in Bucket : FindEmpty(w, b)
         \/ \E x \in InUse : FindFull(w, x)
  PROVE  IInv'
<1>1. CASE \E b \in Bucket : FindEmpty(w, b)
  <2>1. PICK b \in Bucket : FindEmpty(w, b)
    BY <1>1
  <2>2. /\ pc' = [pc EXCEPT ![w] = "want"] /\ job' = [job EXCEPT ![w].bucket = b]
        /\ pc[w] = "run" /\ list[w][b] = <<>>
        /\ UNCHANGED <<listVars, globalVars, users>>
    BY <2>1 DEF FindEmpty, Goto, Running
  <2>3. Typed' /\ CountsAgree'
    BY <2>2 DEF IInv, Typed, CountsAgree, listVars, globalVars, InUse
  <2>4. pc'[w] = "want" /\ job'[w].bucket = b /\ job'[w].block = NULL /\ Len(list'[w][b]) = 0
    BY <2>2, EmptySeq DEF IInv, Typed, JobInv, listVars
  <2>5. \A v \in Worker : v # w => /\ pc'[v] = pc[v] /\ job'[v] = job[v]
                                   /\ \A d \in Bucket : list'[v][d] = list[v][d]
    BY <2>2 DEF listVars, IInv, Typed
  <2>6. JobInv' /\ BatchInv'
    BY <2>4, <2>5, OthersKeep DEF JobInv, BatchInv
  <2>. QED  BY <2>3, <2>6 DEF IInv
<1>2. CASE \E x \in InUse : FindFull(w, x)
  <2>1. PICK x \in InUse : FindFull(w, x)
    BY <1>2
  <2>2. /\ pc' = [pc EXCEPT ![w] = "full"]
        /\ job' = [job EXCEPT ![w].bucket = x[2], ![w].block = x[1]]
        /\ pc[w] = "run" /\ until[w][x[2]] <= 0 /\ users' = DropUser(x)
        /\ UNCHANGED <<listVars, globalVars>>
    BY <2>1 DEF FindFull, Goto, Running
  <2>3. x \in Int \X Bucket /\ x[1] \in Int /\ x[2] \in Bucket
    BY DEF IInv, Typed
  <2>4. InUse' \subseteq Int \X Bucket /\ users' \in [InUse' -> Nat \ {0}]
    BY <2>2, <2>3, UsersTyped DEF IInv
  <2>10. job' \in [Worker -> [bucket : Bucket \union {NULL}, left : Nat, block : Int \union {NULL}]]
    BY <2>2, <2>3 DEF IInv, Typed
  <2>11. pc' \in [Worker -> {"run", "want", "full", "fill", "drain"}]
    BY <2>2 DEF IInv, Typed
  <2>5. Typed' /\ CountsAgree'
    BY <2>2, <2>4, <2>10, <2>11 DEF IInv, Typed, CountsAgree, listVars, globalVars
  <2>6. pc'[w] = "full" /\ job'[w].bucket = x[2] /\ job'[w].block = x[1]
    BY <2>2 DEF IInv, Typed
  <2>7. Len(list'[w][x[2]]) = Capacity[x[2]]
    <3>1. /\ until[w][x[2]] + Len(list[w][x[2]]) = Capacity[x[2]] /\ until[w][x[2]] >= 0
          /\ until[w][x[2]] \in Int /\ list[w][x[2]] \in Seq(Int)
      BY <2>3 DEF IInv, CountsAgree, Typed
    <3>2. Len(list[w][x[2]]) \in Nat
      BY <3>1, LenProperties
    <3>. QED  BY <2>2, <3>1, <3>2 DEF listVars
  <2>8. \A v \in Worker : v # w => /\ pc'[v] = pc[v] /\ job'[v] = job[v]
                                   /\ \A d \in Bucket : list'[v][d] = list[v][d]
    BY <2>2 DEF listVars, IInv, Typed
  <2>9. JobInv' /\ BatchInv'
    BY <2>3, <2>6, <2>7, <2>8, OthersKeep, Sizes DEF JobInv, BatchInv
  <2>. QED  BY <2>5, <2>9 DEF IInv
<1>. QED  BY <1>1, <1>2

LEMMA LockKeeps ==
  ASSUME IInv, NEW w \in Worker, Lock(w)
  PROVE  IInv'
<1>. DEFINE b == job[w].bucket
<1>1. /\ pc[w] \in {"want", "full"} /\ job' = [job EXCEPT ![w].left = BatchSize(b)]
      /\ pc' = [pc EXCEPT ![w] = IF pc[w] = "want" THEN "fill" ELSE "drain"]
      /\ UNCHANGED <<listVars, globalVars, users>>
  BY DEF Lock, Goto
<1>2. b \in Bucket /\ BatchSize(b) \in Nat /\ Capacity[b] \in Nat
  BY <1>1, BatchSizes DEF IInv, JobInv
<1>3. Typed' /\ CountsAgree'
  BY <1>1, <1>2 DEF IInv, Typed, CountsAgree, listVars, globalVars, InUse
<1>4. /\ pc'[w] = IF pc[w] = "want" THEN "fill" ELSE "drain"
      /\ job'[w].bucket = b /\ job'[w].block = job[w].block /\ job'[w].left = BatchSize(b)
  BY <1>1 DEF IInv, Typed
<1>5. Len(list'[w][b]) = IF pc[w] = "want" THEN 0 ELSE Capacity[b]
  BY <1>1 DEF IInv, BatchInv, listVars
<1>6. \A v \in Worker : v # w => /\ pc'[v] = pc[v] /\ job'[v] = job[v]
                                 /\ \A d \in Bucket : list'[v][d] = list[v][d]
  BY <1>1 DEF listVars, IInv, Typed
<1>7. /\ pc'[w] # "run" => job'[w].bucket \in Bucket
      /\ pc'[w] \in {"full", "drain"} <=> job'[w].block # NULL
  BY <1>1, <1>2, <1>4 DEF IInv, JobInv
<1>8. /\ pc'[w] # "want" /\ pc'[w] # "full"
      /\ pc'[w] = "fill" => Len(list'[w][b]) + job'[w].left = BatchSize(b)
      /\ pc'[w] = "drain" => Len(list'[w][b]) = Capacity[b] - BatchSize(b) + job'[w].left
  BY <1>1, <1>2, <1>4, <1>5
<1>9. JobInv' /\ BatchInv'
  BY <1>4, <1>6, <1>7, <1>8, OthersKeep DEF JobInv, BatchInv
<1>. QED  BY <1>3, <1>9 DEF IInv

(* One block of a batch, either way, and its end.                             *)
LEMMA CutTyped ==
  ASSUME Typed, NEW b \in Bucket, Cut(b)
  PROVE  /\ CutAddress(b) \in Int /\ begin' \in Int /\ end' \in Int
         /\ memList' \in Seq(Int \union {UNINIT}) /\ chunks' \in Nat
<1>1. Mmap(chunks + 1) \in Int /\ chunks + 1 \in Nat /\ begin \in Int /\ end \in Int /\ Size[b] \in Nat
  BY Mapped, Sizes DEF Typed
<1>2. CutAddress(b) \in Int
  BY <1>1 DEF CutAddress
<1>3. Grown(memList, chunks + 1) \in Seq(Int \union {UNINIT})
  <2>1. [i \in 1..MEM_LIST_SIZE |-> UNINIT] \in Seq(Int \union {UNINIT})
    <3>1. [i \in 1..MEM_LIST_SIZE |-> UNINIT] \in [1..MEM_LIST_SIZE -> Int \union {UNINIT}]
      OBVIOUS
    <3>. QED  BY <3>1, Sizes, IsASeq
  <2>. QED  BY <2>1, ConcatProperties DEF Grown, Typed
<1>4. [Grown(memList, chunks + 1) EXCEPT ![chunks + 1] = Mmap(chunks + 1)] \in Seq(Int \union {UNINIT})
  <2>. DEFINE s == Grown(memList, chunks + 1)
              t == [s EXCEPT ![chunks + 1] = Mmap(chunks + 1)]
  <2>1. Len(s) \in Nat /\ DOMAIN s = 1..Len(s) /\ \A i \in 1..Len(s) : s[i] \in Int \union {UNINIT}
    BY <1>3, LenProperties, ElementOfSeq
  <2>. HIDE DEF s
  <2>2. t \in [1..Len(s) -> Int \union {UNINIT}]
    BY <1>1, <2>1
  <2>3. t \in Seq(Int \union {UNINIT})
    BY <2>1, <2>2, IsASeq
  <2>. QED  BY <2>3 DEF s
<1>5. begin' \in Int
  BY <1>1, <1>2 DEF Cut
<1>6. CASE DoesNotFit(b)
  <2>1. chunks' = chunks + 1 /\ end' = Mmap(chunks + 1) + Chunk
        /\ memList' = [Grown(memList, chunks + 1) EXCEPT ![chunks + 1] = Mmap(chunks + 1)]
    BY <1>6 DEF Cut
  <2>2. end' \in Int
    BY <1>1, <2>1, Sizes
  <2>. QED  BY <1>1, <1>2, <1>4, <1>5, <2>1, <2>2
<1>7. CASE ~DoesNotFit(b)
  BY <1>2, <1>5, <1>7 DEF Cut, Typed
<1>. QED  BY <1>6, <1>7

(* FillOne takes a block from the global list or from the chunk.              *)
Given(w, b, a) ==
  \/ /\ glist[b] # <<>> /\ a = Last(glist[b])
     /\ glist' = [glist EXCEPT ![b] = Front(@)]
     /\ UNCHANGED <<begin, end, memList, chunks, wasted>>
  \/ /\ glist[b] = <<>> /\ a = CutAddress(b)
     /\ Cut(b)
     /\ UNCHANGED glist
LEMMA FillOneGives ==
  ASSUME NEW w \in Worker, FillOne(w)
  PROVE  \E a : Given(w, job[w].bucket, a) /\ Push(w, job[w].bucket, a)
BY DEF FillOne, Given

LEMMA FillOneKeeps ==
  ASSUME IInv, NEW w \in Worker, FillOne(w)
  PROVE  IInv'
<1>. DEFINE b == job[w].bucket
<1>1. /\ pc[w] = "fill" /\ job[w].left > 0 /\ until[w][b] > 0
      /\ job' = [job EXCEPT ![w].left = job[w].left - 1]
      /\ UNCHANGED <<pc, users>>
  BY DEF FillOne
<1>2. b \in Bucket /\ Typed /\ CountsAgree /\ job[w].left \in Nat
  BY <1>1 DEF IInv, JobInv, Typed
<1>3. PICK a : Given(w, b, a) /\ Push(w, b, a)
  BY FillOneGives
<1>4. /\ a \in Int /\ glist' \in [Bucket -> Seq(Int)] /\ begin' \in Int /\ end' \in Int
      /\ memList' \in Seq(Int \union {UNINIT}) /\ chunks' \in Nat
  <2>1. CASE glist[b] # <<>> /\ a = Last(glist[b]) /\ glist' = [glist EXCEPT ![b] = Front(@)]
                             /\ UNCHANGED <<begin, end, memList, chunks, wasted>>
    <3>1. glist[b] \in Seq(Int)
      BY <1>2 DEF Typed
    <3>2. Front(glist[b]) \in Seq(Int) /\ Last(glist[b]) \in Int
      BY <2>1, <3>1, PopFacts
    <3>. QED  BY <1>2, <2>1, <3>2 DEF Typed
  <2>2. CASE a = CutAddress(b) /\ Cut(b) /\ UNCHANGED glist
    BY <1>2, <2>2, CutTyped DEF Typed
  <2>. QED  BY <1>3, <2>1, <2>2 DEF Given
<1>5. /\ list' \in [Worker -> [Bucket -> Seq(Int)]] /\ until' \in [Worker -> [Bucket -> Int]]
      /\ CountsAgree' /\ Len(list[w][b]) \in Nat /\ Len(list'[w][b]) = Len(list[w][b]) + 1
      /\ \A v \in Worker, d \in Bucket : v # w \/ d # b => list'[v][d] = list[v][d]
  BY <1>1, <1>2, <1>3, <1>4, PushKeeps
<1>6. job' \in [Worker -> [bucket : Bucket \union {NULL}, left : Nat, block : Int \union {NULL}]]
  <2>1. job[w].left - 1 \in Nat
    BY <1>1, <1>2
  <2>. QED  BY <1>1, <1>2, <2>1 DEF Typed
<1>7. Typed'
  BY <1>1, <1>2, <1>4, <1>5, <1>6 DEF Typed, InUse
<1>8. /\ pc'[w] = "fill" /\ job'[w].bucket = b /\ job'[w].block = job[w].block
      /\ job'[w].left = job[w].left - 1
      /\ \A v \in Worker : v # w => pc'[v] = pc[v] /\ job'[v] = job[v]
  BY <1>1, <1>2 DEF Typed
<1>9. Len(list'[w][b]) + job'[w].left = BatchSize(b)
  <2>. DEFINE n == Len(list[w][b])
              m == Len(list'[w][b])
  <2>1. n \in Nat /\ m = n + 1 /\ n + job[w].left = BatchSize(b)
    BY <1>1, <1>5 DEF IInv, BatchInv
  <2>. HIDE DEF n, m
  <2>2. m + (job[w].left - 1) = BatchSize(b)
    BY <1>2, <2>1
  <2>. QED  BY <1>8, <2>2 DEF m
<1>10. JobInv' /\ BatchInv'
  BY <1>1, <1>2, <1>5, <1>8, <1>9, OthersKeep DEF IInv, JobInv, BatchInv
<1>. QED  BY <1>5, <1>7, <1>10 DEF IInv

LEMMA DrainOneKeeps ==
  ASSUME IInv, NEW w \in Worker, DrainOne(w)
  PROVE  IInv'
<1>. DEFINE b == job[w].bucket
            a == Last(list[w][b])
<1>1. /\ pc[w] = "drain" /\ job[w].left > 0 /\ list[w][b] # <<>> /\ Pop(w, b)
      /\ glist' = [glist EXCEPT ![b] = Append(@, a)]
      /\ job' = [job EXCEPT ![w].left = job[w].left - 1]
      /\ UNCHANGED <<begin, end, memList, chunks, pc, users>>
  BY DEF DrainOne
<1>2. b \in Bucket /\ Typed /\ CountsAgree /\ job[w].left \in Nat
  BY <1>1 DEF IInv, JobInv, Typed
<1>5. /\ list' \in [Worker -> [Bucket -> Seq(Int)]] /\ until' \in [Worker -> [Bucket -> Int]]
      /\ CountsAgree' /\ a \in Int /\ Len(list[w][b]) \in Nat /\ Len(list'[w][b]) = Len(list[w][b]) - 1
      /\ \A v \in Worker, d \in Bucket : v # w \/ d # b => list'[v][d] = list[v][d]
  BY <1>1, <1>2, PopKeeps
<1>4. glist' \in [Bucket -> Seq(Int)]
  <2>. HIDE DEF a
  <2>1. glist[b] \in Seq(Int)
    BY <1>2 DEF Typed
  <2>2. Append(glist[b], a) \in Seq(Int)
    BY <1>5, <2>1, PushFacts
  <2>. QED  BY <1>1, <1>2, <2>2 DEF Typed
<1>6. job' \in [Worker -> [bucket : Bucket \union {NULL}, left : Nat, block : Int \union {NULL}]]
  <2>1. job[w].left - 1 \in Nat
    BY <1>1, <1>2
  <2>. QED  BY <1>1, <1>2, <2>1 DEF Typed
<1>7. Typed'
  BY <1>1, <1>2, <1>4, <1>5, <1>6 DEF Typed, InUse
<1>8. /\ pc'[w] = "drain" /\ job'[w].bucket = b /\ job'[w].block = job[w].block
      /\ job'[w].left = job[w].left - 1
      /\ \A v \in Worker : v # w => pc'[v] = pc[v] /\ job'[v] = job[v]
  BY <1>1, <1>2 DEF Typed
<1>9. Len(list'[w][b]) = Capacity[b] - BatchSize(b) + job'[w].left
  <2>. DEFINE n == Len(list[w][b])
              m == Len(list'[w][b])
  <2>0. Capacity[b] \in Nat /\ BatchSize(b) \in Nat
    BY <1>2, BatchSizes
  <2>1. n \in Nat /\ m = n - 1 /\ n = Capacity[b] - BatchSize(b) + job[w].left
    BY <1>1, <1>5 DEF IInv, BatchInv
  <2>. HIDE DEF n, m
  <2>2. m = Capacity[b] - BatchSize(b) + (job[w].left - 1)
    BY <1>2, <2>0, <2>1
  <2>. QED  BY <1>8, <2>2 DEF m
<1>10. pc'[w] # "run" => job'[w].bucket \in Bucket
  BY <1>2, <1>8
<1>11. pc'[w] \in {"full", "drain"} <=> job'[w].block # NULL
  BY <1>1, <1>8 DEF IInv, JobInv
<1>12. JobInv' /\ BatchInv'
  BY <1>5, <1>8, <1>9, <1>10, <1>11, OthersKeep DEF JobInv, BatchInv
<1>. QED  BY <1>5, <1>7, <1>12 DEF IInv

LEMMA EndsKeep ==
  ASSUME IInv, NEW w \in Worker, Filled(w) \/ Drained(w)
  PROVE  IInv'
<1>. DEFINE b == job[w].bucket
<1>1. /\ pc[w] \in {"fill", "drain"}
      /\ job' = [job EXCEPT ![w] = Idle] /\ pc' = [pc EXCEPT ![w] = "run"]
      /\ UNCHANGED globalVars
  BY DEF Filled, Drained, Goto
<1>2. b \in Bucket /\ Typed /\ CountsAgree
  BY <1>1 DEF IInv, JobInv, Typed
<1>3. /\ list' \in [Worker -> [Bucket -> Seq(Int)]] /\ until' \in [Worker -> [Bucket -> Int]]
      /\ CountsAgree' /\ InUse' \subseteq Int \X Bucket /\ users' \in [InUse' -> Nat \ {0}]
      /\ \A v \in Worker, d \in Bucket : v # w \/ d # b => list'[v][d] = list[v][d]
  <2>1. CASE Filled(w)
    <3>1. pc[w] = "fill" /\ job[w].left = 0 /\ Pop(w, b) /\ users' = AddUser(<<Last(list[w][b]), b>>)
      BY <2>1 DEF Filled
    <3>2. list[w][b] # <<>>
      BY <3>1, BatchesSuffice DEF NoReentry
    <3>3. /\ list' \in [Worker -> [Bucket -> Seq(Int)]] /\ until' \in [Worker -> [Bucket -> Int]]
          /\ CountsAgree' /\ Last(list[w][b]) \in Int
          /\ \A v \in Worker, d \in Bucket : v # w \/ d # b => list'[v][d] = list[v][d]
      BY <1>2, <3>1, <3>2, PopKeeps
    <3>. QED  BY <1>2, <3>1, <3>3, UsersTyped
  <2>2. CASE Drained(w)
    <3>1. until[w][b] > 0 /\ Push(w, b, job[w].block) /\ UNCHANGED users /\ job[w].block \in Int
      BY <2>2 DEF Drained, IInv, JobInv, Typed
    <3>2. /\ list' \in [Worker -> [Bucket -> Seq(Int)]] /\ until' \in [Worker -> [Bucket -> Int]]
          /\ CountsAgree'
          /\ \A v \in Worker, d \in Bucket : v # w \/ d # b => list'[v][d] = list[v][d]
      BY <1>2, <3>1, PushKeeps
    <3>. QED  BY <1>2, <3>1, <3>2 DEF Typed, InUse
  <2>. QED  BY <2>1, <2>2
<1>4. Typed'
  BY <1>1, <1>2, <1>3 DEF Typed, globalVars, Idle
<1>5. /\ pc'[w] = "run" /\ job'[w].block = NULL
      /\ \A v \in Worker : v # w => pc'[v] = pc[v] /\ job'[v] = job[v]
  BY <1>1, <1>2 DEF Typed, Idle
<1>6. \A v \in Worker : v # w => \A d \in Bucket : list'[v][d] = list[v][d]
  BY <1>3
<1>7. JobInv'
  <2>. SUFFICES ASSUME NEW v \in Worker
                PROVE  /\ pc'[v] # "run" => job'[v].bucket \in Bucket
                       /\ pc'[v] \in {"full", "drain"} <=> job'[v].block # NULL
    BY DEF JobInv
  <2>1. CASE v = w
    BY <1>5, <2>1
  <2>. QED  BY <1>5, <1>6, <2>1, OthersKeep
<1>8. BatchInv'
  <2>. SUFFICES ASSUME NEW v \in Worker
                PROVE  LET d == job'[v].bucket
                           n == Len(list'[v][d])
                       IN /\ pc'[v] = "want" => n = 0
                          /\ pc'[v] = "full" => n = Capacity[d]
                          /\ pc'[v] = "fill" => n + job'[v].left = BatchSize(d)
                          /\ pc'[v] = "drain" => n = Capacity[d] - BatchSize(d) + job'[v].left
    BY DEF BatchInv
  <2>1. CASE v = w
    BY <1>5, <2>1
  <2>. QED  BY <1>5, <1>6, <2>1, OthersKeep
<1>. QED  BY <1>3, <1>4, <1>7, <1>8 DEF IInv

LEMMA Inductive == IInv /\ [Next]_vars => IInv'
<1>. SUFFICES ASSUME IInv, [Next]_vars  PROVE IInv'
  OBVIOUS
<1>1. CASE Destroy \/ UNCHANGED vars
  BY <1>1 DEF Destroy, vars, listVars, globalVars, IInv, Typed, JobInv, BatchInv, CountsAgree, InUse
<1>2. ASSUME NEW w \in Worker,
             \/ \E b \in Bucket : Malloc(w, b) \/ FindEmpty(w, b)
             \/ \E x \in InUse : Free(w, x) \/ FindFull(w, x)
             \/ Lock(w) \/ FillOne(w) \/ Filled(w) \/ DrainOne(w) \/ Drained(w)
      PROVE  IInv'
  BY <1>2, MallocKeeps, FreeKeeps, FindKeeps, LockKeeps, FillOneKeeps, DrainOneKeeps, EndsKeep
<1>. QED  BY <1>1, <1>2 DEF Next, Terminated

LEMMA Invariance == Spec => []IInv
BY Initially, Inductive, PTL DEF Spec

(* The count kept next to each local free list is the room left on it, and no *)
(* list outgrows its capacity, whatever the block sizes and the traffic.      *)
THEOREM CountsKept == Spec => []CountsAgree
<1>1. IInv => CountsAgree
  BY DEF IInv
<1>. QED  BY <1>1, Invariance, PTL

(* Inside a batch no worker needs another batch: im_lock, which is not        *)
(* recursive, is never asked for by the worker that holds it.                 *)
THEOREM NeverReentered == Spec => []NoReentry
<1>1. IInv => NoReentry
  BY BatchesSuffice
<1>. QED  BY <1>1, Invariance, PTL
-----------------------------------------------------------------------------
(* Every chunk is recorded, in a list that has room for it.                   *)
RecordInv == \A k \in 1..chunks : k <= Len(memList) /\ memList[k] = Mmap(k)

LEMMA RecordKept ==
  ASSUME IInv, [Next]_vars, RecordInv
  PROVE  RecordInv'
<1>1. chunks \in Nat /\ memList \in Seq(Int \union {UNINIT})
  BY DEF IInv, Typed
<1>2. CASE UNCHANGED <<chunks, memList>>
  BY <1>2 DEF RecordInv
<1>3. ASSUME NEW b \in Bucket, Cut(b)
      PROVE  RecordInv'
  <2>1. CASE ~DoesNotFit(b)
    BY <1>2, <1>3, <2>1 DEF Cut
  <2>2. CASE DoesNotFit(b)
    <3>. DEFINE n == chunks + 1
                s == Grown(memList, n)
    <3>1. chunks' = n /\ memList' = [s EXCEPT ![n] = Mmap(n)]
      BY <1>3, <2>2 DEF Cut
    <3>2. /\ s \in Seq(Int \union {UNINIT}) /\ Len(s) \in Nat /\ Len(memList) \in Nat
          /\ Len(s) >= Len(memList) /\ (n > Len(memList) => Len(s) > Len(memList))
          /\ \A i \in 1..Len(memList) : s[i] = memList[i]
      <4>. DEFINE more == [i \in 1..MEM_LIST_SIZE |-> UNINIT]
      <4>1. more \in Seq(Int \union {UNINIT}) /\ Len(more) = MEM_LIST_SIZE
        <5>1. more \in [1..MEM_LIST_SIZE -> Int \union {UNINIT}] /\ DOMAIN more = 1..MEM_LIST_SIZE
          OBVIOUS
        <5>. QED  BY <5>1, Sizes, IsASeq, LenProperties
      <4>. HIDE DEF more
      <4>2. /\ memList \o more \in Seq(Int \union {UNINIT})
            /\ Len(memList \o more) = Len(memList) + Len(more)
            /\ \A i \in 1..Len(memList) + Len(more) :
                 (memList \o more)[i] = IF i <= Len(memList) THEN memList[i] ELSE more[i - Len(memList)]
        BY <1>1, <4>1, ConcatProperties
      <4>3. Len(memList) \in Nat /\ MEM_LIST_SIZE \in Nat /\ MEM_LIST_SIZE > 0
        BY <1>1, LenProperties, Sizes
      <4>4. CASE n <= Len(memList)
        <5>1. s = memList
          BY <4>4 DEF Grown
        <5>. QED  BY <1>1, <4>3, <4>4, <5>1
      <4>5. CASE ~(n <= Len(memList))
        <5>1. s = memList \o more
          BY <4>5 DEF Grown, more
        <5>2. \A i \in 1..Len(memList) : (memList \o more)[i] = memList[i]
          <6>1. \A i \in 1..Len(memList) : i \in 1..Len(memList) + Len(more) /\ i <= Len(memList)
            BY <4>1, <4>3
          <6>. QED  BY <4>2, <6>1
        <5>3. /\ Len(memList \o more) > Len(memList) /\ Len(memList \o more) \in Nat
              /\ Len(memList \o more) >= Len(memList)
          BY <4>1, <4>2, <4>3
        <5>. QED  BY <4>2, <4>3, <5>1, <5>2, <5>3, Zenon
      <4>. QED  BY <4>4, <4>5
    <3>. HIDE DEF s
    <3>3. chunks <= Len(memList)
      <4>1. CASE chunks = 0
        BY <3>2, <4>1
      <4>2. CASE chunks # 0
        <5>1. chunks \in 1..chunks
          BY <1>1, <4>2
        <5>. QED  BY <5>1 DEF RecordInv
      <4>. QED  BY <4>1, <4>2
    <3>4. n <= Len(s)
      BY <1>1, <3>2, <3>3
    <3>5. /\ Len(memList') = Len(s) /\ memList'[n] = Mmap(n)
          /\ \A i \in 1..Len(s) : i # n => memList'[i] = s[i]
      <4>1. DOMAIN memList' = DOMAIN s /\ DOMAIN s = 1..Len(s)
        BY <3>1, <3>2, LenProperties
      <4>2. n \in 1..Len(s)
        BY <1>1, <3>2, <3>4
      <4>3. memList' \in Seq(Int \union {UNINIT})
        BY <1>3, CutTyped DEF IInv
      <4>4. DOMAIN memList' = 1..Len(memList') /\ Len(memList') \in Nat
        BY <4>3, LenProperties
      <4>. HIDE DEF n
      <4>5. Len(memList') = Len(s)
        BY <3>2, <4>1, <4>4
      <4>6. memList'[n] = Mmap(n) /\ \A i \in 1..Len(s) : i # n => memList'[i] = s[i]
        BY <3>1, <4>1, <4>2
      <4>. QED  BY <4>5, <4>6
    <3>6. ASSUME NEW k \in 1..n  PROVE k <= Len(memList') /\ memList'[k] = Mmap(k)
      <4>1. CASE k = n
        BY <3>4, <3>5, <4>1
      <4>2. CASE k # n
        <5>1. k \in 1..chunks
          BY <1>1, <4>2
        <5>2. k <= Len(memList) /\ memList[k] = Mmap(k)
          BY <5>1 DEF RecordInv
        <5>3. k \in 1..Len(memList) /\ k \in 1..Len(s)
          BY <3>2, <5>1, <5>2
        <5>. QED  BY <3>2, <3>5, <4>2, <5>2, <5>3
      <4>. QED  BY <4>1, <4>2
    <3>. QED  BY <3>1, <3>6 DEF RecordInv
  <2>. QED  BY <2>1, <2>2
<1>4. ASSUME NEW w \in Worker, FillOne(w)
      PROVE  RecordInv'
  <2>1. job[w].bucket \in Bucket
    BY <1>4 DEF FillOne, IInv, JobInv
  <2>2. UNCHANGED <<chunks, memList>> \/ Cut(job[w].bucket)
    BY <1>4 DEF FillOne
  <2>. QED  BY <1>2, <1>3, <2>1, <2>2
<1>5. \/ UNCHANGED <<chunks, memList>>
      \/ \E w \in Worker : FillOne(w)
  BY DEF Next, vars, globalVars, Malloc, FindEmpty, Free, FindFull, Lock, Filled, DrainOne, Drained,
     Destroy, Terminated
<1>. QED  BY <1>2, <1>4, <1>5

-----------------------------------------------------------------------------
(* How the claims to a unit u change when a block is put somewhere or taken   *)
(* away: one claim appears, or disappears, if u is a unit of the block.       *)
Claim(c, u, a, b) == IF u \in Units(a, b) THEN {c} ELSE {}

LEMMA LocalMember ==
  ASSUME NEW u, NEW c
  PROVE  c \in LocalClaims(u) <=>
           \E w \in Worker, b \in Bucket : \E i \in OnList(list[w][b], b, u) : c = <<"local", w, b, i>>
BY DEF LocalClaims, ClaimsOf

LEMMA ListPops ==
  ASSUME NEW s \in Seq(Int), s # <<>>, NEW b, NEW u
  PROVE  /\ OnList(Front(s), b, u) = OnList(s, b, u) \ {Len(s)}
         /\ Len(s) \in OnList(s, b, u) <=> u \in Units(Last(s), b)
<1>1. /\ Len(s) \in Nat \ {0} /\ Last(s) = s[Len(s)] /\ Len(Front(s)) = Len(s) - 1
      /\ \A i \in 1..Len(s) - 1 : Front(s)[i] = s[i]
  BY PopFacts
<1>2. 1..Len(s) - 1 = (1..Len(s)) \ {Len(s)} /\ Len(s) \in 1..Len(s)
  BY <1>1
<1>. QED  BY <1>1, <1>2 DEF OnList

LEMMA ListPushes ==
  ASSUME NEW s \in Seq(Int), NEW a \in Int, NEW b, NEW u
  PROVE  OnList(Append(s, a), b, u) = OnList(s, b, u) \union Claim(Len(s) + 1, u, a, b)
<1>1. /\ Len(s) \in Nat /\ Len(Append(s, a)) = Len(s) + 1 /\ Append(s, a)[Len(s) + 1] = a
      /\ \A i \in 1..Len(s) : Append(s, a)[i] = s[i]
  BY PushFacts
<1>2. 1..Len(s) + 1 = (1..Len(s)) \union {Len(s) + 1} /\ Len(s) + 1 \notin 1..Len(s)
  BY <1>1
<1>. QED  BY <1>1, <1>2 DEF OnList, Claim

LEMMA LocalPops ==
  ASSUME Typed, NEW w \in Worker, NEW b \in Bucket, Pop(w, b), list[w][b] # <<>>, NEW u
  PROVE  LET old == <<"local", w, b, Len(list[w][b])>>
         IN /\ LocalClaims(u)' = LocalClaims(u) \ {old}
            /\ old \in LocalClaims(u) <=> u \in Units(Last(list[w][b]), b)
<1>. DEFINE old == <<"local", w, b, Len(list[w][b])>>
<1>1. list[w][b] \in Seq(Int)
  BY DEF Typed
<1>2. /\ OnList(list'[w][b], b, u) = OnList(list[w][b], b, u) \ {Len(list[w][b])}
      /\ Len(list[w][b]) \in OnList(list[w][b], b, u) <=> u \in Units(Last(list[w][b]), b)
      /\ \A v \in Worker, d \in Bucket : v # w \/ d # b => list'[v][d] = list[v][d]
  <2>1. list'[w][b] = Front(list[w][b])
    BY DEF Pop, Typed
  <2>2. \A v \in Worker, d \in Bucket : v # w \/ d # b => list'[v][d] = list[v][d]
    BY DEF Pop, Typed
  <2>. QED  BY <1>1, <2>1, <2>2, ListPops
<1>3. old \in LocalClaims(u) <=> u \in Units(Last(list[w][b]), b)
  BY <1>2, LocalMember
<1>4. ASSUME NEW c  PROVE c \in LocalClaims(u)' <=> c \in LocalClaims(u) /\ c # old
  <2>1. c \in LocalClaims(u)' <=>
          \E v \in Worker, d \in Bucket : \E i \in OnList(list'[v][d], d, u) : c = <<"local", v, d, i>>
    BY DEF LocalClaims, ClaimsOf, OnList, Units
  <2>2. ASSUME NEW v \in Worker, NEW d \in Bucket, NEW i, c = <<"local", v, d, i>>
        PROVE  i \in OnList(list'[v][d], d, u) <=> i \in OnList(list[v][d], d, u) /\ c # old
    <3>1. c = old <=> v = w /\ d = b /\ i = Len(list[w][b])
      BY <2>2
    <3>2. CASE v = w /\ d = b
      BY <1>2, <3>1, <3>2
    <3>3. CASE v # w \/ d # b
      BY <1>2, <3>1, <3>3
    <3>. QED  BY <3>2, <3>3
  <2>. QED  BY <2>1, <2>2, LocalMember
<1>. QED  BY <1>3, <1>4

LEMMA LocalPushes ==
  ASSUME Typed, NEW w \in Worker, NEW b \in Bucket, NEW a \in Int, Push(w, b, a), NEW u
  PROVE  LocalClaims(u)' = LocalClaims(u) \union Claim(<<"local", w, b, Len(list[w][b]) + 1>>, u, a, b)
<1>. DEFINE new == <<"local", w, b, Len(list[w][b]) + 1>>
<1>1. list[w][b] \in Seq(Int)
  BY DEF Typed
<1>2. /\ OnList(list'[w][b], b, u) = OnList(list[w][b], b, u) \union Claim(Len(list[w][b]) + 1, u, a, b)
      /\ \A v \in Worker, d \in Bucket : v # w \/ d # b => list'[v][d] = list[v][d]
  <2>1. list'[w][b] = Append(list[w][b], a)
    BY DEF Push, Typed
  <2>2. \A v \in Worker, d \in Bucket : v # w \/ d # b => list'[v][d] = list[v][d]
    BY DEF Push, Typed
  <2>. QED  BY <1>1, <2>1, <2>2, ListPushes
<1>3. ASSUME NEW c
      PROVE  c \in LocalClaims(u)' <=>
               \E v \in Worker, d \in Bucket : \E i \in OnList(list'[v][d], d, u) : c = <<"local", v, d, i>>
  BY DEF LocalClaims, ClaimsOf, OnList, Units
<1>4. ASSUME NEW c  PROVE c \in LocalClaims(u)' <=> c \in LocalClaims(u) \/ (c = new /\ u \in Units(a, b))
  <2>2. ASSUME NEW v \in Worker, NEW d \in Bucket, NEW i, c = <<"local", v, d, i>>
        PROVE  i \in OnList(list'[v][d], d, u) <=>
                 i \in OnList(list[v][d], d, u) \/ (c = new /\ u \in Units(a, b))
    <3>1. c = new <=> v = w /\ d = b /\ i = Len(list[w][b]) + 1
      BY <2>2
    <3>2. CASE v = w /\ d = b
      BY <1>2, <3>1, <3>2 DEF Claim
    <3>3. CASE v # w \/ d # b
      BY <1>2, <3>1, <3>3
    <3>. QED  BY <3>2, <3>3
  <2>3. u \in Units(a, b) => Len(list[w][b]) + 1 \in OnList(list'[w][b], b, u)
    BY <1>2 DEF Claim
  <2>4. u \in Units(a, b) => new \in LocalClaims(u)'
    BY <1>3, <2>3
  <2>. QED  BY <1>3, <2>2, <2>4, LocalMember
<1>. QED  BY <1>4 DEF Claim

LEMMA GlobalPops ==
  ASSUME Typed, NEW b \in Bucket, glist[b] # <<>>, glist' = [glist EXCEPT ![b] = Front(@)], NEW u
  PROVE  LET old == <<"global", b, Len(glist[b])>>
         IN /\ GlobalClaims(u)' = GlobalClaims(u) \ {old}
            /\ old \in GlobalClaims(u) <=> u \in Units(Last(glist[b]), b)
<1>. DEFINE old == <<"global", b, Len(glist[b])>>
<1>1. glist[b] \in Seq(Int)
  BY DEF Typed
<1>2. /\ OnList(glist'[b], b, u) = OnList(glist[b], b, u) \ {Len(glist[b])}
      /\ Len(glist[b]) \in OnList(glist[b], b, u) <=> u \in Units(Last(glist[b]), b)
      /\ \A d \in Bucket : d # b => glist'[d] = glist[d]
  <2>1. glist'[b] = Front(glist[b]) /\ \A d \in Bucket : d # b => glist'[d] = glist[d]
    BY DEF Typed
  <2>. QED  BY <1>1, <2>1, ListPops
<1>3. old \in GlobalClaims(u) <=> u \in Units(Last(glist[b]), b)
  BY <1>2 DEF GlobalClaims
<1>4. ASSUME NEW c  PROVE c \in GlobalClaims(u)' <=> c \in GlobalClaims(u) /\ c # old
  <2>1. /\ c \in GlobalClaims(u)' <=> \E d \in Bucket : \E i \in OnList(glist'[d], d, u) : c = <<"global", d, i>>
        /\ c \in GlobalClaims(u) <=> \E d \in Bucket : \E i \in OnList(glist[d], d, u) : c = <<"global", d, i>>
    BY DEF GlobalClaims, OnList, Units
  <2>2. ASSUME NEW d \in Bucket, NEW i, c = <<"global", d, i>>
        PROVE  i \in OnList(glist'[d], d, u) <=> i \in OnList(glist[d], d, u) /\ c # old
    <3>1. c = old <=> d = b /\ i = Len(glist[b])
      BY <2>2
    <3>. QED  BY <1>2, <3>1
  <2>. QED  BY <2>1, <2>2
<1>. QED  BY <1>3, <1>4

LEMMA GlobalPushes ==
  ASSUME Typed, NEW b \in Bucket, NEW a \in Int, glist' = [glist EXCEPT ![b] = Append(@, a)], NEW u
  PROVE  GlobalClaims(u)' = GlobalClaims(u) \union Claim(<<"global", b, Len(glist[b]) + 1>>, u, a, b)
<1>. DEFINE new == <<"global", b, Len(glist[b]) + 1>>
<1>1. glist[b] \in Seq(Int)
  BY DEF Typed
<1>2. /\ OnList(glist'[b], b, u) = OnList(glist[b], b, u) \union Claim(Len(glist[b]) + 1, u, a, b)
      /\ \A d \in Bucket : d # b => glist'[d] = glist[d]
  <2>1. glist'[b] = Append(glist[b], a) /\ \A d \in Bucket : d # b => glist'[d] = glist[d]
    BY DEF Typed
  <2>. QED  BY <1>1, <2>1, ListPushes
<1>4. ASSUME NEW c  PROVE c \in GlobalClaims(u)' <=> c \in GlobalClaims(u) \/ (c = new /\ u \in Units(a, b))
  <2>1. /\ c \in GlobalClaims(u)' <=> \E d \in Bucket : \E i \in OnList(glist'[d], d, u) : c = <<"global", d, i>>
        /\ c \in GlobalClaims(u) <=> \E d \in Bucket : \E i \in OnList(glist[d], d, u) : c = <<"global", d, i>>
    BY DEF GlobalClaims, OnList, Units
  <2>2. ASSUME NEW d \in Bucket, NEW i, c = <<"global", d, i>>
        PROVE  i \in OnList(glist'[d], d, u) <=>
                 i \in OnList(glist[d], d, u) \/ (c = new /\ u \in Units(a, b))
    <3>1. c = new <=> d = b /\ i = Len(glist[b]) + 1
      BY <2>2
    <3>. QED  BY <1>2, <3>1 DEF Claim
  <2>3. u \in Units(a, b) => Len(glist[b]) + 1 \in OnList(glist'[b], b, u)
    BY <1>2 DEF Claim
  <2>. QED  BY <2>1, <2>2, <2>3
<1>. QED  BY <1>4 DEF Claim

LEMMA UseGrows ==
  ASSUME Typed, NEW x \in Int \X Bucket, users' = AddUser(x), NEW u
  PROVE  UseClaims(u)' = UseClaims(u) \union Claim(<<"use", x, Users(x) + 1>>, u, x[1], x[2])
<1>. DEFINE new == <<"use", x, Users(x) + 1>>
<1>1. InUse' = InUse \union {x} /\ \A y \in InUse' : users'[y] = IF y = x THEN Users(x) + 1 ELSE users[y]
  BY DEF AddUser, InUse
<1>2. Users(x) \in Nat /\ (x \in InUse => Users(x) = users[x]) /\ (x \notin InUse => Users(x) = 0)
  BY DEF Users, Typed, InUse
<1>3. ASSUME NEW c
      PROVE  /\ c \in UseClaims(u) <=>
                  \E y \in InUse : u \in Units(y[1], y[2]) /\ \E i \in 1..users[y] : c = <<"use", y, i>>
             /\ c \in UseClaims(u)' <=>
                  \E y \in InUse' : u \in Units(y[1], y[2]) /\ \E i \in 1..users'[y] : c = <<"use", y, i>>
  BY DEF UseClaims, Units
<1>4. ASSUME NEW y, NEW i
      PROVE  y \in InUse' /\ i \in 1..users'[y] <=>
               (y \in InUse /\ i \in 1..users[y]) \/ (y = x /\ i = Users(x) + 1)
  <2>1. CASE y = x
    <3>1. i \in 1..Users(x) + 1 <=> i \in 1..Users(x) \/ i = Users(x) + 1
      BY <1>2
    <3>2. i \in 1..Users(x) <=> x \in InUse /\ i \in 1..users[x]
      BY <1>2
    <3>. QED  BY <1>1, <2>1, <3>1, <3>2
  <2>2. CASE y # x
    BY <1>1, <2>2
  <2>. QED  BY <2>1, <2>2
<1>5. ASSUME NEW c  PROVE c \in UseClaims(u)' <=> c \in UseClaims(u) \/ (c = new /\ u \in Units(x[1], x[2]))
  BY <1>3, <1>4
<1>. QED  BY <1>5 DEF Claim

LEMMA UseShrinks ==
  ASSUME Typed, NEW x \in InUse, users' = DropUser(x), NEW u
  PROVE  LET old == <<"use", x, users[x]>>
         IN /\ UseClaims(u)' = UseClaims(u) \ {old}
            /\ old \in UseClaims(u) <=> u \in Units(x[1], x[2])
<1>. DEFINE old == <<"use", x, users[x]>>
<1>1. /\ InUse' = {z \in InUse : z # x \/ users[x] > 1}
      /\ \A y \in InUse' : users'[y] = IF y = x THEN users[x] - 1 ELSE users[y]
  BY DEF DropUser, InUse
<1>2. users[x] \in Nat \ {0}
  BY DEF Typed
<1>3. ASSUME NEW c
      PROVE  /\ c \in UseClaims(u) <=>
                  \E y \in InUse : u \in Units(y[1], y[2]) /\ \E i \in 1..users[y] : c = <<"use", y, i>>
             /\ c \in UseClaims(u)' <=>
                  \E y \in InUse' : u \in Units(y[1], y[2]) /\ \E i \in 1..users'[y] : c = <<"use", y, i>>
  BY DEF UseClaims, Units
<1>4. ASSUME NEW y, NEW i
      PROVE  y \in InUse' /\ i \in 1..users'[y] <=>
               y \in InUse /\ i \in 1..users[y] /\ ~(y = x /\ i = users[x])
  <2>1. CASE y = x
    <3>1. i \in 1..users[x] - 1 <=> i \in 1..users[x] /\ i # users[x]
      BY <1>2
    <3>2. i \in 1..users[x] - 1 => users[x] > 1
      BY <1>2
    <3>. QED  BY <1>1, <2>1, <3>1, <3>2
  <2>2. CASE y # x
    BY <1>1, <2>2
  <2>. QED  BY <2>1, <2>2
<1>5. ASSUME NEW c  PROVE c \in UseClaims(u)' <=> c \in UseClaims(u) /\ c # old
  <2>1. ASSUME NEW y, NEW i, c = <<"use", y, i>>
        PROVE  c = old <=> y = x /\ i = users[x]
    BY <2>1
  <2>. QED  BY <1>3, <1>4, <2>1
<1>6. old \in UseClaims(u) <=> u \in Units(x[1], x[2])
  <2>1. users[x] \in 1..users[x]
    BY <1>2
  <2>2. old \in UseClaims(u) <=>
          \E y \in InUse : u \in Units(y[1], y[2]) /\ \E i \in 1..users[y] : old = <<"use", y, i>>
    BY <1>3
  <2>3. \A y, i : old = <<"use", y, i>> <=> y = x /\ i = users[x]
    OBVIOUS
  <2>. QED  BY <2>1, <2>2, <2>3
<1>. QED  BY <1>5, <1>6

LEMMA FreeingGrows ==
  ASSUME Typed, NEW w \in Worker, NEW b \in Bucket, NEW a \in Int, job[w].block = NULL,
         job' = [job EXCEPT ![w].bucket = b, ![w].block = a], NEW u
  PROVE  FreeingClaims(u)' = FreeingClaims(u) \union Claim(<<"freeing", w>>, u, a, b)
<1>1. /\ job'[w].bucket = b /\ job'[w].block = a /\ a # NULL
      /\ \A v \in Worker : v # w => job'[v] = job[v]
  BY Sizes DEF Typed
<1>2. \A v \in Worker : Freeing(v, u)' <=> IF v = w THEN u \in Units(a, b) ELSE Freeing(v, u)
  BY <1>1 DEF Freeing, Units
<1>3. ~Freeing(w, u)
  BY DEF Freeing
<1>4. ASSUME NEW c
      PROVE  /\ c \in FreeingClaims(u) <=> \E v \in Worker : Freeing(v, u) /\ c = <<"freeing", v>>
             /\ c \in FreeingClaims(u)' <=> \E v \in Worker : Freeing(v, u)' /\ c = <<"freeing", v>>
  BY DEF FreeingClaims
<1>5. ASSUME NEW c
      PROVE  c \in FreeingClaims(u)' <=>
               c \in FreeingClaims(u) \/ (c = <<"freeing", w>> /\ u \in Units(a, b))
  BY <1>2, <1>3, <1>4
<1>. QED  BY <1>5 DEF Claim

LEMMA FreeingShrinks ==
  ASSUME Typed, NEW w \in Worker, job' = [job EXCEPT ![w] = Idle], NEW u
  PROVE  /\ FreeingClaims(u)' = FreeingClaims(u) \ {<<"freeing", w>>}
         /\ <<"freeing", w>> \in FreeingClaims(u) <=> Freeing(w, u)
<1>1. job'[w].block = NULL /\ \A v \in Worker : v # w => job'[v] = job[v]
  BY DEF Typed, Idle
<1>2. \A v \in Worker : Freeing(v, u)' <=> v # w /\ Freeing(v, u)
  BY <1>1 DEF Freeing, Units
<1>4. ASSUME NEW c
      PROVE  /\ c \in FreeingClaims(u) <=> \E v \in Worker : Freeing(v, u) /\ c = <<"freeing", v>>
             /\ c \in FreeingClaims(u)' <=> \E v \in Worker : Freeing(v, u)' /\ c = <<"freeing", v>>
  BY DEF FreeingClaims
<1>5. ASSUME NEW c
      PROVE  c \in FreeingClaims(u)' <=> c \in FreeingClaims(u) /\ c # <<"freeing", w>>
  <2>1. \A v : c = <<"freeing", v>> => (c = <<"freeing", w>> <=> v = w)
    OBVIOUS
  <2>. QED  BY <1>2, <1>4, <2>1
<1>6. <<"freeing", w>> \in FreeingClaims(u) <=> Freeing(w, u)
  <2>1. \A v : <<"freeing", w>> = <<"freeing", v>> => v = w
    OBVIOUS
  <2>. QED  BY <1>4, <2>1
<1>. QED  BY <1>5, <1>6

(* A batch that goes on, or begins, frees no other block.                     *)
LEMMA FreeingStays ==
  ASSUME Typed, NEW u,
         \A w \in Worker : job'[w].block = job[w].block /\ (job[w].block # NULL => job'[w].bucket = job[w].bucket)
  PROVE  FreeingClaims(u)' = FreeingClaims(u)
<1>1. \A v \in Worker : Freeing(v, u)' <=> Freeing(v, u)
  BY DEF Freeing, Units
<1>. QED  BY <1>1 DEF FreeingClaims

(* Claims of different kinds are different.                                   *)
LEMMA Kinds ==
  ASSUME NEW u, NEW c \in Claims(u)
  PROVE  /\ c \in LocalClaims(u) <=> c[1] = "local"
         /\ c \in GlobalClaims(u) <=> c[1] = "global"
         /\ c \in FreeingClaims(u) <=> c[1] = "freeing"
         /\ c \in UseClaims(u) <=> c[1] = "use"
         /\ c \in RestClaims(u) <=> c[1] = "rest"
         /\ c \in WasteClaims(u) <=> c[1] = "waste"
<1>1. c \in LocalClaims(u) => c[1] = "local"
  BY DEF LocalClaims, ClaimsOf
<1>2. c \in GlobalClaims(u) => c[1] = "global"
  BY DEF GlobalClaims
<1>3. c \in FreeingClaims(u) => c[1] = "freeing"
  BY DEF FreeingClaims
<1>4. c \in UseClaims(u) => c[1] = "use"
  BY DEF UseClaims
<1>5. c \in RestClaims(u) => c[1] = "rest"
  BY DEF RestClaims
<1>6. c \in WasteClaims(u) => c[1] = "waste"
  BY DEF WasteClaims
<1>. QED  BY <1>1, <1>2, <1>3, <1>4, <1>5, <1>6 DEF Claims
-----------------------------------------------------------------------------
(* Units below the end of the last chunk obtained have one claim, those that  *)
(* are not obtained yet have none.                                            *)
Fine(u) == IF u < Chunk * (Obtained + 1) THEN \E c : Claims(u) = {c} ELSE Claims(u) = {}
UnitsInv == \A u \in Int : u >= Chunk => Fine(u)

LEMMA ClaimsMember ==
  ASSUME NEW u, NEW c
  PROVE  c \in Claims(u) <=> \/ c \in LocalClaims(u) \/ c \in GlobalClaims(u) \/ c \in FreeingClaims(u)
                             \/ c \in UseClaims(u) \/ c \in RestClaims(u) \/ c \in WasteClaims(u)
BY DEF Claims

(* A step that moves a block from one place to another.                       *)
LEMMA BlockMoves ==
  ASSUME NEW u, Fine(u), NEW old, NEW new, NEW a, NEW b,
         UNCHANGED chunks,
         old \in Claims(u) <=> u \in Units(a, b),
         Claims(u)' = (Claims(u) \ {old}) \union Claim(new, u, a, b)
  PROVE  Fine(u)'
<1>1. /\ Claims(u) = {} => Claims(u)' = {}
      /\ (\E c : Claims(u) = {c}) => \E d : Claims(u)' = {d}
  <2>. DEFINE C == Claims(u)
              D == Claims(u)'
  <2>1. /\ old \in C <=> u \in Units(a, b)
        /\ D = (C \ {old}) \union Claim(new, u, a, b)
    OBVIOUS
  <2>. HIDE DEF C, D
  <2>2. CASE u \in Units(a, b)
    <3>1. D = (C \ {old}) \union {new} /\ old \in C
      BY <2>1, <2>2 DEF Claim
    <3>2. \A c : C = {c} => D = {new}
      BY <3>1
    <3>. QED  BY <3>1, <3>2 DEF C, D
  <2>3. CASE u \notin Units(a, b)
    <3>1. D = C
      BY <2>1, <2>3 DEF Claim
    <3>. QED  BY <3>1 DEF C, D
  <2>. QED  BY <2>2, <2>3
<1>2. Obtained' = Obtained
  BY DEF Obtained
<1>. QED  BY <1>1, <1>2 DEF Fine

LEMMA RestStays ==
  ASSUME NEW u
  PROVE  /\ UNCHANGED <<begin, end>> => RestClaims(u)' = RestClaims(u)
         /\ UNCHANGED wasted => WasteClaims(u)' = WasteClaims(u)
         /\ UNCHANGED list => LocalClaims(u)' = LocalClaims(u)
         /\ UNCHANGED glist => GlobalClaims(u)' = GlobalClaims(u)
         /\ UNCHANGED users => UseClaims(u)' = UseClaims(u)
         /\ UNCHANGED job => FreeingClaims(u)' = FreeingClaims(u)
BY DEF RestClaims, WasteClaims, LocalClaims, ClaimsOf, OnList, Units, GlobalClaims, UseClaims, InUse,
   FreeingClaims, Freeing

LEMMA TakenForUse ==
  ASSUME Typed, NEW w \in Worker, NEW b \in Bucket, Pop(w, b), list[w][b] # <<>>,
         users' = AddUser(<<Last(list[w][b]), b>>), UNCHANGED globalVars,
         NEW u, FreeingClaims(u)' = FreeingClaims(u), Fine(u)
  PROVE  Fine(u)'
<1>. DEFINE a == Last(list[w][b])
            x == <<a, b>>
            old == <<"local", w, b, Len(list[w][b])>>
            new == <<"use", x, Users(x) + 1>>
<1>1. list[w][b] \in Seq(Int)
  BY DEF Typed
<1>2. a \in Int /\ x \in Int \X Bucket /\ x[1] = a /\ x[2] = b
  BY <1>1, PopFacts
<1>3. LocalClaims(u)' = LocalClaims(u) \ {old} /\ (old \in LocalClaims(u) <=> u \in Units(a, b))
  BY LocalPops
<1>. HIDE DEF a
<1>4. UseClaims(u)' = UseClaims(u) \union Claim(new, u, a, b)
  <2>1. users' = AddUser(x)
    BY DEF a
  <2>. HIDE DEF x
  <2>. QED  BY <1>2, <2>1, UseGrows
<1>5. /\ GlobalClaims(u)' = GlobalClaims(u) /\ RestClaims(u)' = RestClaims(u)
      /\ WasteClaims(u)' = WasteClaims(u)
  BY RestStays DEF globalVars
<1>6. old[1] = "local"
  OBVIOUS
<1>. HIDE DEF old, new, x
<1>7. old \in Claims(u) <=> u \in Units(a, b)
  BY <1>3, <1>6, Kinds, ClaimsMember
<1>8. ASSUME NEW c  PROVE c \in Claims(u)' <=> (c \in Claims(u) /\ c # old) \/ c \in Claim(new, u, a, b)
  <2>1. c \in Claims(u)' <=> \/ c \in LocalClaims(u)' \/ c \in GlobalClaims(u)' \/ c \in FreeingClaims(u)'
                             \/ c \in UseClaims(u)' \/ c \in RestClaims(u)' \/ c \in WasteClaims(u)'
    BY DEF Claims
  <2>2. c \in Claims(u) /\ c = old => c \notin GlobalClaims(u) \union FreeingClaims(u) \union UseClaims(u)
                                               \union RestClaims(u) \union WasteClaims(u)
    BY <1>6, Kinds
  <2>. QED  BY <1>3, <1>4, <1>5, <2>1, <2>2, ClaimsMember
<1>9. Claims(u)' = (Claims(u) \ {old}) \union Claim(new, u, a, b)
  BY <1>8
<1>. QED  BY <1>7, <1>9, BlockMoves DEF globalVars

LEMMA ReturnedToList ==
  ASSUME IInv, NEW w \in Worker, NEW x \in InUse, Free(w, x), NEW u, Fine(u)
  PROVE  Fine(u)'
<1>. DEFINE a == x[1]
            b == x[2]
            old == <<"use", x, users[x]>>
            new == <<"local", w, b, Len(list[w][b]) + 1>>
<1>1. Typed /\ a \in Int /\ b \in Bucket
  BY DEF IInv, Typed
<1>2. Push(w, b, a) /\ users' = DropUser(x) /\ UNCHANGED globalVars /\ UNCHANGED job
  BY DEF Free
<1>3. UseClaims(u)' = UseClaims(u) \ {old} /\ (old \in UseClaims(u) <=> u \in Units(a, b))
  BY <1>1, <1>2, UseShrinks
<1>4. LocalClaims(u)' = LocalClaims(u) \union Claim(new, u, a, b)
  BY <1>1, <1>2, LocalPushes
<1>5. /\ GlobalClaims(u)' = GlobalClaims(u) /\ RestClaims(u)' = RestClaims(u)
      /\ WasteClaims(u)' = WasteClaims(u) /\ FreeingClaims(u)' = FreeingClaims(u)
  BY <1>2, RestStays DEF globalVars
<1>6. old[1] = "use"
  OBVIOUS
<1>. HIDE DEF old, new, a, b
<1>7. old \in Claims(u) <=> u \in Units(a, b)
  BY <1>3, <1>6, Kinds, ClaimsMember
<1>8. ASSUME NEW c  PROVE c \in Claims(u)' <=> (c \in Claims(u) /\ c # old) \/ c \in Claim(new, u, a, b)
  <2>1. c \in Claims(u)' <=> \/ c \in LocalClaims(u)' \/ c \in GlobalClaims(u)' \/ c \in FreeingClaims(u)'
                             \/ c \in UseClaims(u)' \/ c \in RestClaims(u)' \/ c \in WasteClaims(u)'
    BY DEF Claims
  <2>2. c \in Claims(u) /\ c = old => c \notin GlobalClaims(u) \union FreeingClaims(u) \union LocalClaims(u)
                                               \union RestClaims(u) \union WasteClaims(u)
    BY <1>6, Kinds
  <2>. QED  BY <1>3, <1>4, <1>5, <2>1, <2>2, ClaimsMember
<1>9. Claims(u)' = (Claims(u) \ {old}) \union Claim(new, u, a, b)
  BY <1>8
<1>. QED  BY <1>2, <1>7, <1>9, BlockMoves DEF globalVars

LEMMA HeldForBatch ==
  ASSUME IInv, NEW w \in Worker, NEW x \in InUse, FindFull(w, x), NEW u, Fine(u)
  PROVE  Fine(u)'
<1>. DEFINE a == x[1]
            b == x[2]
            old == <<"use", x, users[x]>>
            new == <<"freeing", w>>
<1>1. Typed /\ a \in Int /\ b \in Bucket
  BY DEF IInv, Typed
<1>2. /\ users' = DropUser(x) /\ job' = [job EXCEPT ![w].bucket = b, ![w].block = a]
      /\ UNCHANGED <<listVars, globalVars>> /\ pc[w] = "run"
  BY DEF FindFull, Running
<1>3. UseClaims(u)' = UseClaims(u) \ {old} /\ (old \in UseClaims(u) <=> u \in Units(a, b))
  BY <1>1, <1>2, UseShrinks
<1>4. FreeingClaims(u)' = FreeingClaims(u) \union Claim(new, u, a, b)
  <2>1. job[w].block = NULL
    BY <1>2 DEF IInv, JobInv
  <2>. HIDE DEF a, b
  <2>. QED  BY <1>1, <1>2, <2>1, FreeingGrows
<1>5. /\ GlobalClaims(u)' = GlobalClaims(u) /\ RestClaims(u)' = RestClaims(u)
      /\ WasteClaims(u)' = WasteClaims(u) /\ LocalClaims(u)' = LocalClaims(u)
  BY <1>2, RestStays DEF globalVars, listVars
<1>6. old[1] = "use"
  OBVIOUS
<1>. HIDE DEF old, new, a, b
<1>7. old \in Claims(u) <=> u \in Units(a, b)
  BY <1>3, <1>6, Kinds, ClaimsMember
<1>8. ASSUME NEW c  PROVE c \in Claims(u)' <=> (c \in Claims(u) /\ c # old) \/ c \in Claim(new, u, a, b)
  <2>1. c \in Claims(u)' <=> \/ c \in LocalClaims(u)' \/ c \in GlobalClaims(u)' \/ c \in FreeingClaims(u)'
                             \/ c \in UseClaims(u)' \/ c \in RestClaims(u)' \/ c \in WasteClaims(u)'
    BY DEF Claims
  <2>2. c \in Claims(u) /\ c = old => c \notin GlobalClaims(u) \union FreeingClaims(u) \union LocalClaims(u)
                                               \union RestClaims(u) \union WasteClaims(u)
    BY <1>6, Kinds
  <2>. QED  BY <1>3, <1>4, <1>5, <2>1, <2>2, ClaimsMember
<1>9. Claims(u)' = (Claims(u) \ {old}) \union Claim(new, u, a, b)
  BY <1>8
<1>. QED  BY <1>2, <1>7, <1>9, BlockMoves DEF globalVars

LEMMA PutAfterBatch ==
  ASSUME IInv, NEW w \in Worker, Drained(w), NEW u, Fine(u)
  PROVE  Fine(u)'
<1>. DEFINE a == job[w].block
            b == job[w].bucket
            old == <<"freeing", w>>
            new == <<"local", w, b, Len(list[w][b]) + 1>>
<1>1. Typed /\ a \in Int /\ b \in Bucket /\ a # NULL
  BY DEF IInv, Typed, JobInv, Drained
<1>2. /\ UNCHANGED users /\ job' = [job EXCEPT ![w] = Idle]
      /\ UNCHANGED globalVars /\ Push(w, b, a)
  BY DEF Drained
<1>3. FreeingClaims(u)' = FreeingClaims(u) \ {old} /\ (old \in FreeingClaims(u) <=> u \in Units(a, b))
  BY <1>1, <1>2, FreeingShrinks DEF Freeing
<1>4. LocalClaims(u)' = LocalClaims(u) \union Claim(new, u, a, b)
  BY <1>1, <1>2, LocalPushes
<1>5. /\ GlobalClaims(u)' = GlobalClaims(u) /\ RestClaims(u)' = RestClaims(u)
      /\ WasteClaims(u)' = WasteClaims(u) /\ UseClaims(u)' = UseClaims(u)
  BY <1>2, RestStays DEF globalVars
<1>6. old[1] = "freeing"
  OBVIOUS
<1>. HIDE DEF old, new, a, b
<1>7. old \in Claims(u) <=> u \in Units(a, b)
  BY <1>3, <1>6, Kinds, ClaimsMember
<1>8. ASSUME NEW c  PROVE c \in Claims(u)' <=> (c \in Claims(u) /\ c # old) \/ c \in Claim(new, u, a, b)
  <2>1. c \in Claims(u)' <=> \/ c \in LocalClaims(u)' \/ c \in GlobalClaims(u)' \/ c \in FreeingClaims(u)'
                             \/ c \in UseClaims(u)' \/ c \in RestClaims(u)' \/ c \in WasteClaims(u)'
    BY DEF Claims
  <2>2. c \in Claims(u) /\ c = old => c \notin GlobalClaims(u) \union UseClaims(u) \union LocalClaims(u)
                                               \union RestClaims(u) \union WasteClaims(u)
    BY <1>6, Kinds
  <2>. QED  BY <1>3, <1>4, <1>5, <2>1, <2>2, ClaimsMember
<1>9. Claims(u)' = (Claims(u) \ {old}) \union Claim(new, u, a, b)
  BY <1>8
<1>. QED  BY <1>2, <1>7, <1>9, BlockMoves DEF globalVars

LEMMA MovedToGlobal ==
  ASSUME IInv, NEW w \in Worker, DrainOne(w), NEW u, Fine(u)
  PROVE  Fine(u)'
<1>. DEFINE b == job[w].bucket
            a == Last(list[w][b])
            old == <<"local", w, b, Len(list[w][b])>>
            new == <<"global", b, Len(glist[b]) + 1>>
<1>1. Typed /\ b \in Bucket
  BY DEF IInv, JobInv, DrainOne
<1>2. /\ UNCHANGED <<begin, end, chunks, wasted, users>> /\ Pop(w, b) /\ list[w][b] # <<>>
      /\ glist' = [glist EXCEPT ![b] = Append(@, a)] /\ job' = [job EXCEPT ![w].left = job[w].left - 1]
  BY DEF DrainOne
<1>3. LocalClaims(u)' = LocalClaims(u) \ {old} /\ (old \in LocalClaims(u) <=> u \in Units(a, b))
  BY <1>1, <1>2, LocalPops
<1>4. GlobalClaims(u)' = GlobalClaims(u) \union Claim(new, u, a, b)
  <2>1. list[w][b] \in Seq(Int)
    BY <1>1 DEF Typed
  <2>2. a \in Int
    BY <1>2, <2>1, PopFacts
  <2>. HIDE DEF a
  <2>. QED  BY <1>1, <1>2, <2>2, GlobalPushes
<1>5. /\ UseClaims(u)' = UseClaims(u) /\ RestClaims(u)' = RestClaims(u)
      /\ WasteClaims(u)' = WasteClaims(u)
  BY <1>2, RestStays
<1>10. FreeingClaims(u)' = FreeingClaims(u)
  <2>1. \A v \in Worker : job'[v].block = job[v].block /\ job'[v].bucket = job[v].bucket
    BY <1>1, <1>2 DEF Typed
  <2>. QED  BY <1>1, <2>1, FreeingStays
<1>6. old[1] = "local"
  OBVIOUS
<1>. HIDE DEF old, new, a, b
<1>7. old \in Claims(u) <=> u \in Units(a, b)
  BY <1>3, <1>6, Kinds, ClaimsMember
<1>8. ASSUME NEW c  PROVE c \in Claims(u)' <=> (c \in Claims(u) /\ c # old) \/ c \in Claim(new, u, a, b)
  <2>1. c \in Claims(u)' <=> \/ c \in LocalClaims(u)' \/ c \in GlobalClaims(u)' \/ c \in FreeingClaims(u)'
                             \/ c \in UseClaims(u)' \/ c \in RestClaims(u)' \/ c \in WasteClaims(u)'
    BY DEF Claims
  <2>2. c \in Claims(u) /\ c = old => c \notin GlobalClaims(u) \union UseClaims(u) \union FreeingClaims(u)
                                               \union RestClaims(u) \union WasteClaims(u)
    BY <1>6, Kinds
  <2>. QED  BY <1>3, <1>4, <1>5, <1>10, <2>1, <2>2, ClaimsMember
<1>9. Claims(u)' = (Claims(u) \ {old}) \union Claim(new, u, a, b)
  BY <1>8
<1>. QED  BY <1>2, <1>7, <1>9, BlockMoves

(* A block from the global list, or cut off the chunk, of which it is a part; *)
(* or the first of a new chunk, whose units nobody had.                       *)
LEMMA MovedToLocal ==
  ASSUME IInv, NEW w \in Worker, FillOne(w), glist[job[w].bucket] # <<>>, NEW u, Fine(u)
  PROVE  Fine(u)'
<1>. DEFINE b == job[w].bucket
            a == Last(glist[b])
            old == <<"global", b, Len(glist[b])>>
            new == <<"local", w, b, Len(list[w][b]) + 1>>
<1>1. Typed /\ b \in Bucket
  BY DEF IInv, JobInv, FillOne
<1>2. /\ UNCHANGED <<begin, end, chunks, wasted, users>> /\ Push(w, b, a) /\ glist[b] # <<>>
      /\ glist' = [glist EXCEPT ![b] = Front(@)] /\ job' = [job EXCEPT ![w].left = job[w].left - 1]
  BY DEF FillOne
<1>3. GlobalClaims(u)' = GlobalClaims(u) \ {old} /\ (old \in GlobalClaims(u) <=> u \in Units(a, b))
  BY <1>1, <1>2, GlobalPops
<1>4. LocalClaims(u)' = LocalClaims(u) \union Claim(new, u, a, b)
  <2>1. glist[b] \in Seq(Int)
    BY <1>1 DEF Typed
  <2>2. a \in Int
    BY <1>2, <2>1, PopFacts
  <2>. HIDE DEF a
  <2>. QED  BY <1>1, <1>2, <2>2, LocalPushes
<1>5. /\ UseClaims(u)' = UseClaims(u) /\ RestClaims(u)' = RestClaims(u)
      /\ WasteClaims(u)' = WasteClaims(u)
  BY <1>2, RestStays
<1>10. FreeingClaims(u)' = FreeingClaims(u)
  <2>1. \A v \in Worker : job'[v].block = job[v].block /\ job'[v].bucket = job[v].bucket
    BY <1>1, <1>2 DEF Typed
  <2>. QED  BY <1>1, <2>1, FreeingStays
<1>6. old[1] = "global"
  OBVIOUS
<1>. HIDE DEF old, new, a, b
<1>7. old \in Claims(u) <=> u \in Units(a, b)
  BY <1>3, <1>6, Kinds, ClaimsMember
<1>8. ASSUME NEW c  PROVE c \in Claims(u)' <=> (c \in Claims(u) /\ c # old) \/ c \in Claim(new, u, a, b)
  <2>1. c \in Claims(u)' <=> \/ c \in LocalClaims(u)' \/ c \in GlobalClaims(u)' \/ c \in FreeingClaims(u)'
                             \/ c \in UseClaims(u)' \/ c \in RestClaims(u)' \/ c \in WasteClaims(u)'
    BY DEF Claims
  <2>2. c \in Claims(u) /\ c = old => c \notin LocalClaims(u) \union UseClaims(u) \union FreeingClaims(u)
                                               \union RestClaims(u) \union WasteClaims(u)
    BY <1>6, Kinds
  <2>. QED  BY <1>3, <1>4, <1>5, <1>10, <2>1, <2>2, ClaimsMember
<1>9. Claims(u)' = (Claims(u) \ {old}) \union Claim(new, u, a, b)
  BY <1>8
<1>. QED  BY <1>2, <1>7, <1>9, BlockMoves

(* What all blocks cut off a chunk have in common.                            *)
LEMMA CutClaims ==
  ASSUME IInv, NEW w \in Worker, FillOne(w), glist[job[w].bucket] = <<>>, NEW u
  PROVE  LET b == job[w].bucket
             new == <<"local", w, b, Len(list[w][b]) + 1>>
         IN /\ b \in Bucket /\ Cut(b) /\ new[1] = "local"
            /\ LocalClaims(u)' = LocalClaims(u) \union Claim(new, u, CutAddress(b), b)
            /\ UseClaims(u)' = UseClaims(u) /\ GlobalClaims(u)' = GlobalClaims(u)
            /\ FreeingClaims(u)' = FreeingClaims(u)
<1>. DEFINE b == job[w].bucket
            a == CutAddress(b)
<1>1. Typed /\ b \in Bucket
  BY DEF IInv, JobInv, FillOne
<1>2. /\ UNCHANGED <<users, glist>> /\ Push(w, b, a) /\ Cut(b)
      /\ job' = [job EXCEPT ![w].left = job[w].left - 1]
  BY DEF FillOne
<1>3. a \in Int
  BY <1>1, <1>2, CutTyped
<1>4. LocalClaims(u)' = LocalClaims(u) \union Claim(<<"local", w, b, Len(list[w][b]) + 1>>, u, a, b)
  <2>. HIDE DEF a
  <2>. QED  BY <1>1, <1>2, <1>3, LocalPushes
<1>5. UseClaims(u)' = UseClaims(u) /\ GlobalClaims(u)' = GlobalClaims(u)
  BY <1>2, RestStays
<1>6. FreeingClaims(u)' = FreeingClaims(u)
  <2>1. \A v \in Worker : job'[v].block = job[v].block /\ job'[v].bucket = job[v].bucket
    BY <1>1, <1>2 DEF Typed
  <2>. QED  BY <1>1, <2>1, FreeingStays
<1>. QED  BY <1>1, <1>2, <1>4, <1>5, <1>6

LEMMA RestMember ==
  ASSUME NEW u, NEW c
  PROVE  /\ c \in RestClaims(u) <=> c = <<"rest">> /\ u \in begin..end-1
         /\ c \in WasteClaims(u) <=> c = <<"waste">> /\ u \in wasted
BY DEF RestClaims, WasteClaims

LEMMA CutFromRest ==
  ASSUME IInv, NEW w \in Worker, FillOne(w), glist[job[w].bucket] = <<>>,
         ~DoesNotFit(job[w].bucket), NEW u \in Int, Fine(u)
  PROVE  Fine(u)'
<1>. DEFINE b == job[w].bucket
            new == <<"local", w, b, Len(list[w][b]) + 1>>
            old == IF u \in Units(begin, b) THEN <<"rest">> ELSE <<"none">>
<1>1. /\ b \in Bucket /\ new[1] = "local"
      /\ LocalClaims(u)' = LocalClaims(u) \union Claim(new, u, begin, b)
      /\ UseClaims(u)' = UseClaims(u) /\ GlobalClaims(u)' = GlobalClaims(u)
      /\ FreeingClaims(u)' = FreeingClaims(u)
      /\ begin' = begin + Size[b] /\ UNCHANGED <<end, chunks, wasted>>
  BY CutClaims DEF Cut, CutAddress
<1>2. begin \in Int /\ end \in Int /\ Size[b] \in Nat /\ 0 < Size[b] /\ begin + Size[b] <= end
  BY <1>1, Sizes DEF IInv, Typed, DoesNotFit
<1>3. /\ u \in Units(begin, b) => u \in begin..end-1
      /\ u \in begin'..end'-1 <=> u \in begin..end-1 /\ u \notin Units(begin, b)
  BY <1>1, <1>2 DEF Units
<1>4. WasteClaims(u)' = WasteClaims(u)
  BY <1>1, RestStays
<1>5. ASSUME NEW c  PROVE c \in RestClaims(u)' <=> c \in RestClaims(u) /\ c # old
  <2>1. c \in RestClaims(u)' <=> c = <<"rest">> /\ u \in begin'..end'-1
    BY DEF RestClaims
  <2>2. <<"none">> # <<"rest">>
    OBVIOUS
  <2>. QED  BY <1>3, <2>1, <2>2, RestMember
<1>6. old \in Claims(u) <=> u \in Units(begin, b)
  <2>1. CASE u \in Units(begin, b)
    BY <1>3, <2>1, RestMember, ClaimsMember
  <2>2. CASE u \notin Units(begin, b)
    <3>1. old[1] = "none"
      BY <2>2
    <3>2. old[1] \notin {"local", "global", "freeing", "use", "rest", "waste"}
      BY <3>1
    <3>. HIDE DEF old
    <3>. QED  BY <2>2, <3>2, Kinds, ClaimsMember
  <2>. QED  BY <2>1, <2>2
<1>7. old[1] \in {"rest", "none"}
  OBVIOUS
<1>. HIDE DEF old, new, b
<1>8. ASSUME NEW c  PROVE c \in Claims(u)' <=> (c \in Claims(u) /\ c # old) \/ c \in Claim(new, u, begin, b)
  <2>1. c \in Claims(u)' <=> \/ c \in LocalClaims(u)' \/ c \in GlobalClaims(u)' \/ c \in FreeingClaims(u)'
                             \/ c \in UseClaims(u)' \/ c \in RestClaims(u)' \/ c \in WasteClaims(u)'
    BY DEF Claims
  <2>2. c \in Claims(u) /\ c = old => c \notin LocalClaims(u) \union UseClaims(u) \union FreeingClaims(u)
                                               \union GlobalClaims(u) \union WasteClaims(u)
    BY <1>7, Kinds
  <2>. QED  BY <1>1, <1>4, <1>5, <2>1, <2>2, ClaimsMember
<1>9. Claims(u)' = (Claims(u) \ {old}) \union Claim(new, u, begin, b)
  BY <1>8
<1>. QED  BY <1>1, <1>6, <1>9, BlockMoves

(* A new chunk: what is left of the old one is given up.                      *)
LEMMA NewChunk ==
  ASSUME IInv, NEW w \in Worker, FillOne(w), glist[job[w].bucket] = <<>>,
         DoesNotFit(job[w].bucket), NEW u \in Int
  PROVE  LET b == job[w].bucket
             k == Mmap(chunks + 1)
         IN /\ b \in Bucket /\ k \in Int /\ Size[b] \in Nat /\ 0 < Size[b] /\ Size[b] <= Chunk
            /\ chunks' = chunks + 1 /\ chunks \in Nat
            /\ \A c : c \in RestClaims(u)' <=> c = <<"rest">> /\ u \in k + Size[b]..k + Chunk - 1
            /\ \A c : c \in WasteClaims(u)' <=> c \in WasteClaims(u)
                                                \/ (c = <<"waste">> /\ <<"rest">> \in RestClaims(u))
            /\ u \in Units(k, b) <=> u \in k..k + Size[b] - 1
            /\ LocalClaims(u)' = LocalClaims(u) \union Claim(<<"local", w, b, Len(list[w][b]) + 1>>, u, k, b)
            /\ UseClaims(u)' = UseClaims(u) /\ GlobalClaims(u)' = GlobalClaims(u)
            /\ FreeingClaims(u)' = FreeingClaims(u)
<1>. DEFINE b == job[w].bucket
            k == Mmap(chunks + 1)
<1>1. /\ b \in Bucket /\ Cut(b) /\ CutAddress(b) = k
      /\ LocalClaims(u)' = LocalClaims(u) \union Claim(<<"local", w, b, Len(list[w][b]) + 1>>, u, k, b)
      /\ UseClaims(u)' = UseClaims(u) /\ GlobalClaims(u)' = GlobalClaims(u)
      /\ FreeingClaims(u)' = FreeingClaims(u)
  BY CutClaims DEF CutAddress
<1>2. /\ begin' = k + Size[b] /\ chunks' = chunks + 1 /\ end' = k + Chunk
      /\ wasted' = wasted \union (begin..end-1)
  BY <1>1 DEF Cut
<1>3. chunks \in Nat /\ k \in Int /\ Size[b] \in Nat /\ 0 < Size[b] /\ Size[b] <= Chunk
  <2>1. chunks \in Nat /\ chunks + 1 \in Nat
    BY DEF IInv, Typed
  <2>2. k \in Int
    BY <2>1, Mapped
  <2>. QED  BY <1>1, <2>1, <2>2, Sizes
<1>4. \A c : c \in RestClaims(u)' <=> c = <<"rest">> /\ u \in k + Size[b]..k + Chunk - 1
  <2>. HIDE DEF k, b
  <2>1. \A c : c \in RestClaims(u)' <=> c = <<"rest">> /\ u \in begin'..end'-1
    BY DEF RestClaims
  <2>2. begin' = k + Size[b] /\ end' - 1 = k + Chunk - 1
    BY <1>2, <1>3, Sizes
  <2>. QED  BY <2>1, <2>2, Zenon
<1>5. \A c : c \in WasteClaims(u)' <=> c = <<"waste">> /\ u \in wasted \union (begin..end-1)
  BY <1>2 DEF WasteClaims
<1>6. \A c : c \in WasteClaims(u)' <=> c \in WasteClaims(u)
                                       \/ (c = <<"waste">> /\ <<"rest">> \in RestClaims(u))
  BY <1>5, RestMember
<1>7. u \in Units(k, b) <=> u \in k..k + Size[b] - 1
  BY DEF Units
<1>. QED  BY <1>1, <1>2, <1>3, <1>4, <1>6, <1>7

(* Away from the new chunk the rest of the old one becomes waste.             *)
LEMMA OldChunkWasted ==
  ASSUME IInv, NEW w \in Worker, FillOne(w), glist[job[w].bucket] = <<>>,
         DoesNotFit(job[w].bucket), NEW u \in Int,
         u \notin Mmap(chunks + 1)..Mmap(chunks + 1) + Chunk - 1
  PROVE  /\ Claims(u) = {} => Claims(u)' = {}
         /\ (\E c : Claims(u) = {c}) => \E d : Claims(u)' = {d}
<1>. DEFINE b == job[w].bucket
            k == Mmap(chunks + 1)
<1>1. /\ b \in Bucket /\ k \in Int /\ Size[b] \in Nat /\ 0 < Size[b] /\ Size[b] <= Chunk
      /\ \A c : c \in RestClaims(u)' <=> c = <<"rest">> /\ u \in k + Size[b]..k + Chunk - 1
      /\ \A c : c \in WasteClaims(u)' <=> c \in WasteClaims(u)
                                          \/ (c = <<"waste">> /\ <<"rest">> \in RestClaims(u))
      /\ u \in Units(k, b) <=> u \in k..k + Size[b] - 1
      /\ LocalClaims(u)' = LocalClaims(u) \union Claim(<<"local", w, b, Len(list[w][b]) + 1>>, u, k, b)
      /\ UseClaims(u)' = UseClaims(u) /\ GlobalClaims(u)' = GlobalClaims(u)
      /\ FreeingClaims(u)' = FreeingClaims(u)
  BY NewChunk
<1>2. u \notin Units(k, b) /\ u \notin k + Size[b]..k + Chunk - 1
  <2>1. u \notin k..k + Chunk - 1 /\ Chunk \in Nat
    BY Sizes
  <2>. HIDE DEF k
  <2>. QED  BY <1>1, <2>1
<1>3. LocalClaims(u)' = LocalClaims(u) /\ RestClaims(u)' = {}
  BY <1>1, <1>2 DEF Claim
<1>4. ASSUME NEW c
      PROVE  c \in Claims(u)' <=> \/ c \in Claims(u) /\ c # <<"rest">>
                                  \/ c = <<"waste">> /\ <<"rest">> \in Claims(u)
  <2>1. c \in Claims(u)' <=> \/ c \in LocalClaims(u)' \/ c \in GlobalClaims(u)' \/ c \in FreeingClaims(u)'
                             \/ c \in UseClaims(u)' \/ c \in RestClaims(u)' \/ c \in WasteClaims(u)'
    BY DEF Claims
  <2>2. <<"rest">> \in Claims(u) <=> <<"rest">> \in RestClaims(u)
    <3>1. <<"rest">>[1] = "rest"
      OBVIOUS
    <3>. QED  BY <3>1, Kinds, ClaimsMember
  <2>3. c \in Claims(u) => (c = <<"rest">> <=> c \in RestClaims(u))
    BY <2>2, RestMember
  <2>4. c \in RestClaims(u) => /\ c \notin LocalClaims(u) /\ c \notin GlobalClaims(u) /\ c \notin FreeingClaims(u)
                               /\ c \notin UseClaims(u) /\ c \notin WasteClaims(u)
    <3>. SUFFICES ASSUME c \in RestClaims(u)
                  PROVE  /\ c \notin LocalClaims(u) /\ c \notin GlobalClaims(u) /\ c \notin FreeingClaims(u)
                         /\ c \notin UseClaims(u) /\ c \notin WasteClaims(u)
      OBVIOUS
    <3>1. c \in Claims(u) /\ c[1] = "rest"
      BY ClaimsMember, Kinds
    <3>. QED  BY <3>1, Kinds
  <2>. QED  BY <1>1, <1>3, <2>1, <2>2, <2>3, <2>4, ClaimsMember
<1>5. <<"rest">> # <<"waste">>
  OBVIOUS
<1>6. Claims(u) = {} => Claims(u)' = {}
  BY <1>4
<1>7. ASSUME NEW c, Claims(u) = {c}  PROVE \E d : Claims(u)' = {d}
  <2>1. CASE c = <<"rest">>
    <3>1. Claims(u)' = {<<"waste">>}
      BY <1>4, <1>5, <1>7, <2>1
    <3>. QED  BY <3>1
  <2>2. CASE c # <<"rest">>
    <3>1. Claims(u)' = {c}
      BY <1>4, <1>7, <2>2
    <3>. QED  BY <3>1
  <2>. QED  BY <2>1, <2>2
<1>. QED  BY <1>6, <1>7

(* In the new chunk a unit nobody had belongs to the first block or is left.  *)
LEMMA NewChunkShared ==
  ASSUME IInv, NEW w \in Worker, FillOne(w), glist[job[w].bucket] = <<>>,
         DoesNotFit(job[w].bucket), NEW u \in Int, Claims(u) = {},
         u \in Mmap(chunks + 1)..Mmap(chunks + 1) + Chunk - 1
  PROVE  \E d : Claims(u)' = {d}
<1>. DEFINE b == job[w].bucket
            k == Mmap(chunks + 1)
            new == <<"local", w, b, Len(list[w][b]) + 1>>
<1>1. /\ b \in Bucket /\ k \in Int /\ Size[b] \in Nat /\ 0 < Size[b] /\ Size[b] <= Chunk
      /\ \A c : c \in RestClaims(u)' <=> c = <<"rest">> /\ u \in k + Size[b]..k + Chunk - 1
      /\ \A c : c \in WasteClaims(u)' <=> c \in WasteClaims(u)
                                          \/ (c = <<"waste">> /\ <<"rest">> \in RestClaims(u))
      /\ u \in Units(k, b) <=> u \in k..k + Size[b] - 1
      /\ LocalClaims(u)' = LocalClaims(u) \union Claim(new, u, k, b)
      /\ UseClaims(u)' = UseClaims(u) /\ GlobalClaims(u)' = GlobalClaims(u)
      /\ FreeingClaims(u)' = FreeingClaims(u)
  BY NewChunk
<1>2. u \in k + Size[b]..k + Chunk - 1 <=> u \notin Units(k, b)
  <2>1. u \in k..k + Chunk - 1 /\ Chunk \in Nat
    BY Sizes
  <2>. HIDE DEF k
  <2>. QED  BY <1>1, <2>1
<1>. DEFINE d == IF u \in Units(k, b) THEN new ELSE <<"rest">>
<1>3. ASSUME NEW c  PROVE c \in Claims(u)' <=> c = d
  <2>1. c \in Claims(u)' <=> \/ c \in LocalClaims(u)' \/ c \in GlobalClaims(u)' \/ c \in FreeingClaims(u)'
                             \/ c \in UseClaims(u)' \/ c \in RestClaims(u)' \/ c \in WasteClaims(u)'
    BY DEF Claims
  <2>2. \A x : /\ x \notin LocalClaims(u) /\ x \notin GlobalClaims(u) /\ x \notin FreeingClaims(u)
               /\ x \notin UseClaims(u) /\ x \notin RestClaims(u) /\ x \notin WasteClaims(u)
    BY ClaimsMember
  <2>3. c \in Claim(new, u, k, b) <=> c = new /\ u \in Units(k, b)
    BY DEF Claim
  <2>. HIDE DEF new, k, b
  <2>. QED  BY <1>1, <1>2, <2>1, <2>2, <2>3
<1>4. Claims(u)' = {d}
  BY <1>3
<1>. QED  BY <1>4

LEMMA ChunkOpened ==
  ASSUME IInv, NEW w \in Worker, FillOne(w), glist[job[w].bucket] = <<>>,
         DoesNotFit(job[w].bucket), NEW u \in Int, u >= Chunk, Fine(u)
  PROVE  Fine(u)'
<1>. DEFINE k == Mmap(chunks + 1)
<1>1. chunks' = chunks + 1 /\ chunks \in Nat /\ Chunk \in Nat /\ Supply \in Nat
  BY NewChunk, Sizes
<1>2. CASE chunks + 1 <= Supply
  <2>1. Obtained = chunks /\ Obtained' = chunks + 1 /\ k = Chunk * (chunks + 1)
    BY <1>1, <1>2 DEF Obtained, Mmap
  <2>2. k \in Nat /\ Chunk * (Obtained' + 1) = k + Chunk /\ Chunk * (Obtained + 1) = k
    <3>1. Chunk * (chunks + 1) \in Nat
      BY <1>1, Mapped
    <3>2. Chunk * ((chunks + 1) + 1) = Chunk * (chunks + 1) + Chunk
      BY <1>1
    <3>. QED  BY <2>1, <3>1, <3>2
  <2>3. CASE u \in k..k + Chunk - 1
    <3>1. Claims(u) = {} /\ u < Chunk * (Obtained' + 1)
      <4>. HIDE DEF k
      <4>1. ~(u < Chunk * (Obtained + 1)) /\ u < Chunk * (Obtained' + 1)
        BY <1>1, <2>2, <2>3
      <4>. QED  BY <4>1 DEF Fine
    <3>2. \E d : Claims(u)' = {d}
      BY <2>3, <3>1, NewChunkShared
    <3>. QED  BY <3>1, <3>2 DEF Fine
  <2>4. CASE u \notin k..k + Chunk - 1
    <3>1. /\ Claims(u) = {} => Claims(u)' = {}
          /\ (\E c : Claims(u) = {c}) => \E d : Claims(u)' = {d}
      BY <2>4, OldChunkWasted
    <3>2. u < Chunk * (Obtained' + 1) <=> u < Chunk * (Obtained + 1)
      <4>. HIDE DEF k
      <4>. QED  BY <1>1, <2>2, <2>4
    <3>. QED  BY <3>1, <3>2 DEF Fine
  <2>. QED  BY <2>3, <2>4
<1>3. CASE ~(chunks + 1 <= Supply)
  <2>1. Obtained' = Obtained /\ k = -1
    BY <1>1, <1>3 DEF Obtained, Mmap, MAP_FAILED
  <2>2. u \notin k..k + Chunk - 1
    BY <1>1, <2>1
  <2>3. /\ Claims(u) = {} => Claims(u)' = {}
        /\ (\E c : Claims(u) = {c}) => \E d : Claims(u)' = {d}
    BY <2>2, OldChunkWasted
  <2>. QED  BY <2>1, <2>3 DEF Fine
<1>. QED  BY <1>2, <1>3

LEMMA NothingMoves ==
  ASSUME NEW u, Fine(u), UNCHANGED <<list, glist, begin, end, wasted, chunks, users>>,
         FreeingClaims(u)' = FreeingClaims(u)
  PROVE  Fine(u)'
<1>1. Claims(u)' = Claims(u)
  BY RestStays DEF Claims
<1>2. Obtained' = Obtained
  BY DEF Obtained
<1>. QED  BY <1>1, <1>2 DEF Fine

LEMMA UnitsKept ==
  ASSUME IInv, UnitsInv, [Next]_vars
  PROVE  UnitsInv'
<1>. SUFFICES ASSUME NEW u \in Int, u >= Chunk  PROVE Fine(u)'
  BY DEF UnitsInv
<1>0. Fine(u) /\ Typed
  BY DEF UnitsInv, IInv
<1>1. CASE Destroy \/ UNCHANGED vars
  <2>1. UNCHANGED <<list, glist, begin, end, wasted, chunks, users, job>>
    BY <1>1 DEF Destroy, vars, listVars, globalVars
  <2>. QED  BY <1>0, <2>1, RestStays, NothingMoves
<1>2. ASSUME NEW w \in Worker, NEW b \in Bucket, Malloc(w, b)  PROVE Fine(u)'
  BY <1>0, <1>2, TakenForUse, RestStays DEF Malloc
<1>3. ASSUME NEW w \in Worker, NEW b \in Bucket, FindEmpty(w, b)  PROVE Fine(u)'
  <2>1. job[w].block = NULL /\ job' = [job EXCEPT ![w].bucket = b]
    BY <1>3 DEF FindEmpty, Running, IInv, JobInv
  <2>2. \A v \in Worker : job'[v].block = job[v].block /\ (job[v].block # NULL => job'[v].bucket = job[v].bucket)
    BY <1>0, <2>1 DEF Typed
  <2>3. FreeingClaims(u)' = FreeingClaims(u)
    BY <1>0, <2>2, FreeingStays
  <2>. QED  BY <1>0, <1>3, <2>3, NothingMoves DEF FindEmpty, listVars, globalVars
<1>4. ASSUME NEW w \in Worker, NEW x \in InUse, Free(w, x) \/ FindFull(w, x)  PROVE Fine(u)'
  BY <1>0, <1>4, ReturnedToList, HeldForBatch
<1>5. ASSUME NEW w \in Worker, Lock(w)  PROVE Fine(u)'
  <2>1. \A v \in Worker : job'[v].block = job[v].block /\ job'[v].bucket = job[v].bucket
    BY <1>0, <1>5 DEF Typed, Lock
  <2>2. FreeingClaims(u)' = FreeingClaims(u)
    BY <1>0, <2>1, FreeingStays
  <2>. QED  BY <1>0, <1>5, <2>2, NothingMoves DEF Lock, listVars, globalVars
<1>6. ASSUME NEW w \in Worker, FillOne(w)  PROVE Fine(u)'
  BY <1>0, <1>6, MovedToLocal, CutFromRest, ChunkOpened
<1>7. ASSUME NEW w \in Worker, Filled(w)  PROVE Fine(u)'
  <2>. DEFINE b == job[w].bucket
  <2>1. /\ pc[w] = "fill" /\ Pop(w, b) /\ users' = AddUser(<<Last(list[w][b]), b>>)
        /\ UNCHANGED globalVars /\ job' = [job EXCEPT ![w] = Idle] /\ job[w].left = 0
    BY <1>7 DEF Filled
  <2>2. b \in Bucket /\ list[w][b] # <<>> /\ job[w].block = NULL
    BY <2>1, BatchesSuffice DEF IInv, JobInv, NoReentry
  <2>3. FreeingClaims(u)' = FreeingClaims(u)
    <3>1. ~Freeing(w, u)
      BY <2>2 DEF Freeing
    <3>. QED  BY <1>0, <2>1, <3>1, FreeingShrinks
  <2>. HIDE DEF b
  <2>. QED  BY <1>0, <2>1, <2>2, <2>3, TakenForUse
<1>8. ASSUME NEW w \in Worker, DrainOne(w) \/ Drained(w)  PROVE Fine(u)'
  BY <1>0, <1>8, MovedToGlobal, PutAfterBatch
<1>. QED  BY <1>1, <1>2, <1>3, <1>4, <1>5, <1>6, <1>7, <1>8 DEF Next, Terminated

LEMMA UnitsInitially == Init => UnitsInv /\ RecordInv
<1>. SUFFICES ASSUME Init  PROVE UnitsInv /\ RecordInv
  OBVIOUS
<1>1. chunks = 0 /\ Chunk \in Nat /\ Supply \in Nat
  BY Sizes DEF Init
<1>2. RecordInv
  BY <1>1 DEF RecordInv
<1>3. ASSUME NEW u \in Int, u >= Chunk  PROVE Fine(u)
  <2>1. \A b \in Bucket : glist[b] = <<>> /\ \A w \in Worker : list[w][b] = <<>>
    BY DEF Init
  <2>2. LocalClaims(u) = {} /\ GlobalClaims(u) = {}
    <3>1. \A b : OnList(<<>>, b, u) = {}
      BY EmptySeq DEF OnList
    <3>. QED  BY <2>1, <3>1 DEF LocalClaims, ClaimsOf, GlobalClaims
  <2>3. FreeingClaims(u) = {}
    BY DEF Init, FreeingClaims, Freeing, Idle
  <2>4. UseClaims(u) = {}
    BY DEF Init, UseClaims, InUse
  <2>5. RestClaims(u) = {} /\ WasteClaims(u) = {}
    BY DEF Init, RestClaims, WasteClaims
  <2>6. Claims(u) = {}
    BY <2>2, <2>3, <2>4, <2>5 DEF Claims
  <2>7. Obtained = 0
    BY <1>1 DEF Obtained
  <2>8. ~(u < Chunk * (Obtained + 1))
    BY <1>1, <1>3, <2>7
  <2>. QED  BY <2>6, <2>8 DEF Fine
<1>. QED  BY <1>2, <1>3 DEF UnitsInv

LEMMA UnitsSuffice == UnitsInv /\ RecordInv /\ IInv => EachUnitOnce
<1>. SUFFICES ASSUME UnitsInv, RecordInv, IInv,
                     NEW u \in Chunk..Chunk * (Obtained + 1) - 1
              PROVE  Cardinality(Claims(u)) = 1
  BY DEF EachUnitOnce, RecordInv
<1>1. Chunk \in Nat /\ Obtained \in Nat
  BY Sizes DEF IInv, Typed, Obtained
<1>2. Chunk * (Obtained + 1) \in Nat
  BY <1>1, Mapped
<1>3. u \in Int /\ u >= Chunk /\ u < Chunk * (Obtained + 1)
  BY <1>1, <1>2
<1>4. PICK c : Claims(u) = {c}
  BY <1>3 DEF UnitsInv, Fine
<1>. QED  BY <1>4, FS_Singleton

(* No unit of memory is ever in two blocks, on two lists or lost, and every   *)
(* chunk is on record, for any number of workers and sizes of blocks, even    *)
(* after the system has refused a chunk.                                      *)
THEOREM UnitsNeverShared == Spec => []EachUnitOnce
<1>1. Init => UnitsInv /\ RecordInv
  BY UnitsInitially
<1>2. IInv /\ UnitsInv /\ RecordInv /\ [Next]_vars => UnitsInv' /\ RecordInv'
  BY UnitsKept, RecordKept
<1>3. IInv /\ UnitsInv /\ RecordInv => EachUnitOnce
  BY UnitsSuffice
<1>. QED  BY <1>1, <1>2, <1>3, Invariance, PTL DEF Spec
=============================================================================
