-------------------------- MODULE Scheduler_proof ---------------------------
(***************************************************************************)
(* Proofs about the closures of the scheduler, for any number of workers   *)
(* and any program: a closure that is not suspended is in one worker's     *)
(* hand or ready deque, so that no two workers run the same frame, and a   *)
(* closure waits for a called child exactly while one is alive.            *)
(*                                                                         *)
(* The inductive invariant IInv gives each worker at most one closure, its *)
(* Hand, and says where it may be at each place of the scheduler; that no  *)
(* two hands are equal and none is suspended; that callers and callees are *)
(* linked one to one; and, so that the links of a stolen frame's callers   *)
(* can be made, which frames were entered and which have closures.  There  *)
(* is one lemma per action, and lemmas on what a worker, a frame or the    *)
(* tree of closures keeps when others are written.                         *)
(* The second half of the module states FInv, the inductive invariant of   *)
(* the program that the scheduler runs, which goes on from IInv.           *)
(***************************************************************************)
EXTENDS Scheduler, StackFacts, FiniteSetTheorems, WellFoundedInduction

Ref == Nat \union {NULL}
Status == {"READY", "RUNNING", "SUSPENDED", "RETURNING"}
PC == {"user", "sync", "handler", "back", "loop", "do", "push", "return", "set_return",
       "set_return_parent", "idle", "steal", "promoted", "finish", "exit"}

ClosureRecord ==
  [mutex : Worker \union {NULL}, frame : Frame \union {NULL}, fiber : Ref, fiber_child : Ref,
   join_counter : Int, orig_rsp : Ref, status : Status, has_cilk_callee : BOOLEAN,
   callee : Ref, call_parent : Ref, spawn_parent : Ref, left_sib : Ref, right_sib : Ref,
   right_most_child : Ref]
FrameRecord ==
  [at : Nat, stolen : BOOLEAN, unsynced : BOOLEAN, worker : Worker \union {NULL},
   sp : Ref, home : Ref]

(* A ready deque holds a closure or none.                                     *)
Deques == {<<>>} \union {<<c>> : c \in Closure}

TypedTree ==
  /\ cl \in Seq(ClosureRecord)
  /\ \A c \in Closure : /\ cl[c].call_parent \in Closure \union {NULL}
                        /\ cl[c].spawn_parent \in Closure \union {NULL}
TypedRun ==
  /\ fr \in [Frame -> FrameRecord] /\ ltq \in [Worker -> Seq(Frame)]
  /\ cur \in [Worker -> Frame \union {NULL}] /\ on \in [Worker -> Ref]
TypedRuntime ==
  /\ pc \in [Worker -> PC]
  /\ t \in [Worker -> Closure \union {NULL}] /\ deque \in [Worker -> Deques]
  /\ made \in Nat /\ idle \subseteq Ref /\ toFree \in [Worker -> Ref]
  /\ good \in [Worker -> BOOLEAN]
Typed == TypedTree /\ TypedRun /\ TypedRuntime

-----------------------------------------------------------------------------
(* The closure a worker has, in hand or on its deque.                         *)
Hand(w) == IF t[w] # NULL THEN t[w] ELSE IF deque[w] # <<>> THEN deque[w][1] ELSE NULL

(* Where a worker has it, and what it may be, by where the worker is.         *)
HandInv(w) ==
  /\ t[w] = NULL \/ deque[w] = <<>>
  /\ deque[w] # <<>> => cl[deque[w][1]].status \in {"RUNNING", "RETURNING"}
PlaceInv(w) ==
  /\ pc[w] \in {"user", "sync", "handler"} => deque[w] # <<>>
  /\ pc[w] \in {"do", "push", "return", "set_return", "set_return_parent", "promoted", "finish"}
       => t[w] # NULL
  /\ pc[w] \in {"idle", "steal"} => t[w] = NULL /\ deque[w] = <<>>
  /\ pc[w] = "back" => t[w] = NULL
  /\ pc[w] = "push" => cl[t[w]].status = "RUNNING" /\ cl[t[w]].frame # NULL
  /\ pc[w] \in {"promoted", "finish"} => cl[t[w]].frame # NULL
  /\ pc[w] \in {"user", "sync", "push", "set_return", "set_return_parent"}
       => cur[w] \in Frame /\ fr[cur[w]].at # 0

(* No two workers have the same closure, and none has a suspended one.        *)
OneHand ==
  /\ \A v, w \in Worker : v # w /\ Hand(v) = Hand(w) => Hand(v) = NULL
  /\ \A w \in Worker : Hand(w) # NULL => cl[Hand(w)].status # "SUSPENDED"

Live(c) == cl[c].status = "SUSPENDED" \/ \E w \in Worker : Hand(w) = c

(* Callers and callees: a closure that waits for a callee is suspended and    *)
(* has one live callee; whoever is live and was called, is waited for.        *)
CallInv ==
  /\ \A c \in Closure : cl[c].has_cilk_callee =>
       /\ cl[c].status = "SUSPENDED"
       /\ \E d \in Closure : Live(d) /\ cl[d].call_parent = c
  /\ \A c \in Closure : Live(c) /\ cl[c].call_parent # NULL =>
       /\ cl[cl[c].call_parent].has_cilk_callee
       /\ \A d \in Closure : Live(d) /\ cl[d].call_parent = cl[c].call_parent => d = c

(* Nobody is both called and spawned; who has children, or is about to run,   *)
(* has a frame.                                                               *)
ParentInv ==
  /\ \A c \in Closure : cl[c].spawn_parent # NULL =>
       cl[c].call_parent = NULL /\ cl[cl[c].spawn_parent].frame # NULL
  /\ \A c \in Closure : cl[c].status = "READY" => cl[c].frame # NULL

(* A closure that a thief made but has not linked with its frame's callers.   *)
Entering(c) ==
  \E w \in Worker : pc[w] \in {"promoted", "finish"} /\ t[w] = c /\ cl[c].call_parent # NULL

(* Only frames that were entered have closures or are on a shadow stack, and  *)
(* a frame that has a closure is marked as stolen.                            *)
FrameInv ==
  /\ \A c \in Closure : cl[c].frame # NULL =>
       fr[cl[c].frame].at # 0 /\ (fr[cl[c].frame].stolen \/ Entering(c))
  /\ \A w \in Worker : \A i \in 1..Len(ltq[w]) : fr[ltq[w][i]].at # 0

(* A frame is entered when its caller comes to its place, never before.       *)
EnteredInv ==
  /\ \A g \in Frame \ {Root} : fr[g].at # 0 =>
       \E i \in 1..Len(Body[Caller(g)]) : Body[Caller(g)][i] = g /\ i < fr[Caller(g)].at
  /\ \A g \in Frame : fr[g].at # 0 => \A f \in Range(Stacklet[g]) : fr[f].at # 0

IInv ==
  /\ Typed /\ (\A w \in Worker : HandInv(w) /\ PlaceInv(w))
  /\ OneHand /\ CallInv /\ ParentInv /\ FrameInv /\ EnteredInv

-----------------------------------------------------------------------------
(* A deque of one closure.                                                    *)
LEMMA OneEntry ==
  ASSUME NEW c, NEW d
  PROVE  /\ <<c>> # <<>> /\ <<c>>[1] = c /\ Last(<<c>>) = c /\ Head(<<c>>) = c
         /\ Front(<<c>>) = <<>> /\ Append(<<>>, c) = <<c>>
         /\ Tail(Append(<<c>>, d)) = <<d>> /\ Append(Front(<<c>>), d) = <<d>>
         /\ Range(<<c>>) = {c} /\ Len(<<c>>) = 1 /\ Len(<<>>) = 0
<1>. DEFINE S == {c, d}
<1>0. c \in S /\ d \in S
  OBVIOUS
<1>. HIDE DEF S
<1>1. <<c>> \in Seq(S) /\ <<>> \in Seq(S) /\ Len(<<c>>) = 1 /\ Len(<<>>) = 0 /\ <<c>> # <<>>
  BY <1>0
<1>2. Last(<<c>>) = c
  BY <1>1 DEF Last
<1>3. Front(<<c>>) \in Seq(S) /\ Len(Front(<<c>>)) = 0
  <2>. DEFINE s == <<c>>
  <2>1. s \in Seq(S) /\ s # <<>> /\ Len(s) = 1
    BY <1>1
  <2>. HIDE DEF s
  <2>2. Front(s) \in Seq(S) /\ Len(Front(s)) = Len(s) - 1
    BY <2>1, PopFacts
  <2>3. Len(Front(s)) = 0
    BY <2>1, <2>2
  <2>. QED  BY <2>2, <2>3 DEF s
<1>4. Front(<<c>>) = <<>>
  BY <1>3, EmptySeq
<1>5. Append(<<>>, c) = <<c>> /\ Append(<<>>, d) = <<d>>
  OBVIOUS
<1>6. Tail(Append(<<c>>, d)) = <<d>>
  <2>. DEFINE s == <<c>>
              u == Append(s, d)
              r == Tail(u)
              e == <<d>>
  <2>1. s \in Seq(S) /\ Len(s) = 1 /\ e \in Seq(S) /\ Len(e) = 1 /\ e[1] = d
    BY <1>0, <1>1
  <2>. HIDE DEF s, e
  <2>2. u \in Seq(S) /\ Len(u) = 2 /\ u[2] = d /\ u # <<>>
    <3>1. u \in Seq(S) /\ Len(u) = Len(s) + 1 /\ u[Len(s) + 1] = d /\ u # <<>>
      <4>1. u \in Seq(S) /\ Len(u) = Len(s) + 1 /\ u[Len(s) + 1] = d
        BY <1>0, <2>1, PushFacts, ZenonT(60)
      <4>2. Len(u) # 0
        BY <2>1, <4>1
      <4>. QED  BY <4>1, <4>2, EmptySeq
    <3>. QED  BY <2>1, <3>1
  <2>. HIDE DEF u
  <2>3. r \in Seq(S) /\ Len(r) = Len(u) - 1 /\ \A i \in 1..Len(r) : r[i] = u[i + 1]
    BY <2>2, HeadTailProperties
  <2>4. Len(r) = 1 /\ r[1] = d
    <3>1. Len(r) = 1
      BY <2>2, <2>3
    <3>2. 1 \in 1..Len(r) /\ 1 + 1 = 2
      BY <3>1
    <3>3. r[1] = u[1 + 1]
      BY <2>3, <3>2
    <3>. QED  BY <2>2, <3>1, <3>2, <3>3
  <2>. HIDE DEF r
  <2>5. r = e
    <3>1. \A i \in 1..Len(r) : r[i] = e[i]
      BY <2>1, <2>4
    <3>. QED  BY <2>1, <2>3, <2>4, <3>1, SeqEqual
  <2>. QED  BY <2>5 DEF r, u, s, e
<1>7. Range(<<c>>) = {c}
  <2>1. DOMAIN <<c>> = {1}
    OBVIOUS
  <2>. QED  BY <1>1, <2>1 DEF Range
<1>8. <<c>>[1] = c /\ Head(<<c>>) = c
  OBVIOUS
<1>9. Append(Front(<<c>>), d) = <<d>>
  BY <1>4, <1>5, Zenon
<1>. QED  BY <1>1, <1>2, <1>4, <1>5, <1>6, <1>7, <1>8, <1>9, Zenon

(* Nothing is in an empty sequence.                                           *)
LEMMA EmptyRange ==
  ASSUME NEW S, NEW s \in Seq(S), s = <<>>
  PROVE  Range(s) = {}
<1>1. DOMAIN s = {}
  BY LenProperties
<1>2. \A x : x \notin Range(s)
  BY <1>1, Zenon DEF Range
<1>. QED  BY <1>2

(* The closures are a sequence; so is what an assignment to fields leaves.    *)
LEMMA TreeIsSeq ==
  ASSUME TypedTree
  PROVE  /\ Len(cl) \in Nat /\ Closure = 1..Len(cl) /\ Closure \subseteq Nat /\ NULL \notin Closure
         /\ \A c \in Closure : cl[c] \in ClosureRecord
         /\ cl \in [Closure -> ClosureRecord]
<1>1. Len(cl) \in Nat /\ Closure = 1..Len(cl)
  BY LenProperties DEF TypedTree, Closure
<1>2. \A c \in Closure : cl[c] \in ClosureRecord
  BY <1>1, ElementOfSeq DEF TypedTree
<1>3. cl \in [Closure -> ClosureRecord]
  <2>1. cl = [c \in DOMAIN cl |-> cl[c]]
    BY LenProperties DEF TypedTree
  <2>. QED  BY <1>2, <2>1 DEF Closure
<1>. QED  BY <1>1, <1>2, <1>3, WorkerAssumption

(* A function on 1..n to closure records is a sequence of n closures.         *)
LEMMA SeqIsTree ==
  ASSUME NEW n \in Nat, NEW s \in [1..n -> ClosureRecord]
  PROVE  s \in Seq(ClosureRecord) /\ DOMAIN s = 1..n /\ Len(s) = n
<1>1. s \in Seq(ClosureRecord) /\ DOMAIN s = 1..n
  BY IsASeq
<1>. QED  BY <1>1, LenProperties

(* Who holds a closure.                                                       *)
LEMMA HandIs ==
  ASSUME IInv, NEW w \in Worker
  PROVE  /\ Hand(w) \in Closure \union {NULL}
         /\ t[w] # NULL => Hand(w) = t[w] /\ deque[w] = <<>>
         /\ deque[w] # <<>> => /\ t[w] = NULL /\ Hand(w) \in Closure /\ deque[w] = <<Hand(w)>>
                               /\ Bottom(w) = Hand(w) /\ Front(deque[w]) = <<>> /\ Head(deque[w]) = Hand(w)
                               /\ cl[Hand(w)].status \in {"RUNNING", "RETURNING"}
         /\ t[w] = NULL /\ deque[w] = <<>> => Hand(w) = NULL
<1>1. NULL \notin Closure
  BY TreeIsSeq DEF IInv, Typed
<1>2. deque[w] \in Deques /\ t[w] \in Closure \union {NULL} /\ HandInv(w)
  BY DEF IInv, Typed, TypedRuntime
<1>3. CASE deque[w] # <<>>
  <2>1. PICK c \in Closure : deque[w] = <<c>>
    BY <1>2, <1>3 DEF Deques
  <2>2. Hand(w) = c /\ t[w] = NULL
    BY <1>2, <1>3, <2>1 DEF Hand, HandInv
  <2>3. Last(<<c>>) = c /\ Front(<<c>>) = <<>> /\ Head(<<c>>) = c
    BY OneEntry
  <2>. QED  BY <1>1, <1>2, <1>3, <2>1, <2>2, <2>3 DEF Bottom, HandInv
<1>4. CASE deque[w] = <<>>
  BY <1>2, <1>4 DEF Hand
<1>. QED  BY <1>3, <1>4

(* What Closure_init returns.                                                 *)
LEMMA Initialised ==
  ASSUME NEW s \in Status
  PROVE  /\ Closure_init(s) \in ClosureRecord /\ Closure_init(s).status = s
         /\ Closure_init(s).frame = NULL /\ ~Closure_init(s).has_cilk_callee
         /\ Closure_init(s).call_parent = NULL /\ Closure_init(s).spawn_parent = NULL
<1>1. NULL \in Ref /\ 0 \in Int
  BY DEF Ref
<1>. QED  BY <1>1 DEF Closure_init, ClosureRecord

-----------------------------------------------------------------------------
(* The initial states: one closure, of the root, in the hand of Boss.         *)
LEMMA InitHolds == Init => IInv
<1>. SUFFICES ASSUME Init  PROVE IInv
  OBVIOUS
<1>. USE WorkerAssumption, ProgramAssumption
<1>. DEFINE main == [Closure_init("READY") EXCEPT !.frame = Root, !.fiber = 1]
<1>1. /\ main \in ClosureRecord /\ main.frame = Root /\ main.status = "READY"
      /\ main.call_parent = NULL /\ main.spawn_parent = NULL /\ ~main.has_cilk_callee
  <2>. DEFINE r == Closure_init("READY")
              q == [r EXCEPT !.frame = Root]
  <2>1. /\ r \in ClosureRecord /\ r.status = "READY"
        /\ r.call_parent = NULL /\ r.spawn_parent = NULL /\ ~r.has_cilk_callee
    BY Initialised DEF Status
  <2>. HIDE DEF r
  <2>2. /\ q \in ClosureRecord /\ q.frame = Root /\ q.status = "READY"
        /\ q.call_parent = NULL /\ q.spawn_parent = NULL /\ ~q.has_cilk_callee
    BY <2>1 DEF ClosureRecord
  <2>3. main = [q EXCEPT !.fiber = 1]
    BY DEF r
  <2>. HIDE DEF q, main
  <2>4. 1 \in Ref
    BY DEF Ref
  <2>. QED  BY <2>2, <2>3, <2>4 DEF ClosureRecord
<1>2. cl = <<main>>
  BY DEF Init
<1>. HIDE DEF main
<1>3. cl \in Seq(ClosureRecord) /\ Closure = {1} /\ cl[1] = main
  BY <1>1, <1>2 DEF Closure
<1>4. TypedTree
  BY <1>1, <1>3 DEF TypedTree
<1>5. /\ fr \in [Frame -> FrameRecord] /\ fr[Root].at = 1 /\ fr[Root].stolen
      /\ \A f \in Frame \ {Root} : fr[f].at = 0
  BY DEF Init, NewFrame, FrameRecord, Ref
<1>6. TypedRun
  <2>1. ltq \in [Worker -> Seq(Frame)]
    BY DEF Init
  <2>. QED  BY <1>5, <2>1 DEF Init, TypedRun, Ref
<1>7. TypedRuntime
  BY <1>3 DEF Init, TypedRuntime, Ref, PC, Deques
<1>8. \A w \in Worker : /\ t[w] = (IF w = Boss THEN 1 ELSE NULL) /\ deque[w] = <<>>
                        /\ pc[w] = "loop" /\ ltq[w] = <<>>
  BY DEF Init
<1>9. \A w \in Worker : Hand(w) = (IF w = Boss THEN 1 ELSE NULL)
  BY <1>8 DEF Hand
<1>10. \A w \in Worker : HandInv(w) /\ PlaceInv(w)
  BY <1>8 DEF HandInv, PlaceInv
<1>11. OneHand
  BY <1>1, <1>3, <1>9 DEF OneHand
<1>12. CallInv /\ ParentInv
  BY <1>1, <1>3 DEF CallInv, ParentInv
<1>13. FrameInv
  BY <1>1, <1>3, <1>5, <1>8 DEF FrameInv
<1>14. EnteredInv
  <2>1. Stacklet[Root] = <<Root>>
    BY StackletAssumption
  <2>2. Range(<<Root>>) = {Root}
    BY OneEntry
  <2>3. \A g \in Frame : fr[g].at # 0 => g = Root
    BY <1>5
  <2>4. fr[Root].at # 0
    BY <1>5
  <2>5. Range(Stacklet[Root]) = {Root}
    BY <2>1, <2>2
  <2>. QED  BY <2>3, <2>4, <2>5, Zenon DEF EnteredInv
<1>. QED  BY <1>4, <1>6, <1>7, <1>10, <1>11, <1>12, <1>13, <1>14 DEF IInv, Typed

-----------------------------------------------------------------------------
(* A step that writes one closure keeps the tree's shape.                     *)
LEMMA OneWritten ==
  ASSUME TypedTree, NEW c \in Closure, NEW r \in ClosureRecord,
         r.call_parent \in Closure \union {NULL}, r.spawn_parent \in Closure \union {NULL},
         cl' = [cl EXCEPT ![c] = r]
  PROVE  /\ TypedTree' /\ Closure' = Closure /\ cl'[c] = r
         /\ \A d \in Closure \ {c} : cl'[d] = cl[d]
<1>1. /\ Len(cl) \in Nat /\ Closure = 1..Len(cl) /\ cl \in [Closure -> ClosureRecord]
  BY TreeIsSeq
<1>2. /\ cl' \in [1..Len(cl) -> ClosureRecord] /\ cl'[c] = r
      /\ \A d \in Closure \ {c} : cl'[d] = cl[d]
  BY <1>1
<1>3. cl' \in Seq(ClosureRecord) /\ DOMAIN cl' = 1..Len(cl)
  BY <1>1, <1>2, SeqIsTree
<1>4. Closure' = Closure
  BY <1>1, <1>3 DEF Closure
<1>. QED  BY <1>2, <1>3, <1>4 DEF TypedTree

(* Frames only advance, and those that were not entered stay so.              *)
LEMMA EnteredKept ==
  ASSUME Typed, EnteredInv,
         fr' \in [Frame -> FrameRecord],
         \A f \in Frame : fr'[f].at >= fr[f].at /\ (fr[f].at = 0 => fr'[f].at = 0)
  PROVE  EnteredInv'
<1>1. \A f \in Frame : fr[f].at \in Nat /\ fr'[f].at \in Nat
  BY DEF Typed, TypedRun, FrameRecord
<1>2. \A f \in Frame : fr[f].at # 0 <=> fr'[f].at # 0
  BY <1>1
<1>3. ASSUME NEW g \in Frame \ {Root}, fr'[g].at # 0
      PROVE  \E i \in 1..Len(Body[Caller(g)]) : Body[Caller(g)][i] = g /\ i < fr'[Caller(g)].at
  <2>1. PICK i \in 1..Len(Body[Caller(g)]) : Body[Caller(g)][i] = g /\ i < fr[Caller(g)].at
    BY <1>2, <1>3 DEF EnteredInv
  <2>2. Caller(g) \in Frame
    BY ProgramAssumption DEF Caller
  <2>3. Len(Body[Caller(g)]) \in Nat
    BY <2>2, ProgramAssumption, LenProperties
  <2>4. i < fr'[Caller(g)].at
    BY <1>1, <2>1, <2>2, <2>3
  <2>. QED  BY <2>1, <2>4
<1>4. ASSUME NEW g \in Frame, fr'[g].at # 0  PROVE \A f \in Range(Stacklet[g]) : fr'[f].at # 0
  <2>1. Range(Stacklet[g]) \subseteq Frame
    <3>1. Stacklet[g] \in Seq(Frame)
      BY StackletAssumption
    <3>. QED  BY <3>1, RangeOfSeq
  <2>. QED  BY <1>2, <1>4, <2>1 DEF EnteredInv
<1>. QED  BY <1>3, <1>4 DEF EnteredInv

(* What worker w leaves alone in most of its steps.                           *)
Others(w) == \A v \in Worker \ {w} :
  pc'[v] = pc[v] /\ t'[v] = t[v] /\ deque'[v] = deque[v] /\ cur'[v] = cur[v] /\ ltq'[v] = ltq[v]

(* A step that moves no closure between workers and links none with another.  *)
LEMMA Kept ==
  ASSUME IInv, Typed', NEW w \in Worker, Others(w),
         Closure' = Closure,
         \A c \in Closure : /\ cl'[c].frame = cl[c].frame /\ cl'[c].call_parent = cl[c].call_parent
                            /\ cl'[c].spawn_parent = cl[c].spawn_parent
                            /\ cl'[c].has_cilk_callee = cl[c].has_cilk_callee
                            /\ c # Hand(w) => cl'[c].status = cl[c].status,
         Hand(w)' = Hand(w),
         Hand(w) # NULL => /\ cl'[Hand(w)].status # "SUSPENDED"
                           /\ cl'[Hand(w)].status = "READY" => cl[Hand(w)].frame # NULL,
         \A f \in Frame : fr[f].at # 0 => fr'[f].at # 0 /\ (fr[f].stolen => fr'[f].stolen),
         pc[w] \in {"promoted", "finish"} =>
            fr'[cl[t[w]].frame].stolen \/ (pc'[w] \in {"promoted", "finish"} /\ t'[w] = t[w]),
         HandInv(w)', PlaceInv(w)',
         \A i \in 1..Len(ltq'[w]) : fr'[ltq'[w][i]].at # 0,
         EnteredInv'
  PROVE  IInv'
<1>1. \A v \in Worker : Hand(v)' = Hand(v)
  BY DEF Others, Hand
<1>2. \A v \in Worker : Hand(v) \in Closure \union {NULL}
  BY HandIs
<1>3. \A v \in Worker \ {w} : Hand(v) # NULL => Hand(v) # Hand(w)
  BY DEF IInv, OneHand
<1>4. ASSUME NEW v \in Worker \ {w}  PROVE HandInv(v)' /\ PlaceInv(v)'
  <2>1. HandInv(v) /\ PlaceInv(v)
    BY DEF IInv
  <2>2. /\ t[v] # NULL => Hand(v) = t[v]
        /\ deque[v] # <<>> => Hand(v) = deque[v][1]
    BY <2>1 DEF Hand, HandInv
  <2>3. Hand(v) # NULL => Hand(v) \in Closure /\ cl'[Hand(v)].status = cl[Hand(v)].status
                          /\ cl'[Hand(v)].frame = cl[Hand(v)].frame
    BY <1>2, <1>3
  <2>4. HandInv(v)'
    <3>1. deque[v] # <<>> => Hand(v) # NULL
      BY HandIs, TreeIsSeq DEF IInv, Typed
    <3>. QED  BY <2>1, <2>2, <2>3, <3>1 DEF Others, HandInv
  <2>5. PlaceInv(v)'
    <3>1. cur[v] \in Frame => (fr[cur[v]].at # 0 => fr'[cur[v]].at # 0)
      OBVIOUS
    <3>. QED  BY <2>1, <2>2, <2>3, <3>1 DEF Others, PlaceInv
  <2>. QED  BY <2>4, <2>5
<1>5. OneHand'
  BY <1>1, <1>2, <1>3 DEF OneHand, IInv
<1>6. \A c \in Closure : Live(c)' <=> Live(c)
  <2>1. Hand(w) # NULL => cl[Hand(w)].status # "SUSPENDED"
    BY DEF IInv, OneHand
  <2>. QED  BY <1>1, <1>2, <2>1 DEF Live
<1>7. CallInv'
  <2>1. \A c \in Closure : cl[c].call_parent \in Closure \union {NULL}
    BY DEF IInv, Typed, TypedTree
  <2>2. \A c \in Closure : cl[c].has_cilk_callee => cl'[c].status = "SUSPENDED"
    <3>1. NULL \notin Closure
      BY TreeIsSeq DEF IInv, Typed
    <3>2. \A c \in Closure : cl[c].has_cilk_callee => cl[c].status = "SUSPENDED" /\ c # Hand(w)
      BY <3>1 DEF IInv, CallInv, OneHand
    <3>. QED  BY <3>2
  <2>. QED  BY <1>6, <2>1, <2>2 DEF CallInv, IInv
<1>8. ParentInv'
  <2>1. \A c \in Closure : cl[c].spawn_parent \in Closure \union {NULL}
    BY DEF IInv, Typed, TypedTree
  <2>2. ASSUME NEW c \in Closure, cl'[c].status = "READY"  PROVE cl[c].frame # NULL
    <3>1. CASE c = Hand(w)
      <4>1. NULL \notin Closure
        BY TreeIsSeq DEF IInv, Typed
      <4>. QED  BY <2>2, <3>1, <4>1
    <3>2. CASE c # Hand(w)
      BY <2>2, <3>2 DEF ParentInv, IInv
    <3>. QED  BY <3>1, <3>2
  <2>. QED  BY <2>1, <2>2 DEF ParentInv, IInv
<1>9. FrameInv'
  <2>1. ASSUME NEW c \in Closure, cl[c].frame # NULL
        PROVE  fr'[cl[c].frame].at # 0 /\ (fr'[cl[c].frame].stolen \/ Entering(c)')
    <3>1. cl[c].frame \in Frame
      BY <2>1, TreeIsSeq DEF IInv, Typed, ClosureRecord
    <3>2. fr[cl[c].frame].at # 0 /\ (fr[cl[c].frame].stolen \/ Entering(c))
      BY <2>1 DEF IInv, FrameInv
    <3>3. ASSUME Entering(c)  PROVE fr'[cl[c].frame].stolen \/ Entering(c)'
      <4>1. PICK v \in Worker : pc[v] \in {"promoted", "finish"} /\ t[v] = c /\ cl[c].call_parent # NULL
        BY <3>3 DEF Entering
      <4>2. CASE v = w
        BY <4>1, <4>2 DEF Entering
      <4>3. CASE v # w
        BY <4>1, <4>3 DEF Entering, Others
      <4>. QED  BY <4>2, <4>3
    <3>. QED  BY <3>1, <3>2, <3>3
  <2>2. ASSUME NEW v \in Worker \ {w}, NEW i \in 1..Len(ltq'[v])  PROVE fr'[ltq'[v][i]].at # 0
    <3>1. ltq'[v] = ltq[v] /\ i \in 1..Len(ltq[v]) /\ ltq[v] \in Seq(Frame)
      BY DEF Others, IInv, Typed, TypedRun
    <3>2. ltq[v][i] \in Frame /\ fr[ltq[v][i]].at # 0
      BY <3>1, ElementOfSeq DEF IInv, FrameInv
    <3>. QED  BY <3>1, <3>2
  <2>. QED  BY <2>1, <2>2 DEF FrameInv
<1>. QED  BY <1>4, <1>5, <1>7, <1>8, <1>9 DEF IInv

-----------------------------------------------------------------------------
(* Steps that change no closure and move none.                                *)
LEMMA KeptInPlace ==
  ASSUME IInv, NEW w \in Worker, cl' = cl, t' = t, deque' = deque,
         TypedRun', pc' \in [Worker -> PC], made' \in Nat, idle' \subseteq Ref,
         toFree' \in [Worker -> Ref], good' \in [Worker -> BOOLEAN],
         \A v \in Worker \ {w} : pc'[v] = pc[v] /\ cur'[v] = cur[v] /\ ltq'[v] = ltq[v],
         \A f \in Frame : fr[f].at # 0 => fr'[f].at # 0 /\ (fr[f].stolen => fr'[f].stolen),
         pc[w] \in {"promoted", "finish"} => pc'[w] \in {"promoted", "finish"},
         PlaceInv(w)',
         \A i \in 1..Len(ltq'[w]) : fr'[ltq'[w][i]].at # 0,
         EnteredInv'
  PROVE  IInv'
<1>1. Closure' = Closure
  BY DEF Closure
<1>2. Typed'
  <2>1. TypedTree'
    BY <1>1 DEF IInv, Typed, TypedTree
  <2>2. TypedRuntime'
    <3>1. Deques' = Deques
      BY <1>1 DEF Deques
    <3>. QED  BY <1>1, <3>1 DEF IInv, Typed, TypedRuntime
  <2>. QED  BY <2>1, <2>2 DEF Typed
<1>3. Others(w)
  BY DEF Others
<1>4. Hand(w)' = Hand(w)
  BY DEF Hand
<1>5. HandInv(w)'
  BY DEF HandInv, IInv
<1>6. Hand(w) # NULL => /\ cl'[Hand(w)].status # "SUSPENDED"
                        /\ cl'[Hand(w)].status = "READY" => cl[Hand(w)].frame # NULL
  BY HandIs DEF IInv, OneHand, ParentInv
<1>. QED  BY <1>1, <1>2, <1>3, <1>4, <1>5, <1>6, Kept

(* The next frame in a body was not entered, and its caller is the body's.    *)
LEMMA NextFrame ==
  ASSUME IInv, NEW f \in Frame, fr[f].at # 0, NextInstr(f) \in Frame
  PROVE  /\ fr[f].at \in 1..Len(Body[f]) /\ Body[f][fr[f].at] = NextInstr(f)
         /\ NextInstr(f) \notin {f, Root} /\ Caller(NextInstr(f)) = f /\ fr[NextInstr(f)].at = 0
<1>. DEFINE i == fr[f].at
            g == NextInstr(f)
<1>1. i \in Nat \ {0} /\ Len(Body[f]) \in Nat
  BY ProgramAssumption, LenProperties DEF IInv, Typed, TypedRun, FrameRecord
<1>2. g # NULL
  BY WorkerAssumption
<1>3. i < End(f) /\ g = Body[f][i]
  BY <1>2 DEF NextInstr
<1>4. i \in 1..Len(Body[f])
  BY <1>1, <1>3 DEF End
<1>5. g # Root
  BY <1>3, <1>4, ProgramAssumption
<1>6. \A h \in Frame : \A j \in 1..Len(Body[h]) : Body[h][j] = g => h = f /\ j = i
  BY <1>3, <1>4, <1>5, ProgramAssumption
<1>7. Caller(g) = f
  BY <1>3, <1>4, <1>6, Zenon DEF Caller
<1>8. fr[g].at = 0
  <2>. SUFFICES ASSUME fr[g].at # 0  PROVE FALSE
    OBVIOUS
  <2>1. PICK j \in 1..Len(Body[f]) : Body[f][j] = g /\ j < fr[f].at
    BY <1>5, <1>7 DEF IInv, EnteredInv
  <2>. QED  BY <1>1, <1>6, <2>1
<1>. QED  BY <1>3, <1>4, <1>5, <1>7, <1>8

(* Entering it.                                                               *)
LEMMA EnteredNext ==
  ASSUME IInv, NEW f \in Frame, fr[f].at # 0, NextInstr(f) \in Frame,
         fr' \in [Frame -> FrameRecord],
         fr'[f].at = fr[f].at + 1, fr'[NextInstr(f)].at = 1,
         \A h \in Frame \ {f, NextInstr(f)} : fr'[h].at = fr[h].at
  PROVE  EnteredInv' /\ \A h \in Frame : fr[h].at # 0 => fr'[h].at # 0
<1>. DEFINE g == NextInstr(f)
<1>1. /\ fr[f].at \in 1..Len(Body[f]) /\ Body[f][fr[f].at] = g
      /\ g \notin {f, Root} /\ Caller(g) = f /\ fr[g].at = 0
  BY NextFrame
<1>2. \A h \in Frame : fr[h].at \in Nat /\ fr'[h].at \in Nat
  BY DEF IInv, Typed, TypedRun, FrameRecord
<1>. HIDE DEF g
<1>3. \A h \in Frame : fr[h].at <= fr'[h].at
  BY <1>1, <1>2 DEF g
<1>4. \A h \in Frame : fr[h].at # 0 => fr'[h].at # 0
  BY <1>2, <1>3
<1>5. ASSUME NEW h \in Frame \ {Root}, fr'[h].at # 0
      PROVE  \E i \in 1..Len(Body[Caller(h)]) : Body[Caller(h)][i] = h /\ i < fr'[Caller(h)].at
  <2>1. CASE h = g
    <3>1. fr[f].at < fr'[f].at
      BY <1>2
    <3>. QED  BY <1>1, <2>1, <3>1
  <2>2. CASE h # g
    <3>1. fr[h].at # 0
      BY <1>2, <1>5, <2>2 DEF g
    <3>2. PICK i \in 1..Len(Body[Caller(h)]) : Body[Caller(h)][i] = h /\ i < fr[Caller(h)].at
      BY <3>1 DEF EnteredInv, IInv
    <3>3. Caller(h) \in Frame
      BY ProgramAssumption DEF Caller
    <3>4. i < fr'[Caller(h)].at
      BY <1>2, <1>3, <3>2, <3>3
    <3>. QED  BY <3>2, <3>4
  <2>. QED  BY <2>1, <2>2
<1>6. ASSUME NEW h \in Frame, fr'[h].at # 0  PROVE \A k \in Range(Stacklet[h]) : fr'[k].at # 0
  <2>1. \A l \in Frame : Stacklet[l] \in Seq(Frame)
    BY StackletAssumption
  <2>2. \A l \in Frame : Range(Stacklet[l]) \subseteq Frame
    BY <2>1, RangeOfSeq
  <2>3. \A l \in Frame : fr[l].at # 0 => \A k \in Range(Stacklet[l]) : fr'[k].at # 0
    BY <1>4, <2>2 DEF EnteredInv, IInv
  <2>4. CASE h = g
    <3>1. Range(<<g>>) = {g} /\ <<g>> \in Seq(Frame)
      BY <2>4, OneEntry
    <3>2. CASE g \in Helper \union {Root}
      BY <1>5, <2>4, <3>1, <3>2, StackletAssumption DEF g
    <3>3. CASE g \notin Helper \union {Root}
      <4>1. Stacklet[g] = <<g>> \o Stacklet[f]
        BY <1>1, <2>4, <3>3, StackletAssumption
      <4>2. Range(Stacklet[g]) = {g} \union Range(Stacklet[f])
        <5>. DEFINE a == <<g>>
                    b == Stacklet[f]
        <5>1. a \in Seq(Frame) /\ b \in Seq(Frame)
          BY <2>1, <3>1
        <5>. HIDE DEF a, b
        <5>2. Range(a \o b) = Range(a) \union Range(b)
          BY <5>1, RangeConcatenation
        <5>. QED  BY <3>1, <4>1, <5>2 DEF a, b
      <4>3. fr'[g].at # 0
        BY <1>6, <2>4
      <4>. QED  BY <2>3, <2>4, <4>2, <4>3
    <3>. QED  BY <3>2, <3>3
  <2>5. CASE h # g
    <3>1. fr[h].at # 0
      BY <1>2, <1>6, <2>5 DEF g
    <3>. QED  BY <2>3, <3>1
  <2>. QED  BY <2>4, <2>5
<1>. QED  BY <1>4, <1>5, <1>6 DEF EnteredInv

(* Spawn writes the parent and enters the helper.                             *)
LEMMA SpawnKeeps ==
  ASSUME IInv, NEW w \in Worker, NEW f \in Frame, Spawn(w, f)
  PROVE  IInv'
<1>. DEFINE g == NextInstr(f)
<1>1. /\ f = cur[w] /\ pc[w] = "user" /\ fr[f].at # 0 /\ g \in Helper /\ g \in Frame
      /\ deque[w] # <<>>
  BY ProgramAssumption DEF Spawn, InUser, At, IInv, PlaceInv
<1>2. fr[f].at \in Nat /\ g # f /\ fr[g].at = 0
  BY <1>1, NextFrame DEF IInv, Typed, TypedRun, FrameRecord
<1>3. NewFrame(w, on[w]) \in FrameRecord /\ NewFrame(w, on[w]).at = 1
  BY DEF NewFrame, FrameRecord, Ref, IInv, Typed, TypedRun
<1>4. /\ fr' \in [Frame -> FrameRecord]
      /\ fr'[f].at = fr[f].at + 1 /\ fr'[f].stolen = fr[f].stolen /\ fr'[g].at = 1
      /\ \A h \in Frame \ {f, g} : fr'[h] = fr[h]
  <2>1. fr \in [Frame -> FrameRecord] /\ on[w] \in Ref
    BY DEF IInv, Typed, TypedRun
  <2>. DEFINE r == [fr[f] EXCEPT !.at = @ + 1, !.sp = on[w]]
  <2>2. r \in FrameRecord /\ r.at = fr[f].at + 1 /\ r.stolen = fr[f].stolen
    <3>1. fr[f] \in FrameRecord /\ fr[f].at + 1 \in Nat
      BY <1>2, <2>1
    <3>. QED  BY <2>1, <3>1 DEF FrameRecord
  <2>3. fr' = [fr EXCEPT ![f] = r, ![g] = NewFrame(w, on[w])]
    BY DEF Spawn
  <2>. HIDE DEF r
  <2>. QED  BY <1>1, <1>2, <1>3, <2>1, <2>2, <2>3
<1>5. EnteredInv' /\ \A h \in Frame : fr[h].at # 0 => fr'[h].at # 0
  BY <1>1, <1>4, EnteredNext
<1>6. \A h \in Frame : fr[h].at # 0 => (fr[h].stolen => fr'[h].stolen)
  BY <1>2, <1>4
<1>7. /\ ltq'[w] = Append(ltq[w], f) /\ ltq' \in [Worker -> Seq(Frame)]
      /\ \A v \in Worker \ {w} : ltq'[v] = ltq[v]
  BY DEF Spawn, IInv, Typed, TypedRun
<1>8. cur' \in [Worker -> Frame \union {NULL}] /\ cur'[w] = g /\ \A v \in Worker \ {w} : cur'[v] = cur[v]
  BY <1>1 DEF Spawn, IInv, Typed, TypedRun
<1>9. TypedRun'
  BY <1>4, <1>7, <1>8 DEF Spawn, IInv, Typed, TypedRun
<1>10. \A i \in 1..Len(ltq'[w]) : fr'[ltq'[w][i]].at # 0
  <2>1. ltq[w] \in Seq(Frame)
    BY DEF IInv, Typed, TypedRun
  <2>2. /\ Len(ltq[w]) \in Nat /\ Len(ltq'[w]) = Len(ltq[w]) + 1 /\ ltq'[w][Len(ltq[w]) + 1] = f
        /\ \A i \in 1..Len(ltq[w]) : ltq'[w][i] = ltq[w][i] /\ ltq[w][i] \in Frame
    BY <1>7, <2>1, PushFacts, ElementOfSeq
  <2>. QED  BY <1>1, <1>5, <2>2, SMTT(30) DEF IInv, FrameInv
<1>11. PlaceInv(w)'
  BY <1>1, <1>4, <1>8 DEF Spawn, PlaceInv, treeVars
<1>. QED
  BY <1>1, <1>5, <1>6, <1>7, <1>8, <1>9, <1>10, <1>11, KeptInPlace
  DEF Spawn, treeVars, fiberVars, IInv, Typed, TypedRuntime

(* A step that writes one frame.                                              *)
LEMMA FrameWritten ==
  ASSUME IInv, NEW f \in Frame, NEW r \in FrameRecord, fr' = [fr EXCEPT ![f] = r],
         r.at >= fr[f].at, fr[f].at = 0 => r.at = 0, fr[f].stolen => r.stolen
  PROVE  /\ fr' \in [Frame -> FrameRecord] /\ EnteredInv' /\ fr'[f] = r
         /\ \A h \in Frame : fr[h].at # 0 => fr'[h].at # 0 /\ (fr[h].stolen => fr'[h].stolen)
<1>1. fr \in [Frame -> FrameRecord] /\ \A h \in Frame : fr[h].at \in Nat
  BY DEF IInv, Typed, TypedRun, FrameRecord
<1>2. /\ fr' \in [Frame -> FrameRecord] /\ fr'[f] = r
      /\ \A h \in Frame \ {f} : fr'[h] = fr[h]
  BY <1>1
<1>3. r.at \in Nat
  BY DEF FrameRecord
<1>4. \A h \in Frame : fr'[h].at >= fr[h].at /\ (fr[h].at = 0 => fr'[h].at = 0)
  BY <1>1, <1>2
<1>5. EnteredInv'
  BY <1>2, <1>4, EnteredKept DEF IInv
<1>6. \A h \in Frame : fr[h].at # 0 => fr'[h].at # 0 /\ (fr[h].stolen => fr'[h].stolen)
  BY <1>1, <1>2, <1>3
<1>. QED  BY <1>2, <1>5, <1>6

(* The record of a frame one instruction further.                             *)
LEMMA Advanced ==
  ASSUME Typed, NEW f \in Frame, fr[f].at # 0
  PROVE  \A sp \in Ref : LET r == [fr[f] EXCEPT !.at = @ + 1]
                             q == [fr[f] EXCEPT !.sp = sp]
                         IN /\ r \in FrameRecord /\ r.at >= fr[f].at /\ r.stolen = fr[f].stolen
                            /\ q \in FrameRecord /\ q.at >= fr[f].at /\ q.stolen = fr[f].stolen
                            /\ (fr[f].at = 0 => r.at = 0) /\ (fr[f].at = 0 => q.at = 0)
<1>1. fr[f] \in FrameRecord /\ fr[f].at \in Nat /\ fr[f].at + 1 \in Nat
  BY DEF Typed, TypedRun, FrameRecord
<1>. QED  BY <1>1 DEF FrameRecord

(* A worker in user code: what its place promises.                            *)
LEMMA InUserCode ==
  ASSUME IInv, NEW w \in Worker, NEW f \in Frame, InUser(w, f)
  PROVE  /\ pc[w] = "user" /\ f = cur[w] /\ fr[f].at # 0
         /\ deque[w] # <<>> /\ t[w] = NULL /\ Hand(w) \in Closure /\ deque[w] = <<Hand(w)>>
         /\ Bottom(w) = Hand(w) /\ Front(deque[w]) = <<>>
<1>1. pc[w] = "user" /\ f = cur[w] /\ fr[f].at # 0 /\ deque[w] # <<>>
  BY DEF InUser, At, IInv, PlaceInv
<1>. QED  BY <1>1, HandIs

(* A shadow stack that a step leaves holds entered frames as before.          *)
LEMMA StackKept ==
  ASSUME IInv, NEW w \in Worker, ltq'[w] = ltq[w],
         \A h \in Frame : fr[h].at # 0 => fr'[h].at # 0
  PROVE  \A i \in 1..Len(ltq'[w]) : fr'[ltq'[w][i]].at # 0
<1>1. ltq[w] \in Seq(Frame)
  BY DEF IInv, Typed, TypedRun
<1>2. \A i \in 1..Len(ltq[w]) : ltq[w][i] \in Frame /\ fr[ltq[w][i]].at # 0
  BY <1>1, ElementOfSeq DEF IInv, FrameInv
<1>. QED  BY <1>2

(* So does a call; the caller stays off the shadow stack.                     *)
LEMMA CallKeeps ==
  ASSUME IInv, NEW w \in Worker, NEW f \in Frame, Call(w, f)
  PROVE  IInv'
<1>. DEFINE g == NextInstr(f)
<1>1. f = cur[w] /\ pc[w] = "user" /\ fr[f].at # 0 /\ g \in Frame /\ deque[w] # <<>>
  BY InUserCode DEF Call
<1>2. fr[f].at \in Nat /\ g # f /\ fr[g].at = 0
  BY <1>1, NextFrame DEF IInv, Typed, TypedRun, FrameRecord
<1>3. NewFrame(w, on[w]) \in FrameRecord /\ NewFrame(w, on[w]).at = 1
  BY DEF NewFrame, FrameRecord, Ref, IInv, Typed, TypedRun
<1>4. /\ fr' \in [Frame -> FrameRecord]
      /\ fr'[f].at = fr[f].at + 1 /\ fr'[f].stolen = fr[f].stolen /\ fr'[g].at = 1
      /\ \A h \in Frame \ {f, g} : fr'[h] = fr[h]
  <2>1. fr \in [Frame -> FrameRecord] /\ on[w] \in Ref
    BY DEF IInv, Typed, TypedRun
  <2>. DEFINE r == [fr[f] EXCEPT !.at = @ + 1]
  <2>2. r \in FrameRecord /\ r.at = fr[f].at + 1 /\ r.stolen = fr[f].stolen
    <3>1. fr[f] \in FrameRecord /\ fr[f].at + 1 \in Nat
      BY <1>2, <2>1
    <3>. QED  BY <2>1, <3>1 DEF FrameRecord
  <2>3. fr' = [fr EXCEPT ![f] = r, ![g] = NewFrame(w, on[w])]
    BY DEF Call
  <2>. HIDE DEF r
  <2>. QED  BY <1>1, <1>2, <1>3, <2>1, <2>2, <2>3
<1>5. EnteredInv' /\ \A h \in Frame : fr[h].at # 0 => fr'[h].at # 0
  BY <1>1, <1>4, EnteredNext
<1>6. \A h \in Frame : fr[h].at # 0 => (fr[h].stolen => fr'[h].stolen)
  BY <1>2, <1>4
<1>7. cur' \in [Worker -> Frame \union {NULL}] /\ cur'[w] = g /\ \A v \in Worker \ {w} : cur'[v] = cur[v]
  BY <1>1 DEF Call, IInv, Typed, TypedRun
<1>8. TypedRun'
  BY <1>4, <1>7 DEF Call, IInv, Typed, TypedRun
<1>9. \A i \in 1..Len(ltq'[w]) : fr'[ltq'[w][i]].at # 0
  BY <1>5, StackKept DEF Call
<1>10. PlaceInv(w)'
  BY <1>1, <1>4, <1>7 DEF Call, PlaceInv, treeVars
<1>. QED
  BY <1>1, <1>5, <1>6, <1>7, <1>8, <1>9, <1>10, KeptInPlace
  DEF Call, treeVars, fiberVars, IInv, Typed, TypedRuntime

(* A sync that does not enter the runtime advances its frame.                 *)
LEMMA FastSyncKeeps ==
  ASSUME IInv, NEW w \in Worker, NEW f \in Frame, FastSync(w, f)
  PROVE  IInv'
<1>. DEFINE r == [fr[f] EXCEPT !.at = @ + 1]
<1>1. pc[w] = "user" /\ f = cur[w] /\ fr[f].at # 0 /\ deque[w] # <<>>
  BY InUserCode DEF FastSync
<1>2. r \in FrameRecord /\ r.at >= fr[f].at /\ r.stolen = fr[f].stolen /\ (fr[f].at = 0 => r.at = 0)
  BY <1>1, Advanced, WorkerAssumption DEF IInv, Ref
<1>3. fr' = [fr EXCEPT ![f] = r]
  BY DEF FastSync
<1>. HIDE DEF r
<1>4. /\ fr' \in [Frame -> FrameRecord] /\ EnteredInv'
      /\ \A h \in Frame : fr[h].at # 0 => fr'[h].at # 0 /\ (fr[h].stolen => fr'[h].stolen)
  BY <1>2, <1>3, FrameWritten
<1>5. TypedRun'
  BY <1>4 DEF FastSync, IInv, Typed, TypedRun
<1>6. \A i \in 1..Len(ltq'[w]) : fr'[ltq'[w][i]].at # 0
  BY <1>4, StackKept DEF FastSync
<1>7. PlaceInv(w)'
  BY <1>1, <1>4 DEF FastSync, PlaceInv, treeVars
<1>. QED
  BY <1>1, <1>4, <1>5, <1>6, <1>7, KeptInPlace
  DEF FastSync, treeVars, fiberVars, IInv, Typed, TypedRuntime

(* One that does stays at its place and takes the lock of its deque.          *)
LEMMA SlowSyncKeeps ==
  ASSUME IInv, NEW w \in Worker, NEW f \in Frame, SlowSync(w, f)
  PROVE  IInv'
<1>. DEFINE r == [fr[f] EXCEPT !.sp = on[w]]
<1>1. pc[w] = "user" /\ f = cur[w] /\ fr[f].at # 0 /\ deque[w] # <<>> /\ t[w] = NULL
  BY InUserCode DEF SlowSync
<1>2. r \in FrameRecord /\ r.at >= fr[f].at /\ r.stolen = fr[f].stolen /\ (fr[f].at = 0 => r.at = 0)
  BY <1>1, Advanced DEF IInv, Typed, TypedRun
<1>3. fr' = [fr EXCEPT ![f] = r]
  BY DEF SlowSync
<1>. HIDE DEF r
<1>4. /\ fr' \in [Frame -> FrameRecord] /\ EnteredInv'
      /\ \A h \in Frame : fr[h].at # 0 => fr'[h].at # 0 /\ (fr[h].stolen => fr'[h].stolen)
  BY <1>2, <1>3, FrameWritten
<1>5. TypedRun'
  BY <1>4 DEF SlowSync, IInv, Typed, TypedRun
<1>6. \A i \in 1..Len(ltq'[w]) : fr'[ltq'[w][i]].at # 0
  BY <1>4, StackKept DEF SlowSync
<1>7. pc' \in [Worker -> PC] /\ pc'[w] = "sync" /\ \A v \in Worker \ {w} : pc'[v] = pc[v]
  BY DEF SlowSync, Goto, IInv, Typed, TypedRuntime, PC
<1>8. PlaceInv(w)'
  BY <1>1, <1>4, <1>7 DEF SlowSync, PlaceInv
<1>. QED
  BY <1>1, <1>4, <1>5, <1>6, <1>7, <1>8, KeptInPlace
  DEF SlowSync, fiberVars, IInv, Typed, TypedRuntime

(* The caller of an entered frame was entered.                                *)
LEMMA CallerEntered ==
  ASSUME IInv, NEW f \in Frame \ {Root}, fr[f].at # 0
  PROVE  Caller(f) \in Frame /\ fr[Caller(f)].at # 0
<1>1. Caller(f) \in Frame
  BY ProgramAssumption DEF Caller
<1>2. PICK i \in 1..Len(Body[Caller(f)]) : i < fr[Caller(f)].at
  BY DEF IInv, EnteredInv
<1>3. Len(Body[Caller(f)]) \in Nat
  BY <1>1, ProgramAssumption, LenProperties
<1>. QED  BY <1>1, <1>2, <1>3

(* What the ways out of a frame have in common.                               *)
LEMMA LeaveKeeps ==
  ASSUME IInv, NEW w \in Worker, NEW f \in Frame \ {Root}, Leave(w, f)
  PROVE  /\ fr' \in [Frame -> FrameRecord] /\ EnteredInv'
         /\ \A h \in Frame : fr[h].at # 0 => fr'[h].at # 0 /\ (fr[h].stolen => fr'[h].stolen)
         /\ cur' \in [Worker -> Frame \union {NULL}] /\ cur'[w] \in Frame /\ fr'[cur'[w]].at # 0
         /\ \A v \in Worker \ {w} : cur'[v] = cur[v]
<1>. DEFINE r == [fr[f] EXCEPT !.at = @ + 1]
<1>1. f = cur[w] /\ fr[f].at # 0
  BY InUserCode DEF Leave
<1>2. r \in FrameRecord /\ r.at >= fr[f].at /\ r.stolen = fr[f].stolen /\ (fr[f].at = 0 => r.at = 0)
  BY <1>1, Advanced, WorkerAssumption DEF IInv, Ref
<1>3. fr' = [fr EXCEPT ![f] = r]
  BY DEF Leave
<1>. HIDE DEF r
<1>4. /\ fr' \in [Frame -> FrameRecord] /\ EnteredInv'
      /\ \A h \in Frame : fr[h].at # 0 => fr'[h].at # 0 /\ (fr[h].stolen => fr'[h].stolen)
  BY <1>2, <1>3, FrameWritten
<1>5. Caller(f) \in Frame /\ fr[Caller(f)].at # 0
  BY <1>1, CallerEntered
<1>6. /\ cur' \in [Worker -> Frame \union {NULL}] /\ cur'[w] = Caller(f)
      /\ \A v \in Worker \ {w} : cur'[v] = cur[v]
  BY <1>5 DEF Leave, IInv, Typed, TypedRun
<1>. QED  BY <1>4, <1>5, <1>6

(* The four ways out of a frame.  Back to a caller that has no closure.       *)
LEMMA ReturnToCallerKeeps ==
  ASSUME IInv, NEW w \in Worker, NEW f \in Frame, ReturnToCaller(w, f)
  PROVE  IInv'
<1>. SUFFICES ASSUME f \in Frame \ {Root}, Leave(w, f)  PROVE IInv'
  BY DEF ReturnToCaller
<1>1. pc[w] = "user" /\ deque[w] # <<>>
  BY InUserCode DEF Leave
<1>2. /\ fr' \in [Frame -> FrameRecord] /\ EnteredInv'
      /\ \A h \in Frame : fr[h].at # 0 => fr'[h].at # 0 /\ (fr[h].stolen => fr'[h].stolen)
      /\ cur' \in [Worker -> Frame \union {NULL}] /\ cur'[w] \in Frame /\ fr'[cur'[w]].at # 0
      /\ \A v \in Worker \ {w} : cur'[v] = cur[v]
  BY LeaveKeeps
<1>3. TypedRun'
  BY <1>2 DEF ReturnToCaller, IInv, Typed, TypedRun
<1>4. \A i \in 1..Len(ltq'[w]) : fr'[ltq'[w][i]].at # 0
  BY <1>2, StackKept DEF ReturnToCaller
<1>5. PlaceInv(w)'
  BY <1>1, <1>2 DEF ReturnToCaller, PlaceInv, treeVars
<1>. QED
  BY <1>1, <1>2, <1>3, <1>4, <1>5, KeptInPlace
  DEF ReturnToCaller, treeVars, fiberVars, IInv, Typed, TypedRuntime

(* Back to a parent that is on the shadow stack.                              *)
LEMMA PopParentKeeps ==
  ASSUME IInv, NEW w \in Worker, NEW f \in Frame, PopParent(w, f)
  PROVE  IInv'
<1>. SUFFICES ASSUME f \in Frame \ {Root}, Leave(w, f), ltq[w] # <<>>  PROVE IInv'
  BY ProgramAssumption DEF PopParent
<1>1. pc[w] = "user" /\ deque[w] # <<>>
  BY InUserCode DEF Leave
<1>2. /\ fr' \in [Frame -> FrameRecord] /\ EnteredInv'
      /\ \A h \in Frame : fr[h].at # 0 => fr'[h].at # 0 /\ (fr[h].stolen => fr'[h].stolen)
      /\ cur' \in [Worker -> Frame \union {NULL}] /\ cur'[w] \in Frame /\ fr'[cur'[w]].at # 0
      /\ \A v \in Worker \ {w} : cur'[v] = cur[v]
  BY LeaveKeeps
<1>3. /\ ltq[w] \in Seq(Frame) /\ ltq'[w] = Front(ltq[w])
      /\ ltq' = [ltq EXCEPT ![w] = Front(ltq[w])]
  BY DEF PopParent, IInv, Typed, TypedRun
<1>4. /\ Front(ltq[w]) \in Seq(Frame) /\ Len(ltq[w]) \in Nat /\ Len(Front(ltq[w])) = Len(ltq[w]) - 1
      /\ \A i \in 1..Len(ltq[w]) - 1 : Front(ltq[w])[i] = ltq[w][i]
  BY <1>3, PopFacts
<1>5. /\ ltq' \in [Worker -> Seq(Frame)] /\ \A v \in Worker \ {w} : ltq'[v] = ltq[v]
  BY <1>3, <1>4 DEF IInv, Typed, TypedRun
<1>6. TypedRun'
  BY <1>2, <1>5 DEF PopParent, IInv, Typed, TypedRun
<1>7. \A i \in 1..Len(ltq'[w]) : fr'[ltq'[w][i]].at # 0
  <2>1. \A i \in 1..Len(ltq[w]) : ltq[w][i] \in Frame /\ fr[ltq[w][i]].at # 0
    BY <1>3, ElementOfSeq DEF IInv, FrameInv
  <2>. QED  BY <1>2, <1>3, <1>4, <2>1
<1>8. PlaceInv(w)'
  BY <1>1, <1>2 DEF PopParent, PlaceInv, treeVars
<1>. QED
  BY <1>1, <1>2, <1>5, <1>6, <1>7, <1>8, KeptInPlace
  DEF PopParent, treeVars, fiberVars, IInv, Typed, TypedRuntime

(* To the exception handler, when the parent was stolen.                      *)
LEMMA EnterHandlerKeeps ==
  ASSUME IInv, NEW w \in Worker, NEW f \in Frame, EnterHandler(w, f)
  PROVE  IInv'
<1>. SUFFICES ASSUME f \in Frame \ {Root}, Leave(w, f)  PROVE IInv'
  BY ProgramAssumption DEF EnterHandler
<1>1. pc[w] = "user" /\ deque[w] # <<>>
  BY InUserCode DEF Leave
<1>2. /\ fr' \in [Frame -> FrameRecord] /\ EnteredInv'
      /\ \A h \in Frame : fr[h].at # 0 => fr'[h].at # 0 /\ (fr[h].stolen => fr'[h].stolen)
      /\ cur' \in [Worker -> Frame \union {NULL}]
      /\ \A v \in Worker \ {w} : cur'[v] = cur[v]
  BY LeaveKeeps
<1>3. TypedRun'
  BY <1>2 DEF EnterHandler, IInv, Typed, TypedRun
<1>4. \A i \in 1..Len(ltq'[w]) : fr'[ltq'[w][i]].at # 0
  BY <1>2, StackKept DEF EnterHandler
<1>5. pc' \in [Worker -> PC] /\ pc'[w] = "handler" /\ \A v \in Worker \ {w} : pc'[v] = pc[v]
  BY DEF EnterHandler, Goto, IInv, Typed, TypedRuntime, PC
<1>6. PlaceInv(w)'
  BY <1>1, <1>5 DEF EnterHandler, PlaceInv
<1>. QED
  BY <1>1, <1>2, <1>3, <1>4, <1>5, <1>6, KeptInPlace
  DEF EnterHandler, fiberVars, IInv, Typed, TypedRuntime

(* The root returns: its worker goes back to the runtime.                     *)
LEMMA FinishRootKeeps ==
  ASSUME IInv, NEW w \in Worker, FinishRoot(w)
  PROVE  IInv'
<1>. DEFINE r == [fr[Root] EXCEPT !.at = @ + 1]
<1>1. Root \in Frame
  BY ProgramAssumption
<1>2. pc[w] = "user" /\ fr[Root].at # 0 /\ deque[w] # <<>> /\ t[w] = NULL
  BY <1>1, InUserCode DEF FinishRoot
<1>3. r \in FrameRecord /\ r.at >= fr[Root].at /\ r.stolen = fr[Root].stolen /\ (fr[Root].at = 0 => r.at = 0)
  BY <1>1, <1>2, Advanced, WorkerAssumption DEF IInv, Ref
<1>4. fr' = [fr EXCEPT ![Root] = r]
  BY DEF FinishRoot
<1>. HIDE DEF r
<1>5. /\ fr' \in [Frame -> FrameRecord] /\ EnteredInv'
      /\ \A h \in Frame : fr[h].at # 0 => fr'[h].at # 0 /\ (fr[h].stolen => fr'[h].stolen)
  BY <1>1, <1>3, <1>4, FrameWritten
<1>6. TypedRun'
  BY <1>5 DEF FinishRoot, IInv, Typed, TypedRun
<1>7. \A i \in 1..Len(ltq'[w]) : fr'[ltq'[w][i]].at # 0
  BY <1>5, StackKept DEF FinishRoot
<1>8. pc' \in [Worker -> PC] /\ pc'[w] = "back" /\ \A v \in Worker \ {w} : pc'[v] = pc[v]
  BY DEF FinishRoot, Goto, IInv, Typed, TypedRuntime, PC
<1>9. PlaceInv(w)'
  BY <1>2, <1>8 DEF FinishRoot, PlaceInv
<1>. QED
  BY <1>2, <1>5, <1>6, <1>7, <1>8, <1>9, KeptInPlace
  DEF FinishRoot, treeVars, fiberVars, IInv, Typed, TypedRuntime

(* A step in the runtime that runs no user code.                              *)
LEMMA KeptInRuntime ==
  ASSUME IInv, NEW w \in Worker, cl' = cl, t' = t, deque' = deque, ltq' = ltq, cur' = cur,
         fr' = fr, on' \in [Worker -> Ref], made' \in Nat, idle' \subseteq Ref,
         toFree' \in [Worker -> Ref], good' \in [Worker -> BOOLEAN],
         NEW label \in PC, Goto(w, label),
         pc[w] \in {"promoted", "finish"} => label \in {"promoted", "finish"},
         PlaceInv(w)'
  PROVE  IInv'
<1>1. pc' \in [Worker -> PC] /\ pc'[w] = label /\ \A v \in Worker \ {w} : pc'[v] = pc[v]
  BY DEF Goto, IInv, Typed, TypedRuntime
<1>2. TypedRun'
  BY DEF IInv, Typed, TypedRun
<1>3. EnteredInv'
  BY DEF IInv, EnteredInv
<1>4. \A i \in 1..Len(ltq'[w]) : fr'[ltq'[w][i]].at # 0
  BY DEF IInv, FrameInv
<1>. QED  BY <1>1, <1>2, <1>3, <1>4, KeptInPlace

(* The steps of the runtime that touch neither closure nor frame.             *)
LEMMA RuntimeKeeps ==
  ASSUME IInv, NEW w \in Worker,
         \/ BackToRuntime(w) \/ HaveWork(w) \/ Exit(w)
         \/ \E v \in Worker : GiveUp(w, v) \/ ReleaseVictim(w, v) \/ TryVictim(w, v)
  PROVE  IInv'
<1>. USE DEF Goto, At, treeVars, runVars, fiberVars
<1>1. /\ PlaceInv(w) /\ pc \in [Worker -> PC]
      /\ on \in [Worker -> Ref] /\ made \in Nat /\ idle \subseteq Ref
      /\ toFree \in [Worker -> Ref] /\ good \in [Worker -> BOOLEAN]
  BY DEF IInv, Typed, TypedRun, TypedRuntime
<1>2. CASE BackToRuntime(w)
  <2>1. on' \in [Worker -> Ref] /\ toFree' \in [Worker -> Ref] /\ idle' \subseteq Ref
    BY <1>1, <1>2 DEF BackToRuntime, Ref, Free
  <2>2. PlaceInv(w)'
    BY <1>1, <1>2 DEF BackToRuntime, PlaceInv
  <2>. QED  BY <1>1, <1>2, <2>1, <2>2, KeptInRuntime DEF BackToRuntime, PC
<1>3. CASE HaveWork(w)
  <2>1. PlaceInv(w)'
    BY <1>1, <1>3 DEF HaveWork, PlaceInv
  <2>. QED  BY <1>1, <1>3, <2>1, KeptInRuntime DEF HaveWork, PC
<1>4. CASE Exit(w)
  <2>1. PlaceInv(w)'
    BY <1>1, <1>4 DEF Exit, PlaceInv
  <2>. QED  BY <1>1, <1>4, <2>1, KeptInRuntime DEF Exit, PC
<1>5. ASSUME NEW v \in Worker, GiveUp(w, v)  PROVE IInv'
  <2>1. PlaceInv(w)'
    BY <1>1, <1>5 DEF GiveUp, PlaceInv
  <2>. QED  BY <1>1, <1>5, <2>1, KeptInRuntime DEF GiveUp, PC
<1>6. ASSUME NEW v \in Worker, ReleaseVictim(w, v)  PROVE IInv'
  <2>1. PlaceInv(w)'
    BY <1>1, <1>6 DEF ReleaseVictim, PlaceInv
  <2>. QED  BY <1>1, <1>6, <2>1, KeptInRuntime DEF ReleaseVictim, PC
<1>7. ASSUME NEW v \in Worker, TryVictim(w, v)  PROVE IInv'
  <2>1. PlaceInv(w)'
    BY <1>1, <1>7 DEF TryVictim, PlaceInv
  <2>. QED  BY <1>1, <1>7, <2>1, KeptInRuntime DEF TryVictim, PC
<1>. QED  BY <1>2, <1>3, <1>4, <1>5, <1>6, <1>7

-----------------------------------------------------------------------------
(* A worker that takes the closure off its deque, or puts it back, has it.    *)
LEMMA TakeInHand ==
  ASSUME IInv, NEW w \in Worker, deque[w] # <<>>, Closure' = Closure,
         t' = [t EXCEPT ![w] = Bottom(w)], deque' = [deque EXCEPT ![w] = Front(@)]
  PROVE  /\ t' \in [Worker -> Closure \union {NULL}] /\ deque' \in [Worker -> Deques]
         /\ t'[w] = Hand(w) /\ t'[w] # NULL /\ deque'[w] = <<>> /\ Hand(w)' = Hand(w)
         /\ \A v \in Worker \ {w} : t'[v] = t[v] /\ deque'[v] = deque[v]
<1>1. /\ t \in [Worker -> Closure \union {NULL}] /\ deque \in [Worker -> Deques]
      /\ NULL \notin Closure
  BY TreeIsSeq DEF IInv, Typed, TypedRuntime
<1>2. Hand(w) \in Closure /\ Bottom(w) = Hand(w) /\ Front(deque[w]) = <<>>
  BY HandIs
<1>3. t' = [t EXCEPT ![w] = Hand(w)] /\ deque' = [deque EXCEPT ![w] = <<>>] /\ <<>> \in Deques
  BY <1>1, <1>2 DEF Deques
<1>4. t'[w] = Hand(w) /\ t'[w] # NULL
  BY <1>1, <1>2, <1>3
<1>5. Hand(w)' = t'[w]
  BY <1>4 DEF Hand
<1>. QED  BY <1>1, <1>2, <1>3, <1>4, <1>5

(* A worker that puts the closure in its hand on its deque.                   *)
LEMMA PutBack ==
  ASSUME IInv, NEW w \in Worker, t[w] # NULL, Closure' = Closure,
         t' = [t EXCEPT ![w] = NULL], deque' = [deque EXCEPT ![w] = Append(@, t[w])]
  PROVE  /\ t' \in [Worker -> Closure \union {NULL}] /\ deque' \in [Worker -> Deques]
         /\ t'[w] = NULL /\ deque'[w] = <<t[w]>> /\ deque'[w] # <<>> /\ deque'[w][1] = t[w]
         /\ Hand(w)' = Hand(w) /\ Hand(w) = t[w]
         /\ \A v \in Worker \ {w} : t'[v] = t[v] /\ deque'[v] = deque[v]
<1>1. /\ t \in [Worker -> Closure \union {NULL}] /\ deque \in [Worker -> Deques]
      /\ NULL \notin Closure
  BY TreeIsSeq DEF IInv, Typed, TypedRuntime
<1>2. Hand(w) = t[w] /\ deque[w] = <<>> /\ t[w] \in Closure
  BY <1>1, HandIs
<1>3. /\ Append(deque[w], t[w]) = <<t[w]>> /\ <<t[w]>> # <<>> /\ <<t[w]>>[1] = t[w]
      /\ <<t[w]>> \in Deques
  BY <1>2, OneEntry DEF Deques
<1>4. t'[w] = NULL /\ deque'[w] = <<t[w]>>
  BY <1>1, <1>3
<1>5. Hand(w)' = t[w]
  BY <1>3, <1>4 DEF Hand
<1>. QED  BY <1>1, <1>2, <1>3, <1>4, <1>5

(* Steps that move the closure between hand and deque, and change none.       *)
LEMMA KeptInHand ==
  ASSUME IInv, NEW w \in Worker, cl' = cl, Hand(w)' = Hand(w), TypedRun',
         pc' \in [Worker -> PC], made' = made, idle' = idle, toFree' = toFree,
         good' \in [Worker -> BOOLEAN],
         t' \in [Worker -> Closure \union {NULL}], deque' \in [Worker -> Deques], Others(w),
         \A f \in Frame : fr[f].at # 0 => fr'[f].at # 0 /\ (fr[f].stolen => fr'[f].stolen),
         pc[w] \notin {"promoted", "finish"}, HandInv(w)', PlaceInv(w)',
         \A i \in 1..Len(ltq'[w]) : fr'[ltq'[w][i]].at # 0,
         EnteredInv'
  PROVE  IInv'
<1>1. Closure' = Closure /\ Deques' = Deques
  BY DEF Closure, Deques
<1>2. TypedTree'
  BY <1>1 DEF IInv, Typed, TypedTree
<1>3. TypedRuntime'
  BY <1>1 DEF IInv, Typed, TypedRuntime
<1>4. Hand(w) # NULL => /\ cl'[Hand(w)].status # "SUSPENDED"
                        /\ cl'[Hand(w)].status = "READY" => cl[Hand(w)].frame # NULL
  BY HandIs DEF IInv, OneHand, ParentInv
<1>. QED  BY <1>1, <1>2, <1>3, <1>4, Kept DEF Typed

(* A called full frame returns: its closure goes from deque to hand.          *)
LEMMA ReturnFullFrameKeeps ==
  ASSUME IInv, NEW w \in Worker, NEW f \in Frame, ReturnFullFrame(w, f)
  PROVE  IInv'
<1>. SUFFICES ASSUME f \in Frame \ {Root}, Leave(w, f)  PROVE IInv'
  BY DEF ReturnFullFrame
<1>1. pc[w] = "user" /\ deque[w] # <<>>
  BY InUserCode DEF Leave
<1>2. /\ fr' \in [Frame -> FrameRecord] /\ EnteredInv'
      /\ \A h \in Frame : fr[h].at # 0 => fr'[h].at # 0 /\ (fr[h].stolen => fr'[h].stolen)
      /\ cur' \in [Worker -> Frame \union {NULL}] /\ cur'[w] \in Frame /\ fr'[cur'[w]].at # 0
      /\ \A v \in Worker \ {w} : cur'[v] = cur[v]
  BY LeaveKeeps
<1>3. TypedRun'
  BY <1>2 DEF ReturnFullFrame, IInv, Typed, TypedRun
<1>4. \A i \in 1..Len(ltq'[w]) : fr'[ltq'[w][i]].at # 0
  BY <1>2, StackKept DEF ReturnFullFrame
<1>5. pc' \in [Worker -> PC] /\ pc'[w] = "set_return" /\ \A v \in Worker \ {w} : pc'[v] = pc[v]
  BY DEF ReturnFullFrame, Goto, IInv, Typed, TypedRuntime, PC
<1>6. /\ t' \in [Worker -> Closure \union {NULL}] /\ deque' \in [Worker -> Deques]
      /\ t'[w] = Hand(w) /\ t'[w] # NULL /\ deque'[w] = <<>> /\ Hand(w)' = Hand(w)
      /\ \A v \in Worker \ {w} : t'[v] = t[v] /\ deque'[v] = deque[v]
  BY <1>1, TakeInHand DEF ReturnFullFrame, Closure
<1>7. HandInv(w)' /\ PlaceInv(w)'
  BY <1>2, <1>5, <1>6 DEF HandInv, PlaceInv
<1>8. Others(w)
  BY <1>2, <1>5, <1>6 DEF Others, ReturnFullFrame
<1>. QED
  BY <1>1, <1>2, <1>3, <1>4, <1>5, <1>6, <1>7, <1>8, KeptInHand
  DEF ReturnFullFrame, fiberVars, IInv, Typed, TypedRuntime

(* A worker that is back takes what is left on its deque, if anything.        *)
LEMMA ExtractKeeps ==
  ASSUME IInv, NEW w \in Worker, Extract(w)
  PROVE  IInv'
<1>. USE DEF Extract, At, treeVars, runVars, fiberVars
<1>1. pc[w] = "loop" /\ t[w] = NULL
  OBVIOUS
<1>2. CASE deque[w] = <<>>
  <2>1. PlaceInv(w)'
    BY <1>1, <1>2 DEF Goto, PlaceInv, IInv, Typed, TypedRuntime
  <2>. QED  BY <1>1, <1>2, <2>1, KeptInRuntime DEF PC, IInv, Typed, TypedRun, TypedRuntime
<1>3. CASE deque[w] # <<>>
  <2>1. /\ t' \in [Worker -> Closure \union {NULL}] /\ deque' \in [Worker -> Deques]
        /\ t'[w] = Hand(w) /\ t'[w] # NULL /\ deque'[w] = <<>> /\ Hand(w)' = Hand(w)
        /\ \A v \in Worker \ {w} : t'[v] = t[v] /\ deque'[v] = deque[v]
    BY <1>3, TakeInHand DEF Closure
  <2>2. pc' \in [Worker -> PC] /\ pc'[w] = "do" /\ \A v \in Worker \ {w} : pc'[v] = pc[v]
    BY <1>3 DEF Goto, IInv, Typed, TypedRuntime, PC
  <2>3. HandInv(w)' /\ PlaceInv(w)'
    BY <2>1, <2>2 DEF HandInv, PlaceInv
  <2>4. Others(w)
    BY <2>1, <2>2 DEF Others
  <2>5. TypedRun' /\ EnteredInv' /\ \A i \in 1..Len(ltq'[w]) : fr'[ltq'[w][i]].at # 0
    BY DEF IInv, Typed, TypedRun, EnteredInv, FrameInv
  <2>. QED
    BY <1>1, <2>1, <2>2, <2>3, <2>4, <2>5, KeptInHand DEF IInv, Typed, TypedRuntime
<1>. QED  BY <1>2, <1>3

(* The closure goes onto the deque and its frame on, at its sync or spawn.    *)
LEMMA PushAndRunKeeps ==
  ASSUME IInv, NEW w \in Worker, NEW c \in Closure, PushAndRun(w, c)
  PROVE  IInv'
<1>. DEFINE f == cl[c].frame
            r == [fr[f] EXCEPT !.at = @ + 1]
            q == [fr[f] EXCEPT !.sp = cl[c].fiber]
<1>1. /\ pc[w] = "push" /\ c = t[w] /\ t[w] # NULL /\ f # NULL /\ cl[c].status = "RUNNING"
      /\ cur[w] \in Frame /\ fr[cur[w]].at # 0
  BY DEF PushAndRun, At, IInv, PlaceInv
<1>2. cl[c] \in ClosureRecord
  BY TreeIsSeq DEF IInv, Typed
<1>3. f \in Frame /\ cl[c].fiber \in Ref /\ fr[f].at # 0
  BY <1>1, <1>2 DEF ClosureRecord, IInv, FrameInv
<1>4. /\ r \in FrameRecord /\ r.at >= fr[f].at /\ r.stolen = fr[f].stolen /\ (fr[f].at = 0 => r.at = 0)
      /\ q \in FrameRecord /\ q.at >= fr[f].at /\ q.stolen = fr[f].stolen /\ (fr[f].at = 0 => q.at = 0)
  <2>. HIDE DEF f
  <2>. QED  BY <1>3, Advanced DEF IInv
<1>5. \/ fr' = [fr EXCEPT ![f] = r] /\ on' = [on EXCEPT ![w] = fr[f].sp]
      \/ fr' = [fr EXCEPT ![f] = q] /\ on' = [on EXCEPT ![w] = cl[c].fiber]
  BY DEF PushAndRun
<1>6. fr[f].sp \in Ref
  BY <1>3 DEF IInv, Typed, TypedRun, FrameRecord
<1>. HIDE DEF r, q, f
<1>7. /\ fr' \in [Frame -> FrameRecord] /\ EnteredInv'
      /\ \A h \in Frame : fr[h].at # 0 => fr'[h].at # 0 /\ (fr[h].stolen => fr'[h].stolen)
  BY <1>3, <1>4, <1>5, FrameWritten
<1>8. on' \in [Worker -> Ref]
  BY <1>3, <1>5, <1>6 DEF IInv, Typed, TypedRun
<1>9. TypedRun'
  BY <1>7, <1>8 DEF PushAndRun, IInv, Typed, TypedRun
<1>10. \A i \in 1..Len(ltq'[w]) : fr'[ltq'[w][i]].at # 0
  BY <1>7, StackKept DEF PushAndRun
<1>11. pc' \in [Worker -> PC] /\ pc'[w] = "user" /\ \A v \in Worker \ {w} : pc'[v] = pc[v]
  BY DEF PushAndRun, Goto, IInv, Typed, TypedRuntime, PC
<1>12. /\ t' \in [Worker -> Closure \union {NULL}] /\ deque' \in [Worker -> Deques]
       /\ t'[w] = NULL /\ deque'[w] = <<t[w]>> /\ deque'[w] # <<>> /\ deque'[w][1] = t[w]
       /\ Hand(w)' = Hand(w) /\ Hand(w) = t[w]
       /\ \A v \in Worker \ {w} : t'[v] = t[v] /\ deque'[v] = deque[v]
  BY <1>1, PutBack DEF PushAndRun, Closure
<1>13. HandInv(w)' /\ PlaceInv(w)'
  <2>1. HandInv(w)'
    BY <1>1, <1>12 DEF HandInv, PushAndRun
  <2>2. PlaceInv(w)'
    BY <1>1, <1>7, <1>11, <1>12 DEF PlaceInv, PushAndRun
  <2>. QED  BY <2>1, <2>2
<1>14. Others(w)
  BY <1>11, <1>12 DEF Others, PushAndRun
<1>15. good' \in [Worker -> BOOLEAN]
  BY DEF PushAndRun, IInv, Typed, TypedRuntime
<1>. QED
  BY <1>1, <1>7, <1>9, <1>10, <1>11, <1>12, <1>13, <1>14, <1>15, KeptInHand
  DEF PushAndRun, fiberVars

-----------------------------------------------------------------------------
(* Steps that write the closure a worker has, but no link of it.              *)
LEMMA KeptWritten ==
  ASSUME IInv, NEW w \in Worker, NEW c \in Closure, c = Hand(w), t' = t, deque' = deque,
         NEW r \in ClosureRecord, cl' = [cl EXCEPT ![c] = r],
         r.frame = cl[c].frame, r.call_parent = cl[c].call_parent,
         r.spawn_parent = cl[c].spawn_parent, r.has_cilk_callee = cl[c].has_cilk_callee,
         r.status # "SUSPENDED", r.status = "READY" => r.frame # NULL,
         TypedRun', pc' \in [Worker -> PC], made' = made, idle' \subseteq Ref,
         toFree' \in [Worker -> Ref], good' = good,
         \A v \in Worker \ {w} : pc'[v] = pc[v] /\ cur'[v] = cur[v] /\ ltq'[v] = ltq[v],
         \A f \in Frame : fr[f].at # 0 => fr'[f].at # 0 /\ (fr[f].stolen => fr'[f].stolen),
         pc[w] \in {"promoted", "finish"} => fr'[cl[t[w]].frame].stolen,
         deque[w] # <<>> => r.status \in {"RUNNING", "RETURNING"}, PlaceInv(w)',
         \A i \in 1..Len(ltq'[w]) : fr'[ltq'[w][i]].at # 0,
         EnteredInv'
  PROVE  IInv'
<1>1. TypedTree /\ r.call_parent \in Closure \union {NULL} /\ r.spawn_parent \in Closure \union {NULL}
  BY DEF IInv, Typed, TypedTree
<1>2. /\ TypedTree' /\ Closure' = Closure /\ cl'[c] = r
      /\ \A d \in Closure \ {c} : cl'[d] = cl[d]
  BY <1>1, OneWritten
<1>3. Deques' = Deques
  BY <1>2 DEF Deques
<1>4. TypedRuntime'
  BY <1>2, <1>3 DEF IInv, Typed, TypedRuntime
<1>5. Hand(w)' = Hand(w)
  BY DEF Hand
<1>6. \A d \in Closure : /\ cl'[d].frame = cl[d].frame /\ cl'[d].call_parent = cl[d].call_parent
                         /\ cl'[d].spawn_parent = cl[d].spawn_parent
                         /\ cl'[d].has_cilk_callee = cl[d].has_cilk_callee
                         /\ d # Hand(w) => cl'[d].status = cl[d].status
  BY <1>2
<1>7. HandInv(w)'
  BY <1>2, HandIs DEF HandInv, IInv, Hand
<1>8. Others(w)
  BY DEF Others
<1>9. cl'[c].status # "SUSPENDED" /\ (cl'[c].status = "READY" => cl[c].frame # NULL)
  BY <1>2
<1>. QED  BY <1>2, <1>4, <1>5, <1>6, <1>7, <1>8, <1>9, Kept DEF Typed

(* ... and no frame either.                                                   *)
LEMMA KeptWrittenOnly ==
  ASSUME IInv, NEW w \in Worker, NEW c \in Closure, c = Hand(w), t' = t, deque' = deque,
         NEW r \in ClosureRecord, cl' = [cl EXCEPT ![c] = r],
         r.frame = cl[c].frame, r.call_parent = cl[c].call_parent,
         r.spawn_parent = cl[c].spawn_parent, r.has_cilk_callee = cl[c].has_cilk_callee,
         r.status # "SUSPENDED", r.status = "READY" => r.frame # NULL,
         ltq' = ltq, cur' = cur, on' = on, fr' = fr, made' = made, idle' = idle, toFree' = toFree,
         good' = good, NEW label \in PC, Goto(w, label), pc[w] \notin {"promoted", "finish"},
         deque[w] # <<>> => r.status \in {"RUNNING", "RETURNING"}, PlaceInv(w)'
  PROVE  IInv'
<1>1. pc' \in [Worker -> PC] /\ \A v \in Worker \ {w} : pc'[v] = pc[v]
  BY DEF Goto, IInv, Typed, TypedRuntime
<1>2. TypedRun' /\ EnteredInv' /\ \A i \in 1..Len(ltq'[w]) : fr'[ltq'[w][i]].at # 0
  BY DEF IInv, Typed, TypedRun, EnteredInv, FrameInv
<1>3. idle' \subseteq Ref /\ toFree' \in [Worker -> Ref]
  BY DEF IInv, Typed, TypedRuntime
<1>. QED  BY <1>1, <1>2, <1>3, KeptWritten

(* The closure of a helper is returning, on its deque.                        *)
LEMMA HandlerKeeps ==
  ASSUME IInv, NEW w \in Worker, NEW c \in Closure, Handler(w, c)
  PROVE  IInv'
<1>. DEFINE r == [cl[c] EXCEPT !.status = "RETURNING"]
<1>. USE DEF Handler, At, treeVars, runVars, fiberVars
<1>1. pc[w] = "handler" /\ deque[w] # <<>> /\ pc \in [Worker -> PC]
  BY DEF IInv, PlaceInv, Typed, TypedRuntime
<1>2. c = Hand(w) /\ t[w] = NULL
  BY <1>1, HandIs
<1>3. cl[c] \in ClosureRecord
  BY TreeIsSeq DEF IInv, Typed
<1>4. r \in ClosureRecord /\ r.frame = cl[c].frame /\ r.call_parent = cl[c].call_parent
      /\ r.spawn_parent = cl[c].spawn_parent /\ r.has_cilk_callee = cl[c].has_cilk_callee
      /\ r.status = "RETURNING"
  BY <1>3 DEF ClosureRecord, Status
<1>5. cl' = [cl EXCEPT ![c] = r]
  OBVIOUS
<1>6. PlaceInv(w)'
  BY <1>1, <1>2 DEF Goto, PlaceInv
<1>. HIDE DEF r
<1>. QED  BY <1>1, <1>2, <1>4, <1>5, <1>6, KeptWrittenOnly DEF PC

(* Cilk_set_return and Closure_return lock the child.                         *)
LEMMA SetReturnChildKeeps ==
  ASSUME IInv, NEW w \in Worker, NEW c \in Closure, SetReturnChild(w, c) \/ ReturnChild(w, c)
  PROVE  IInv'
<1>. DEFINE r == [cl[c] EXCEPT !.mutex = w]
<1>. USE DEF SetReturnChild, ReturnChild, At, treeVars, runVars, fiberVars
<1>1. /\ pc[w] \in {"set_return", "do"} /\ t[w] # NULL /\ t[w] = c /\ pc \in [Worker -> PC]
      /\ pc[w] = "set_return" => cur[w] \in Frame /\ fr[cur[w]].at # 0
  BY DEF IInv, PlaceInv, Typed, TypedRuntime
<1>2. c = Hand(w) /\ deque[w] = <<>>
  BY <1>1, HandIs
<1>3. cl[c] \in ClosureRecord
  BY TreeIsSeq DEF IInv, Typed
<1>4. r \in ClosureRecord /\ r.frame = cl[c].frame /\ r.call_parent = cl[c].call_parent
      /\ r.spawn_parent = cl[c].spawn_parent /\ r.has_cilk_callee = cl[c].has_cilk_callee
      /\ r.status = cl[c].status
  BY <1>3 DEF ClosureRecord
<1>5. cl' = [cl EXCEPT ![c] = r]
  OBVIOUS
<1>6. cl[c].status # "SUSPENDED" /\ (cl[c].status = "READY" => cl[c].frame # NULL)
  <2>1. Hand(w) # NULL
    BY <1>1, HandIs
  <2>. QED  BY <1>2, <2>1 DEF IInv, OneHand, ParentInv
<1>7. PlaceInv(w)'
  BY <1>1, <1>2 DEF Goto, PlaceInv
<1>8. Goto(w, "set_return_parent") \/ Goto(w, "return")
  OBVIOUS
<1>9. \A label \in PC : Goto(w, label) => IInv'
  <2>. HIDE DEF r
  <2>. QED  BY <1>1, <1>2, <1>4, <1>5, <1>6, <1>7, KeptWrittenOnly
<1>. QED  BY <1>8, <1>9 DEF PC

(* A closure that is ready runs; its frame becomes the worker's.              *)
LEMMA ExecuteKeeps ==
  ASSUME IInv, NEW w \in Worker, NEW c \in Closure, Execute(w, c)
  PROVE  IInv'
<1>. DEFINE f == cl[c].frame
            r == [cl[c] EXCEPT !.status = "RUNNING"]
            q == [fr[f] EXCEPT !.worker = w]
<1>. USE DEF Execute, At, treeVars, runVars, fiberVars
<1>1. pc[w] = "do" /\ t[w] # NULL /\ t[w] = c /\ cl[c].status = "READY"
  BY DEF IInv, PlaceInv
<1>2. c = Hand(w) /\ deque[w] = <<>>
  BY <1>1, HandIs
<1>3. cl[c] \in ClosureRecord
  BY TreeIsSeq DEF IInv, Typed
<1>4. r \in ClosureRecord /\ r.frame = cl[c].frame /\ r.call_parent = cl[c].call_parent
      /\ r.spawn_parent = cl[c].spawn_parent /\ r.has_cilk_callee = cl[c].has_cilk_callee
      /\ r.status = "RUNNING"
  BY <1>3 DEF ClosureRecord, Status
<1>5. cl' = [cl EXCEPT ![c] = r] /\ fr' = [fr EXCEPT ![f] = q]
  OBVIOUS
<1>6. f \in Frame /\ f # NULL
  BY <1>1, <1>3 DEF ClosureRecord, IInv, ParentInv
<1>7. fr[f] \in FrameRecord /\ fr[f].at # 0 /\ fr[f].at \in Nat
  BY <1>6 DEF IInv, FrameInv, Typed, TypedRun, FrameRecord
<1>8. q \in FrameRecord /\ q.at = fr[f].at /\ q.stolen = fr[f].stolen
  BY <1>7 DEF FrameRecord
<1>9. q.at >= fr[f].at /\ (fr[f].at = 0 => q.at = 0) /\ (fr[f].stolen => q.stolen)
  BY <1>7, <1>8
<1>10. /\ pc' \in [Worker -> PC] /\ pc'[w] = "push" /\ cur' \in [Worker -> Frame \union {NULL}]
       /\ cur'[w] = f /\ ltq' \in [Worker -> Seq(Frame)] /\ ltq'[w] = <<>>
       /\ \A v \in Worker \ {w} : pc'[v] = pc[v] /\ cur'[v] = cur[v] /\ ltq'[v] = ltq[v]
  BY <1>6, SMTT(30) DEF Goto, IInv, Typed, TypedRuntime, TypedRun, PC
<1>. HIDE DEF q, r
<1>11. /\ fr' \in [Frame -> FrameRecord] /\ EnteredInv'
       /\ \A h \in Frame : fr[h].at # 0 => fr'[h].at # 0 /\ (fr[h].stolen => fr'[h].stolen)
  <2>. HIDE DEF f
  <2>. QED  BY <1>5, <1>6, <1>7, <1>8, <1>9, FrameWritten
<1>12. TypedRun'
  BY <1>10, <1>11 DEF IInv, Typed, TypedRun
<1>13. cl'[c] = r
  BY <1>5, TreeIsSeq, SMTT(30) DEF IInv, Typed
<1>14. PlaceInv(w)'
  BY <1>1, <1>4, <1>6, <1>7, <1>10, <1>11, <1>13 DEF PlaceInv
<1>15. \A i \in 1..Len(ltq'[w]) : fr'[ltq'[w][i]].at # 0
  BY <1>10
<1>16. /\ t' = t /\ deque' = deque /\ made' = made /\ idle' \subseteq Ref
       /\ toFree' \in [Worker -> Ref] /\ good' = good
  BY DEF IInv, Typed, TypedRuntime
<1>17. r.status # "SUSPENDED" /\ r.status # "READY" /\ ~(deque[w] # <<>>)
  BY <1>2, <1>4
<1>. HIDE DEF Execute
<1>. QED
  BY <1>1, <1>2, <1>4, <1>5, <1>10, <1>11, <1>12, <1>14, <1>15, <1>16, <1>17, KeptWritten

(* setup_for_sync changes no link, frame or status.                           *)
LEMMA SetUp ==
  ASSUME NEW c \in ClosureRecord
  PROVE  LET r == SetupForSync(c)
         IN /\ r \in ClosureRecord /\ r.frame = c.frame /\ r.call_parent = c.call_parent
            /\ r.spawn_parent = c.spawn_parent /\ r.has_cilk_callee = c.has_cilk_callee
            /\ r.status = c.status
<1>. DEFINE a == [c EXCEPT !.fiber = c.fiber_child]
            b == [a EXCEPT !.fiber_child = NULL]
            d == [b EXCEPT !.orig_rsp = NULL]
<1>1. NULL \in Ref
  BY DEF Ref
<1>2. /\ a \in ClosureRecord /\ a.frame = c.frame /\ a.call_parent = c.call_parent
      /\ a.spawn_parent = c.spawn_parent /\ a.has_cilk_callee = c.has_cilk_callee
      /\ a.status = c.status
  BY DEF ClosureRecord
<1>3. SetupForSync(c) = d
  BY DEF SetupForSync
<1>. HIDE DEF a
<1>4. /\ b \in ClosureRecord /\ b.frame = c.frame /\ b.call_parent = c.call_parent
      /\ b.spawn_parent = c.spawn_parent /\ b.has_cilk_callee = c.has_cilk_callee
      /\ b.status = c.status
  BY <1>1, <1>2 DEF ClosureRecord
<1>. HIDE DEF b
<1>5. /\ d \in ClosureRecord /\ d.frame = c.frame /\ d.call_parent = c.call_parent
      /\ d.spawn_parent = c.spawn_parent /\ d.has_cilk_callee = c.has_cilk_callee
      /\ d.status = c.status
  BY <1>1, <1>4 DEF ClosureRecord
<1>. QED  BY <1>3, <1>5

(* The frame that a sync resumes.                                             *)
LEMMA SyncedFrameIs ==
  ASSUME IInv, NEW w \in Worker, NEW c \in ClosureRecord, c.frame \in Frame
  PROVE  LET q == SyncedFrame(w, c)
         IN q \in FrameRecord /\ q.at = fr[c.frame].at /\ (fr[c.frame].stolen => q.stolen)
<1>. DEFINE f == c.frame
            a == [fr[f] EXCEPT !.unsynced = FALSE]
            b == [a EXCEPT !.sp = c.orig_rsp]
            d == [b EXCEPT !.worker = w]
<1>1. fr[f] \in FrameRecord /\ c.orig_rsp \in Ref
  BY DEF IInv, Typed, TypedRun, ClosureRecord
<1>2. SyncedFrame(w, c) = d
  BY DEF SyncedFrame
<1>. HIDE DEF f
<1>3. a \in FrameRecord /\ a.at = fr[f].at /\ (fr[f].stolen => a.stolen)
  BY <1>1 DEF FrameRecord
<1>. HIDE DEF a
<1>4. b \in FrameRecord /\ b.at = fr[f].at /\ (fr[f].stolen => b.stolen)
  BY <1>1, <1>3 DEF FrameRecord
<1>. HIDE DEF b
<1>5. d \in FrameRecord /\ d.at = fr[f].at /\ (fr[f].stolen => d.stolen)
  BY <1>4 DEF FrameRecord
<1>. QED  BY <1>2, <1>5 DEF f

(* A sync that finds no child left goes on in user code.                      *)
LEMMA SyncReadyKeeps ==
  ASSUME IInv, NEW w \in Worker, NEW c \in Closure, SyncReady(w, c)
  PROVE  IInv'
<1>. DEFINE f == cl[c].frame
            r == SetupForSync(cl[c])
            q == [SyncedFrame(w, cl[c]) EXCEPT !.at = @ + 1]
<1>. USE DEF SyncReady, At, fiberVars
<1>1. pc[w] = "sync" /\ deque[w] # <<>> /\ cur[w] \in Frame /\ fr[cur[w]].at # 0
  BY DEF IInv, PlaceInv
<1>2. c = Hand(w) /\ t[w] = NULL /\ cl[c].status \in {"RUNNING", "RETURNING"}
  BY <1>1, HandIs
<1>3. cl[c] \in ClosureRecord
  BY TreeIsSeq DEF IInv, Typed
<1>4. r \in ClosureRecord /\ r.frame = cl[c].frame /\ r.call_parent = cl[c].call_parent
      /\ r.spawn_parent = cl[c].spawn_parent /\ r.has_cilk_callee = cl[c].has_cilk_callee
      /\ r.status = cl[c].status
  BY <1>3, SetUp
<1>5. cl' = [cl EXCEPT ![c] = r] /\ fr' = [fr EXCEPT ![f] = q]
  OBVIOUS
<1>6. f \in Frame \union {NULL} /\ cl[c].orig_rsp \in Ref /\ cl[c].fiber \in Ref
  BY <1>3 DEF ClosureRecord
<1>7. /\ fr' \in [Frame -> FrameRecord] /\ EnteredInv'
      /\ \A h \in Frame : fr[h].at # 0 => fr'[h].at # 0 /\ (fr[h].stolen => fr'[h].stolen)
  <2>1. CASE f = NULL
    <3>1. fr' = fr
      BY <1>5, <2>1, WorkerAssumption DEF IInv, Typed, TypedRun
    <3>. QED  BY <3>1 DEF IInv, Typed, TypedRun, EnteredInv
  <2>2. CASE f # NULL
    <3>1. f \in Frame /\ fr[f] \in FrameRecord /\ fr[f].at # 0 /\ fr[f].at \in Nat
      BY <1>6, <2>2 DEF IInv, FrameInv, Typed, TypedRun, FrameRecord
    <3>. DEFINE p == SyncedFrame(w, cl[c])
    <3>2. p \in FrameRecord /\ p.at = fr[f].at /\ (fr[f].stolen => p.stolen)
      BY <1>3, <3>1, SyncedFrameIs
    <3>. HIDE DEF p, f
    <3>3. q \in FrameRecord /\ q.at = fr[f].at + 1 /\ (fr[f].stolen => q.stolen)
      <4>1. p.at + 1 \in Nat /\ q = [p EXCEPT !.at = @ + 1]
        BY <3>1, <3>2 DEF p
      <4>. HIDE DEF q
      <4>. QED  BY <3>2, <4>1 DEF FrameRecord
    <3>. HIDE DEF q
    <3>4. q.at >= fr[f].at /\ (fr[f].at = 0 => q.at = 0)
      BY <3>1, <3>3
    <3>. QED  BY <1>5, <3>1, <3>3, <3>4, FrameWritten
  <2>. QED  BY <2>1, <2>2
<1>8. /\ pc' \in [Worker -> PC] /\ pc'[w] = "user" /\ on' \in [Worker -> Ref]
      /\ toFree' \in [Worker -> Ref] /\ idle' \subseteq Ref
      /\ \A v \in Worker \ {w} : pc'[v] = pc[v]
  BY <1>6 DEF Goto, LeftFiber, Free, IInv, Typed, TypedRuntime, TypedRun, PC, Ref
<1>. HIDE DEF q, r, f
<1>9. TypedRun'
  BY <1>7, <1>8 DEF IInv, Typed, TypedRun
<1>10. PlaceInv(w)'
  BY <1>1, <1>7, <1>8 DEF PlaceInv
<1>11. \A i \in 1..Len(ltq'[w]) : fr'[ltq'[w][i]].at # 0
  BY <1>7, StackKept
<1>12. /\ t' = t /\ deque' = deque /\ made' = made /\ good' = good
       /\ \A v \in Worker \ {w} : cur'[v] = cur[v] /\ ltq'[v] = ltq[v]
  OBVIOUS
<1>13. /\ r.status # "SUSPENDED" /\ r.status # "READY" /\ r.status \in {"RUNNING", "RETURNING"}
  BY <1>2, <1>4
<1>. HIDE DEF SyncReady
<1>. QED
  BY <1>1, <1>2, <1>4, <1>5, <1>7, <1>8, <1>9, <1>10, <1>11, <1>12, <1>13, KeptWritten

(* The end of a promotion when the stolen frame had its closure before.       *)
LEMMA FinishFullFrameKeeps ==
  ASSUME IInv, NEW w \in Worker, NEW y \in Closure, FinishPromote(w, y), fr[cl[y].frame].stolen
  PROVE  IInv'
<1>. DEFINE f == cl[y].frame
            r == [cl[y] EXCEPT !.mutex = NULL, !.status = "READY"]
            q == [fr[f] EXCEPT !.unsynced = TRUE]
<1>. USE DEF FinishPromote, FinishFullFrame, At, fiberVars
<1>1. pc[w] = "finish" /\ t[w] # NULL /\ t[w] = y /\ f # NULL
  BY DEF IInv, PlaceInv
<1>2. y = Hand(w) /\ deque[w] = <<>>
  BY <1>1, HandIs
<1>3. cl[y] \in ClosureRecord
  BY TreeIsSeq DEF IInv, Typed
<1>4. r \in ClosureRecord /\ r.frame = cl[y].frame /\ r.call_parent = cl[y].call_parent
      /\ r.spawn_parent = cl[y].spawn_parent /\ r.has_cilk_callee = cl[y].has_cilk_callee
      /\ r.status = "READY"
  BY <1>3 DEF ClosureRecord, Status
<1>5. cl' = [cl EXCEPT ![y] = r] /\ fr' = [fr EXCEPT ![f] = q]
  OBVIOUS
<1>6. f \in Frame
  BY <1>1, <1>3 DEF ClosureRecord
<1>7. fr[f] \in FrameRecord /\ fr[f].at # 0 /\ fr[f].at \in Nat
  BY <1>1, <1>6 DEF IInv, FrameInv, Typed, TypedRun, FrameRecord
<1>8. q \in FrameRecord /\ q.at = fr[f].at /\ q.stolen = fr[f].stolen
  BY <1>7 DEF FrameRecord
<1>9. q.at >= fr[f].at /\ q.stolen
  BY <1>7, <1>8
<1>10. /\ pc' \in [Worker -> PC] /\ pc'[w] = "do" /\ \A v \in Worker \ {w} : pc'[v] = pc[v]
  BY DEF Goto, IInv, Typed, TypedRuntime, PC
<1>11. PlaceInv(w)'
  BY <1>1, <1>10 DEF PlaceInv
<1>. HIDE DEF q, r
<1>12. /\ fr' \in [Frame -> FrameRecord] /\ EnteredInv' /\ fr'[f] = q
       /\ \A h \in Frame : fr[h].at # 0 => fr'[h].at # 0 /\ (fr[h].stolen => fr'[h].stolen)
  <2>. HIDE DEF f
  <2>. QED  BY <1>5, <1>6, <1>7, <1>8, <1>9, FrameWritten
<1>13. TypedRun'
  BY <1>12 DEF IInv, Typed, TypedRun
<1>14. \A i \in 1..Len(ltq'[w]) : fr'[ltq'[w][i]].at # 0
  BY <1>12, StackKept
<1>15. /\ t' = t /\ deque' = deque /\ made' = made /\ idle' \subseteq Ref
       /\ toFree' \in [Worker -> Ref] /\ good' = good
       /\ \A v \in Worker \ {w} : cur'[v] = cur[v] /\ ltq'[v] = ltq[v]
  BY DEF IInv, Typed, TypedRuntime
<1>16. r.status # "SUSPENDED" /\ r.frame # NULL /\ ~(deque[w] # <<>>)
  BY <1>1, <1>2, <1>4
<1>17. fr'[cl[t[w]].frame].stolen
  BY <1>1, <1>9, <1>12
<1>. HIDE DEF FinishPromote, FinishFullFrame, f
<1>. QED
  BY <1>2, <1>4, <1>5, <1>10, <1>11, <1>12, <1>13, <1>14, <1>15, <1>16, <1>17, KeptWritten

-----------------------------------------------------------------------------
(* What a step of others leaves of a worker.                                  *)
LEMMA OtherKept ==
  ASSUME IInv, NEW v \in Worker,
         pc'[v] = pc[v], t'[v] = t[v], deque'[v] = deque[v], cur'[v] = cur[v],
         Hand(v) # NULL => /\ cl'[Hand(v)].status = cl[Hand(v)].status
                           /\ cl[Hand(v)].frame # NULL => cl'[Hand(v)].frame # NULL,
         \A f \in Frame : fr[f].at # 0 => fr'[f].at # 0
  PROVE  HandInv(v)' /\ PlaceInv(v)' /\ Hand(v)' = Hand(v)
<1>1. HandInv(v) /\ PlaceInv(v)
  BY DEF IInv
<1>2. /\ t[v] # NULL => Hand(v) = t[v]
      /\ deque[v] # <<>> => Hand(v) = deque[v][1] /\ Hand(v) # NULL
  BY HandIs, TreeIsSeq DEF Hand, HandInv, IInv, Typed
<1>3. HandInv(v)'
  BY <1>1, <1>2 DEF HandInv
<1>4. PlaceInv(v)'
  <2>1. cur[v] \in Frame => (fr[cur[v]].at # 0 => fr'[cur[v]].at # 0)
    OBVIOUS
  <2>. QED  BY <1>1, <1>2, <2>1 DEF PlaceInv
<1>5. Hand(v)' = Hand(v)
  BY DEF Hand
<1>. QED  BY <1>3, <1>4, <1>5

(* A suspended closure is in no hand.                                         *)
LEMMA SuspendedIsFree ==
  ASSUME IInv, NEW c \in Closure, cl[c].status = "SUSPENDED"
  PROVE  \A v \in Worker : Hand(v) # c
BY TreeIsSeq DEF IInv, OneHand, Typed

(* A sync that finds children: the closure leaves the deque, suspended.       *)
LEMMA SyncNotReadyKeeps ==
  ASSUME IInv, NEW w \in Worker, NEW c \in Closure, SyncNotReady(w, c)
  PROVE  IInv'
<1>. DEFINE f == cl[c].frame
            r == [cl[c] EXCEPT !.status = "SUSPENDED", !.fiber = NULL]
            q == [fr[f] EXCEPT !.worker = NULL]
<1>1. pc[w] = "sync" /\ deque[w] # <<>>
  BY DEF SyncNotReady, At, IInv, PlaceInv
<1>2. c = Hand(w) /\ t[w] = NULL /\ Front(deque[w]) = <<>>
  BY <1>1, HandIs DEF SyncNotReady
<1>3. cl[c] \in ClosureRecord /\ NULL \notin Closure /\ TypedTree
  BY TreeIsSeq DEF IInv, Typed
<1>4. r \in ClosureRecord /\ r.frame = f /\ r.call_parent = cl[c].call_parent
      /\ r.spawn_parent = cl[c].spawn_parent /\ r.has_cilk_callee = cl[c].has_cilk_callee
      /\ r.status = "SUSPENDED"
  <2>. DEFINE a == [cl[c] EXCEPT !.status = "SUSPENDED"]
  <2>1. a \in ClosureRecord /\ a.frame = f /\ a.call_parent = cl[c].call_parent
        /\ a.spawn_parent = cl[c].spawn_parent /\ a.has_cilk_callee = cl[c].has_cilk_callee
        /\ a.status = "SUSPENDED"
    BY <1>3 DEF ClosureRecord, Status
  <2>2. r = [a EXCEPT !.fiber = NULL] /\ NULL \in Ref
    BY DEF Ref
  <2>. HIDE DEF a, r
  <2>. QED  BY <2>1, <2>2 DEF ClosureRecord
<1>5. cl' = [cl EXCEPT ![c] = r] /\ fr' = [fr EXCEPT ![f] = q]
  BY DEF SyncNotReady
<1>6. f \in Frame \union {NULL} /\ cl[c].fiber \in Ref
  BY <1>3 DEF ClosureRecord
<1>7. /\ fr' \in [Frame -> FrameRecord] /\ EnteredInv'
      /\ \A h \in Frame : fr[h].at # 0 => fr'[h].at # 0 /\ (fr[h].stolen => fr'[h].stolen)
  <2>1. CASE f = NULL
    <3>1. fr' = fr
      BY <1>5, <2>1, WorkerAssumption DEF IInv, Typed, TypedRun
    <3>. QED  BY <3>1 DEF IInv, Typed, TypedRun, EnteredInv
  <2>2. CASE f # NULL
    <3>1. f \in Frame /\ fr[f] \in FrameRecord /\ fr[f].at # 0 /\ fr[f].at \in Nat
      BY <1>6, <2>2 DEF IInv, FrameInv, Typed, TypedRun, FrameRecord
    <3>2. q \in FrameRecord /\ q.at = fr[f].at /\ (fr[f].stolen => q.stolen)
      BY <3>1 DEF FrameRecord
    <3>. HIDE DEF f, q
    <3>3. q.at >= fr[f].at /\ (fr[f].at = 0 => q.at = 0)
      BY <3>1, <3>2
    <3>. QED  BY <1>5, <3>1, <3>2, <3>3, FrameWritten
  <2>. QED  BY <2>1, <2>2
<1>8. /\ pc' \in [Worker -> PC] /\ pc'[w] = "back"
      /\ toFree' \in [Worker -> Ref] /\ idle' \subseteq Ref
      /\ \A v \in Worker \ {w} : pc'[v] = pc[v]
  BY <1>6 DEF SyncNotReady, Goto, LeftFiber, Free, IInv, Typed, TypedRuntime, TypedRun, PC, Ref
<1>9. r.call_parent \in Closure \union {NULL} /\ r.spawn_parent \in Closure \union {NULL}
  BY <1>3, <1>4 DEF TypedTree
<1>. HIDE DEF q, r
<1>10. /\ TypedTree' /\ Closure' = Closure /\ cl'[c] = r
       /\ \A d \in Closure \ {c} : cl'[d] = cl[d]
  BY <1>3, <1>4, <1>5, <1>9, OneWritten
<1>11. /\ deque' = [deque EXCEPT ![w] = <<>>] /\ deque'[w] = <<>> /\ <<>> \in Deques
       /\ deque' \in [Worker -> Deques] /\ \A v \in Worker \ {w} : deque'[v] = deque[v]
  BY <1>2 DEF SyncNotReady, Deques, IInv, Typed, TypedRuntime
<1>12. Typed'
  <2>1. TypedRun'
    BY <1>7 DEF SyncNotReady, IInv, Typed, TypedRun
  <2>2. Deques' = Deques
    BY <1>10 DEF Deques
  <2>3. TypedRuntime'
    BY <1>8, <1>10, <1>11, <2>2 DEF SyncNotReady, IInv, Typed, TypedRuntime
  <2>. QED  BY <1>10, <2>1, <2>3 DEF Typed
<1>13. \A v \in Worker \ {w} : Hand(v) # NULL => Hand(v) # c /\ Hand(v) \in Closure
  BY <1>2, <1>3, HandIs DEF IInv, OneHand
<1>14. Hand(w)' = NULL /\ HandInv(w)' /\ PlaceInv(w)'
  BY <1>2, <1>8, <1>11 DEF SyncNotReady, Hand, HandInv, PlaceInv
<1>15. \A v \in Worker \ {w} : HandInv(v)' /\ PlaceInv(v)' /\ Hand(v)' = Hand(v)
  <2>. SUFFICES ASSUME NEW v \in Worker \ {w}  PROVE HandInv(v)' /\ PlaceInv(v)' /\ Hand(v)' = Hand(v)
    OBVIOUS
  <2>1. pc'[v] = pc[v] /\ t'[v] = t[v] /\ deque'[v] = deque[v] /\ cur'[v] = cur[v]
    BY <1>8, <1>11 DEF SyncNotReady
  <2>2. Hand(v) # NULL => cl'[Hand(v)] = cl[Hand(v)]
    BY <1>10, <1>13
  <2>. QED  BY <1>7, <2>1, <2>2, OtherKept
<1>16. OneHand'
  BY <1>10, <1>13, <1>14, <1>15 DEF IInv, OneHand
<1>17. \A d \in Closure : Live(d)' <=> Live(d)
  <2>1. Live(c) /\ Live(c)'
    BY <1>2, <1>4, <1>10 DEF Live
  <2>2. ASSUME NEW d \in Closure \ {c}  PROVE Live(d)' <=> Live(d)
    BY <1>2, <1>3, <1>10, <1>14, <1>15 DEF Live
  <2>. QED  BY <2>1, <2>2
<1>18. \A d \in Closure : /\ cl'[d].frame = cl[d].frame /\ cl'[d].call_parent = cl[d].call_parent
                          /\ cl'[d].spawn_parent = cl[d].spawn_parent
                          /\ cl'[d].has_cilk_callee = cl[d].has_cilk_callee
                          /\ cl'[d].status = (IF d = c THEN "SUSPENDED" ELSE cl[d].status)
                          /\ cl[d].call_parent \in Closure \union {NULL}
                          /\ cl[d].spawn_parent \in Closure \union {NULL}
  BY <1>3, <1>4, <1>10 DEF TypedTree
<1>19. CallInv'
  BY <1>10, <1>17, <1>18 DEF CallInv, IInv
<1>20. ParentInv'
  BY <1>10, <1>18 DEF ParentInv, IInv
<1>21. FrameInv'
  <2>1. ASSUME NEW d \in Closure, cl[d].frame # NULL
        PROVE  fr'[cl[d].frame].at # 0 /\ (fr'[cl[d].frame].stolen \/ Entering(d)')
    <3>1. cl[d].frame \in Frame
      BY <2>1, TreeIsSeq DEF IInv, Typed, ClosureRecord
    <3>2. fr[cl[d].frame].at # 0 /\ (fr[cl[d].frame].stolen \/ Entering(d))
      BY <2>1 DEF IInv, FrameInv
    <3>3. Entering(d) => Entering(d)'
      BY <1>1, <1>8, <1>18 DEF Entering, SyncNotReady
    <3>. QED  BY <1>7, <3>1, <3>2, <3>3
  <2>2. \A v \in Worker : \A i \in 1..Len(ltq'[v]) : fr'[ltq'[v][i]].at # 0
    BY <1>7, StackKept DEF SyncNotReady
  <2>. QED  BY <1>10, <1>18, <2>1, <2>2 DEF FrameInv
<1>. QED  BY <1>7, <1>12, <1>14, <1>15, <1>16, <1>19, <1>20, <1>21 DEF IInv

(* The caller takes the child's place: it no longer waits, the child is dead. *)
LEMMA SetReturnParentKeeps ==
  ASSUME IInv, NEW w \in Worker, NEW c \in Closure, NEW p \in Closure, SetReturnParent(w, c, p)
  PROVE  IInv'
<1>. DEFINE f == cl[p].frame
            a == [cl[c] EXCEPT !.mutex = NULL]
            r == [cl[p] EXCEPT !.status = "RUNNING", !.has_cilk_callee = FALSE, !.callee = NULL]
            q == [fr[f] EXCEPT !.worker = w]
<1>1. /\ pc[w] = "set_return_parent" /\ t[w] # NULL /\ c = t[w] /\ p = cl[c].call_parent
      /\ cur[w] \in Frame /\ fr[cur[w]].at # 0
  BY DEF SetReturnParent, At, IInv, PlaceInv
<1>2. c = Hand(w) /\ deque[w] = <<>>
  BY <1>1, HandIs
<1>3. cl[c] \in ClosureRecord /\ cl[p] \in ClosureRecord /\ NULL \notin Closure /\ TypedTree
      /\ Len(cl) \in Nat /\ Closure = 1..Len(cl) /\ cl \in [Closure -> ClosureRecord]
  BY TreeIsSeq DEF IInv, Typed
<1>4. cl[p].has_cilk_callee /\ \A d \in Closure : Live(d) /\ cl[d].call_parent = p => d = c
  <2>1. Live(c) /\ cl[c].call_parent # NULL
    BY <1>1, <1>2, <1>3 DEF Live
  <2>. QED  BY <1>1, <2>1 DEF IInv, CallInv
<1>5. cl[p].status = "SUSPENDED" /\ \A v \in Worker : Hand(v) # p
  BY <1>4, SuspendedIsFree DEF IInv, CallInv
<1>6. p # c /\ cl[c].status # "SUSPENDED"
  BY <1>2, <1>3, <1>5 DEF IInv, OneHand
<1>7. a \in ClosureRecord /\ a.frame = cl[c].frame /\ a.call_parent = p
      /\ a.spawn_parent = cl[c].spawn_parent /\ a.has_cilk_callee = cl[c].has_cilk_callee
      /\ a.status = cl[c].status
  BY <1>1, <1>3 DEF ClosureRecord
<1>8. r \in ClosureRecord /\ r.frame = f /\ r.call_parent = cl[p].call_parent
      /\ r.spawn_parent = cl[p].spawn_parent /\ r.has_cilk_callee = FALSE
      /\ r.status = "RUNNING"
  <2>. DEFINE x == [cl[p] EXCEPT !.status = "RUNNING"]
              y == [x EXCEPT !.has_cilk_callee = FALSE]
  <2>1. x \in ClosureRecord /\ x.frame = f /\ x.call_parent = cl[p].call_parent
        /\ x.spawn_parent = cl[p].spawn_parent /\ x.status = "RUNNING"
    BY <1>3 DEF ClosureRecord, Status
  <2>2. r = [y EXCEPT !.callee = NULL] /\ NULL \in Ref
    BY DEF Ref
  <2>. HIDE DEF x, r
  <2>3. y \in ClosureRecord /\ y.frame = f /\ y.call_parent = cl[p].call_parent
        /\ y.spawn_parent = cl[p].spawn_parent /\ y.status = "RUNNING" /\ y.has_cilk_callee = FALSE
    BY <2>1 DEF ClosureRecord
  <2>. HIDE DEF y
  <2>. QED  BY <2>2, <2>3 DEF ClosureRecord
<1>9. cl' = [cl EXCEPT ![c] = a, ![p] = r] /\ fr' = [fr EXCEPT ![f] = q]
  BY <1>6 DEF SetReturnParent, CallParentResumption
<1>10. f \in Frame \union {NULL}
  BY <1>3 DEF ClosureRecord
<1>11. /\ fr' \in [Frame -> FrameRecord] /\ EnteredInv'
       /\ \A h \in Frame : fr[h].at # 0 => fr'[h].at # 0 /\ (fr[h].stolen => fr'[h].stolen)
  <2>1. CASE f = NULL
    <3>1. fr' = fr
      BY <1>9, <2>1, WorkerAssumption DEF IInv, Typed, TypedRun
    <3>. QED  BY <3>1 DEF IInv, Typed, TypedRun, EnteredInv
  <2>2. CASE f # NULL
    <3>1. f \in Frame /\ fr[f] \in FrameRecord /\ fr[f].at # 0 /\ fr[f].at \in Nat
      BY <1>10, <2>2 DEF IInv, FrameInv, Typed, TypedRun, FrameRecord
    <3>2. q \in FrameRecord /\ q.at = fr[f].at /\ (fr[f].stolen => q.stolen)
      BY <3>1 DEF FrameRecord
    <3>. HIDE DEF f, q
    <3>3. q.at >= fr[f].at /\ (fr[f].at = 0 => q.at = 0)
      BY <3>1, <3>2, SMTT(30)
    <3>. QED  BY <1>9, <3>1, <3>2, <3>3, FrameWritten
  <2>. QED  BY <2>1, <2>2
<1>12. /\ pc' \in [Worker -> PC] /\ pc'[w] = "user" /\ \A v \in Worker \ {w} : pc'[v] = pc[v]
  BY DEF SetReturnParent, Goto, IInv, Typed, TypedRuntime, PC
<1>. HIDE DEF a, r, q
<1>13. /\ cl' \in [1..Len(cl) -> ClosureRecord] /\ cl'[c] = a /\ cl'[p] = r
       /\ \A d \in Closure \ {c, p} : cl'[d] = cl[d]
  BY <1>3, <1>6, <1>7, <1>8, <1>9
<1>14. Closure' = Closure /\ cl' \in Seq(ClosureRecord)
  BY <1>3, <1>13, SeqIsTree DEF Closure
<1>15. \A d \in Closure : /\ cl'[d].frame = cl[d].frame /\ cl'[d].call_parent = cl[d].call_parent
                          /\ cl'[d].spawn_parent = cl[d].spawn_parent
                          /\ d # p => cl'[d].has_cilk_callee = cl[d].has_cilk_callee
                          /\ d # p => cl'[d].status = cl[d].status
                          /\ cl[d].call_parent \in Closure \union {NULL}
                          /\ cl[d].spawn_parent \in Closure \union {NULL}
  BY <1>1, <1>3, <1>7, <1>8, <1>13 DEF TypedTree
<1>16. ~cl'[p].has_cilk_callee /\ cl'[p].status = "RUNNING"
  BY <1>8, <1>13
<1>17. TypedTree'
  BY <1>14, <1>15 DEF TypedTree
<1>18. /\ t' = [t EXCEPT ![w] = NULL] /\ deque' = [deque EXCEPT ![w] = <<p>>]
       /\ <<p>> \in Deques /\ <<p>> # <<>> /\ <<p>>[1] = p
  BY <1>2, OneEntry DEF SetReturnParent, Deques
<1>19. /\ t' \in [Worker -> Closure \union {NULL}] /\ deque' \in [Worker -> Deques]
       /\ t'[w] = NULL /\ deque'[w] = <<p>> /\ deque'[w] # <<>> /\ deque'[w][1] = p
       /\ \A v \in Worker \ {w} : t'[v] = t[v] /\ deque'[v] = deque[v]
  BY <1>18 DEF IInv, Typed, TypedRuntime
<1>20. Typed'
  <2>1. TypedRun'
    BY <1>11 DEF SetReturnParent, IInv, Typed, TypedRun
  <2>2. Deques' = Deques
    BY <1>14, SMTT(30) DEF Deques
  <2>3. TypedRuntime'
    BY <1>12, <1>14, <1>19, <2>2 DEF SetReturnParent, fiberVars, IInv, Typed, TypedRuntime
  <2>. QED  BY <1>17, <2>1, <2>3 DEF Typed
<1>21. \A v \in Worker \ {w} : Hand(v) # NULL => Hand(v) \notin {c, p} /\ Hand(v) \in Closure
  BY <1>2, <1>3, <1>5, HandIs DEF IInv, OneHand
<1>22. Hand(w)' = p /\ HandInv(w)' /\ PlaceInv(w)'
  BY <1>1, <1>11, <1>12, <1>16, <1>19 DEF SetReturnParent, Hand, HandInv, PlaceInv
<1>23. \A v \in Worker \ {w} : HandInv(v)' /\ PlaceInv(v)' /\ Hand(v)' = Hand(v)
  <2>. SUFFICES ASSUME NEW v \in Worker \ {w}  PROVE HandInv(v)' /\ PlaceInv(v)' /\ Hand(v)' = Hand(v)
    BY SMTT(30)
  <2>1. pc'[v] = pc[v] /\ t'[v] = t[v] /\ deque'[v] = deque[v] /\ cur'[v] = cur[v]
    BY <1>12, <1>19 DEF SetReturnParent
  <2>2. Hand(v) # NULL => cl'[Hand(v)] = cl[Hand(v)]
    BY <1>13, <1>21
  <2>. QED  BY <1>11, <2>1, <2>2, OtherKept
<1>24. OneHand'
  BY <1>3, <1>15, <1>16, <1>21, <1>22, <1>23 DEF IInv, OneHand
<1>25. ~Live(c)' /\ Live(p)' /\ Live(p) /\ \A d \in Closure \ {c, p} : Live(d)' <=> Live(d)
  <2>1. ~Live(c)'
    BY <1>3, <1>6, <1>15, <1>21, <1>22, <1>23 DEF Live
  <2>2. Live(p)' /\ Live(p)
    BY <1>5, <1>22 DEF Live
  <2>3. ASSUME NEW d \in Closure \ {c, p}  PROVE Live(d)' <=> Live(d)
    BY <1>2, <1>3, <1>15, <1>22, <1>23 DEF Live
  <2>. QED  BY <2>1, <2>2, <2>3
<1>26. CallInv'
  <2>1. ASSUME NEW d \in Closure, cl'[d].has_cilk_callee
        PROVE  cl'[d].status = "SUSPENDED" /\ \E e \in Closure : Live(e)' /\ cl'[e].call_parent = d
    <3>1. d # p /\ cl[d].has_cilk_callee
      BY <1>15, <1>16, <2>1
    <3>2. PICK e \in Closure : Live(e) /\ cl[e].call_parent = d
      BY <3>1 DEF IInv, CallInv
    <3>3. e # c /\ cl[d].status = "SUSPENDED"
      BY <1>1, <3>1, <3>2 DEF IInv, CallInv
    <3>. QED  BY <1>15, <1>25, <3>1, <3>2, <3>3
  <2>2. ASSUME NEW d \in Closure, Live(d)', cl'[d].call_parent # NULL
        PROVE  /\ cl'[cl'[d].call_parent].has_cilk_callee
               /\ \A e \in Closure : Live(e)' /\ cl'[e].call_parent = cl'[d].call_parent => e = d
    <3>1. d # c /\ Live(d) /\ cl[d].call_parent # NULL /\ cl[d].call_parent \in Closure
      BY <1>15, <1>25, <2>2
    <3>2. /\ cl[cl[d].call_parent].has_cilk_callee
          /\ \A e \in Closure : Live(e) /\ cl[e].call_parent = cl[d].call_parent => e = d
      BY <3>1 DEF IInv, CallInv
    <3>3. cl[d].call_parent # p
      BY <1>4, <3>1
    <3>4. \A e \in Closure : Live(e)' => Live(e)
      BY <1>25
    <3>. QED  BY <1>15, <3>1, <3>2, <3>3, <3>4
  <2>. QED  BY <1>14, <2>1, <2>2 DEF CallInv
<1>27. ParentInv'
  BY <1>14, <1>15, <1>16 DEF ParentInv, IInv
<1>28. FrameInv'
  <2>1. ASSUME NEW d \in Closure, cl[d].frame # NULL
        PROVE  fr'[cl[d].frame].at # 0 /\ (fr'[cl[d].frame].stolen \/ Entering(d)')
    <3>1. cl[d].frame \in Frame
      BY <2>1, TreeIsSeq DEF IInv, Typed, ClosureRecord
    <3>2. fr[cl[d].frame].at # 0 /\ (fr[cl[d].frame].stolen \/ Entering(d))
      BY <2>1 DEF IInv, FrameInv
    <3>3. Entering(d) => Entering(d)'
      BY <1>1, <1>12, <1>15, <1>19 DEF Entering
    <3>. QED  BY <1>11, <3>1, <3>2, <3>3
  <2>2. \A v \in Worker : \A i \in 1..Len(ltq'[v]) : fr'[ltq'[v][i]].at # 0
    BY <1>11, StackKept DEF SetReturnParent
  <2>. QED  BY <1>14, <1>15, <2>1, <2>2 DEF FrameInv
<1>. QED  BY <1>11, <1>20, <1>22, <1>23, <1>24, <1>26, <1>27, <1>28 DEF IInv

(* A record whose links, frame and status are those of another.               *)
SameLinks(r, c) ==
  /\ r \in ClosureRecord /\ r.frame = c.frame /\ r.call_parent = c.call_parent
  /\ r.spawn_parent = c.spawn_parent /\ r.has_cilk_callee = c.has_cilk_callee
  /\ r.status = c.status

(* Such are the records that differ in another field.                         *)
LEMMA FieldsSet ==
  ASSUME NEW c \in ClosureRecord
  PROVE  /\ \A m \in Worker \union {NULL} : SameLinks([c EXCEPT !.mutex = m], c)
         /\ \A n \in Int : SameLinks([c EXCEPT !.join_counter = n], c)
         /\ \A x \in Ref : /\ SameLinks([c EXCEPT !.fiber = x], c)
                           /\ SameLinks([c EXCEPT !.fiber_child = x], c)
                           /\ SameLinks([c EXCEPT !.orig_rsp = x], c)
         /\ \A x \in Ref : /\ SameLinks([c EXCEPT !.left_sib = x], c)
                           /\ SameLinks([c EXCEPT !.right_sib = x], c)
                           /\ SameLinks([c EXCEPT !.right_most_child = x], c)
<1>1. \A m \in Worker \union {NULL} : SameLinks([c EXCEPT !.mutex = m], c)
  BY DEF SameLinks, ClosureRecord
<1>2. \A n \in Int : SameLinks([c EXCEPT !.join_counter = n], c)
  BY DEF SameLinks, ClosureRecord
<1>3. \A x \in Ref : SameLinks([c EXCEPT !.fiber = x], c)
  BY DEF SameLinks, ClosureRecord
<1>4. \A x \in Ref : SameLinks([c EXCEPT !.fiber_child = x], c)
  BY DEF SameLinks, ClosureRecord
<1>5. \A x \in Ref : SameLinks([c EXCEPT !.orig_rsp = x], c)
  BY DEF SameLinks, ClosureRecord
<1>6. \A x \in Ref : SameLinks([c EXCEPT !.left_sib = x], c)
  BY DEF SameLinks, ClosureRecord
<1>7. \A x \in Ref : SameLinks([c EXCEPT !.right_sib = x], c)
  BY DEF SameLinks, ClosureRecord
<1>8. \A x \in Ref : SameLinks([c EXCEPT !.right_most_child = x], c)
  BY DEF SameLinks, ClosureRecord
<1>. QED  BY <1>1, <1>2, <1>3, <1>4, <1>5, <1>6, <1>7, <1>8

(* What a returning child leaves of itself, of its siblings and of its parent.*)
LEMMA Rejoining ==
  ASSUME TypedTree, NEW c \in Closure
  PROVE  /\ SameLinks([cl[c] EXCEPT !.mutex = NULL, !.left_sib = NULL, !.right_sib = NULL,
                                    !.fiber = IF KeepsFiber(c) THEN NULL ELSE @], cl[c])
         /\ \A d \in Closure : SameLinks(Unlinked(d, c), cl[d]) /\ SameLinks(Rejoined(d, c), cl[d])
<1>1. NULL \in Ref /\ NULL \in Worker \union {NULL}
  BY DEF Ref
<1>2. \A d \in Closure : /\ cl[d] \in ClosureRecord
                         /\ cl[d].left_sib \in Ref /\ cl[d].right_sib \in Ref /\ cl[d].fiber \in Ref
                         /\ cl[d].fiber_child \in Ref /\ cl[d].right_most_child \in Ref
                         /\ cl[d].join_counter \in Int
  BY TreeIsSeq DEF ClosureRecord
<1>3. SameLinks([cl[c] EXCEPT !.mutex = NULL, !.left_sib = NULL, !.right_sib = NULL,
                              !.fiber = IF KeepsFiber(c) THEN NULL ELSE @], cl[c])
  <2>. DEFINE x == [cl[c] EXCEPT !.mutex = NULL]
              y == [x EXCEPT !.left_sib = NULL]
              z == [y EXCEPT !.right_sib = NULL]
              n == IF KeepsFiber(c) THEN NULL ELSE cl[c].fiber
              u == [z EXCEPT !.fiber = n]
  <2>1. n \in Ref
    BY <1>1, <1>2
  <2>2. u = [cl[c] EXCEPT !.mutex = NULL, !.left_sib = NULL, !.right_sib = NULL,
                          !.fiber = IF KeepsFiber(c) THEN NULL ELSE @]
    BY <1>2 DEF ClosureRecord
  <2>3. SameLinks(x, cl[c])
    BY <1>1, <1>2, FieldsSet
  <2>. HIDE DEF x, n
  <2>4. SameLinks(y, x)
    BY <1>1, <2>3, FieldsSet DEF SameLinks
  <2>. HIDE DEF y
  <2>5. SameLinks(z, y)
    BY <1>1, <2>4, FieldsSet DEF SameLinks
  <2>. HIDE DEF z
  <2>6. SameLinks(u, z)
    BY <2>1, <2>5, FieldsSet DEF SameLinks
  <2>. HIDE DEF u
  <2>7. SameLinks(u, cl[c])
    BY <2>3, <2>4, <2>5, <2>6 DEF SameLinks
  <2>. QED  BY <2>2, <2>7
<1>4. ASSUME NEW d \in Closure  PROVE SameLinks(Unlinked(d, c), cl[d])
  <2>. DEFINE m == IF cl[d].right_sib = c THEN cl[c].right_sib ELSE cl[d].right_sib
              n == IF cl[d].left_sib = c THEN cl[c].left_sib ELSE cl[d].left_sib
              x == [cl[d] EXCEPT !.right_sib = m]
              y == [x EXCEPT !.left_sib = n]
  <2>1. m \in Ref /\ n \in Ref
    BY <1>2
  <2>2. y = Unlinked(d, c)
    BY <1>2 DEF Unlinked, ClosureRecord
  <2>. HIDE DEF m, n
  <2>3. SameLinks(x, cl[d])
    BY <1>2, <2>1, FieldsSet
  <2>. HIDE DEF x
  <2>4. SameLinks(y, x)
    BY <2>1, <2>3, FieldsSet DEF SameLinks
  <2>. HIDE DEF y
  <2>. QED  BY <2>2, <2>3, <2>4 DEF SameLinks
<1>5. ASSUME NEW d \in Closure  PROVE SameLinks(Rejoined(d, c), cl[d])
  <2>. DEFINE j == cl[d].join_counter - 1
              m == IF KeepsFiber(c) THEN cl[c].fiber ELSE cl[d].fiber_child
              n == IF cl[d].right_most_child = c THEN cl[c].left_sib ELSE cl[d].right_most_child
              x == [cl[d] EXCEPT !.join_counter = j]
              y == [x EXCEPT !.fiber_child = m]
              z == [y EXCEPT !.right_most_child = n]
  <2>1. j \in Int /\ m \in Ref /\ n \in Ref
    BY <1>2
  <2>2. z = Rejoined(d, c)
    BY <1>2 DEF Rejoined, ClosureRecord
  <2>. HIDE DEF j, m, n
  <2>3. SameLinks(x, cl[d])
    BY <1>2, <2>1, FieldsSet
  <2>. HIDE DEF x
  <2>4. SameLinks(y, x)
    BY <2>1, <2>3, FieldsSet DEF SameLinks
  <2>. HIDE DEF y
  <2>5. SameLinks(z, y)
    BY <2>1, <2>4, FieldsSet DEF SameLinks
  <2>. HIDE DEF z
  <2>. QED  BY <2>2, <2>3, <2>4, <2>5 DEF SameLinks
<1>. QED  BY <1>3, <1>4, <1>5

(* A spawned child is off its parent, which it resumes if it is the last.     *)
LEMMA ReturnParentKeeps ==
  ASSUME IInv, NEW w \in Worker, NEW c \in Closure, NEW p \in Closure, ReturnParent(w, c, p)
  PROVE  IInv'
<1>. DEFINE f == cl[p].frame
            a == [cl[c] EXCEPT !.mutex = NULL, !.left_sib = NULL, !.right_sib = NULL,
                               !.fiber = IF KeepsFiber(c) THEN NULL ELSE @]
            b == SetupForSync(Rejoined(p, c))
            r == [b EXCEPT !.status = "READY"]
            New(d) == IF d = c THEN a ELSE IF d # p THEN Unlinked(d, c)
                      ELSE IF IsGoodSteal(p) THEN r ELSE Rejoined(p, c)
<1>1. pc[w] = "return" /\ t[w] # NULL /\ c = t[w] /\ p = cl[c].spawn_parent
  BY DEF ReturnParent, At, IInv, PlaceInv
<1>2. c = Hand(w) /\ deque[w] = <<>>
  BY <1>1, HandIs
<1>3. NULL \notin Closure /\ TypedTree /\ Len(cl) \in Nat /\ Closure = 1..Len(cl)
      /\ \A d \in Closure : cl[d] \in ClosureRecord
  BY TreeIsSeq DEF IInv, Typed
<1>4. cl[c].call_parent = NULL /\ f # NULL /\ f \in Frame /\ cl[c].status # "SUSPENDED"
  <2>1. p # NULL /\ Hand(w) # NULL
    BY <1>2, <1>3
  <2>2. f \in Frame \union {NULL}
    BY <1>3 DEF ClosureRecord
  <2>. QED  BY <1>1, <1>2, <2>1, <2>2 DEF IInv, ParentInv, OneHand
<1>5. IsGoodSteal(p) => /\ cl[p].status = "SUSPENDED" /\ ~cl[p].has_cilk_callee /\ p # c
                        /\ \A v \in Worker : Hand(v) # p
  BY <1>4, SuspendedIsFree DEF IsGoodSteal
<1>6. SameLinks(a, cl[c]) /\ \A d \in Closure : SameLinks(Unlinked(d, c), cl[d]) /\ SameLinks(Rejoined(d, c), cl[d])
  BY <1>3, Rejoining
<1>7. r \in ClosureRecord /\ r.frame = f /\ r.call_parent = cl[p].call_parent
      /\ r.spawn_parent = cl[p].spawn_parent /\ r.has_cilk_callee = cl[p].has_cilk_callee
      /\ r.status = "READY"
  <2>1. b \in ClosureRecord /\ b.frame = f /\ b.call_parent = cl[p].call_parent
        /\ b.spawn_parent = cl[p].spawn_parent /\ b.has_cilk_callee = cl[p].has_cilk_callee
    BY <1>6, SetUp DEF SameLinks
  <2>. HIDE DEF b
  <2>. QED  BY <2>1 DEF ClosureRecord, Status
<1>8. cl' = [d \in Closure |-> New(d)]
  BY DEF ReturnParent
<1>. HIDE DEF a, b, r
<1>9. /\ cl' \in [1..Len(cl) -> ClosureRecord]
      /\ \A d \in Closure : /\ cl'[d].frame = cl[d].frame /\ cl'[d].call_parent = cl[d].call_parent
                            /\ cl'[d].spawn_parent = cl[d].spawn_parent
                            /\ cl'[d].has_cilk_callee = cl[d].has_cilk_callee
                            /\ cl'[d].status = IF d = p /\ IsGoodSteal(p) THEN "READY" ELSE cl[d].status
  <2>1. ASSUME NEW d \in Closure
        PROVE  /\ New(d) \in ClosureRecord
               /\ New(d).frame = cl[d].frame /\ New(d).call_parent = cl[d].call_parent
               /\ New(d).spawn_parent = cl[d].spawn_parent
               /\ New(d).has_cilk_callee = cl[d].has_cilk_callee
               /\ New(d).status = IF d = p /\ IsGoodSteal(p) THEN "READY" ELSE cl[d].status
    <3>1. CASE d = c
      BY <1>5, <1>6, <3>1 DEF SameLinks
    <3>2. CASE d # c /\ d # p
      BY <1>6, <3>2 DEF SameLinks
    <3>3. CASE d # c /\ d = p /\ IsGoodSteal(p)
      BY <1>7, <3>3
    <3>4. CASE d # c /\ d = p /\ ~IsGoodSteal(p)
      BY <1>6, <3>4 DEF SameLinks
    <3>. QED  BY <3>1, <3>2, <3>3, <3>4
  <2>. HIDE DEF New
  <2>. QED  BY <1>3, <1>8, <2>1
<1>. HIDE DEF New
<1>10. Closure' = Closure /\ cl' \in Seq(ClosureRecord)
  BY <1>3, <1>9, SeqIsTree DEF Closure
<1>11. \A d \in Closure : /\ cl[d].call_parent \in Closure \union {NULL}
                          /\ cl[d].spawn_parent \in Closure \union {NULL}
  BY <1>3 DEF TypedTree
<1>12. TypedTree'
  BY <1>9, <1>10, <1>11 DEF TypedTree
<1>13. /\ fr' \in [Frame -> FrameRecord] /\ EnteredInv'
       /\ \A h \in Frame : fr[h].at # 0 => fr'[h].at # 0 /\ (fr[h].stolen => fr'[h].stolen)
  <2>1. CASE ~IsGoodSteal(p)
    <3>1. fr' = fr
      BY <2>1 DEF ReturnParent
    <3>. QED  BY <3>1 DEF IInv, Typed, TypedRun, EnteredInv
  <2>2. CASE IsGoodSteal(p)
    <3>. DEFINE q == SyncedFrame(w, cl[p])
    <3>1. fr' = [fr EXCEPT ![f] = q]
      BY <2>2 DEF ReturnParent
    <3>2. q \in FrameRecord /\ q.at = fr[f].at /\ (fr[f].stolen => q.stolen)
      BY <1>3, <1>4, SyncedFrameIs
    <3>. HIDE DEF f, q
    <3>3. fr[f].at \in Nat
      BY <1>4 DEF IInv, Typed, TypedRun, FrameRecord
    <3>4. q.at >= fr[f].at /\ (fr[f].at = 0 => q.at = 0)
      BY <3>2, <3>3
    <3>. QED  BY <1>4, <3>1, <3>2, <3>4, FrameWritten
  <2>. QED  BY <2>1, <2>2
<1>14. /\ pc' \in [Worker -> PC] /\ pc'[w] = "loop" /\ \A v \in Worker \ {w} : pc'[v] = pc[v]
  BY DEF ReturnParent, Goto, IInv, Typed, TypedRuntime, PC
<1>15. /\ t' \in [Worker -> Closure \union {NULL}] /\ deque' = deque
       /\ t'[w] = (IF IsGoodSteal(p) THEN p ELSE NULL)
       /\ \A v \in Worker \ {w} : t'[v] = t[v]
  BY DEF ReturnParent, IInv, Typed, TypedRuntime
<1>16. Typed'
  <2>1. TypedRun'
    BY <1>13 DEF ReturnParent, IInv, Typed, TypedRun
  <2>2. Deques' = Deques
    BY <1>10 DEF Deques
  <2>3. idle' \subseteq Ref
    <3>1. cl[c].fiber \in Ref /\ cl[p].fiber \in Ref /\ toFree[w] \in Ref /\ idle \subseteq Ref
      BY <1>3 DEF ClosureRecord, IInv, Typed, TypedRuntime
    <3>2. idle' = idle \union Free({toFree[w]})
                  \union (IF KeepsFiber(c) THEN {} ELSE {cl[c].fiber})
                  \union (IF IsGoodSteal(p) THEN Free({cl[p].fiber}) ELSE {})
      BY DEF ReturnParent
    <3>. QED  BY <3>1, <3>2 DEF Free
  <2>4. toFree' \in [Worker -> Ref] /\ good' \in [Worker -> BOOLEAN]
    BY DEF ReturnParent, Ref, IInv, Typed, TypedRuntime
  <2>5. TypedRuntime'
    BY <1>10, <1>14, <1>15, <2>2, <2>3, <2>4 DEF ReturnParent, IInv, Typed, TypedRuntime
  <2>. QED  BY <1>12, <2>1, <2>5 DEF Typed
<1>17. \A v \in Worker \ {w} : Hand(v) # NULL => /\ Hand(v) # c /\ Hand(v) \in Closure
                                                 /\ cl'[Hand(v)].status = cl[Hand(v)].status
  BY <1>2, <1>3, <1>5, <1>9, HandIs DEF IInv, OneHand
<1>18. /\ Hand(w)' = (IF IsGoodSteal(p) THEN p ELSE NULL)
       /\ HandInv(w)' /\ PlaceInv(w)'
  BY <1>2, <1>3, <1>14, <1>15 DEF Hand, HandInv, PlaceInv
<1>19. \A v \in Worker \ {w} : HandInv(v)' /\ PlaceInv(v)' /\ Hand(v)' = Hand(v)
  <2>. SUFFICES ASSUME NEW v \in Worker \ {w}  PROVE HandInv(v)' /\ PlaceInv(v)' /\ Hand(v)' = Hand(v)
    OBVIOUS
  <2>1. pc'[v] = pc[v] /\ t'[v] = t[v] /\ deque'[v] = deque[v] /\ cur'[v] = cur[v]
    BY <1>14, <1>15 DEF ReturnParent
  <2>2. Hand(v) # NULL => /\ cl'[Hand(v)].status = cl[Hand(v)].status
                          /\ cl[Hand(v)].frame # NULL => cl'[Hand(v)].frame # NULL
    BY <1>9, <1>17
  <2>. QED  BY <1>13, <2>1, <2>2, OtherKept
<1>20. OneHand'
  BY <1>3, <1>5, <1>9, <1>17, <1>18, <1>19 DEF IInv, OneHand
<1>21. ~Live(c)' /\ \A d \in Closure \ {c} : Live(d)' <=> Live(d)
  <2>1. ~Live(c)'
    BY <1>3, <1>4, <1>5, <1>9, <1>17, <1>18, <1>19 DEF Live
  <2>2. ASSUME NEW d \in Closure \ {c}  PROVE Live(d)' <=> Live(d)
    BY <1>2, <1>3, <1>5, <1>9, <1>18, <1>19 DEF Live
  <2>. QED  BY <2>1, <2>2
<1>22. CallInv'
  <2>1. ASSUME NEW d \in Closure, cl[d].has_cilk_callee
        PROVE  cl'[d].status = "SUSPENDED" /\ \E e \in Closure : Live(e)' /\ cl'[e].call_parent = d
    <3>1. PICK e \in Closure : Live(e) /\ cl[e].call_parent = d
      BY <2>1 DEF IInv, CallInv
    <3>2. e # c /\ cl[d].status = "SUSPENDED"
      BY <1>3, <1>4, <2>1, <3>1 DEF IInv, CallInv
    <3>. QED  BY <1>5, <1>9, <1>21, <2>1, <3>1, <3>2
  <2>. QED  BY <1>9, <1>10, <1>11, <1>21, <2>1 DEF CallInv, IInv
<1>23. ParentInv'
  BY <1>4, <1>9, <1>10, <1>11 DEF ParentInv, IInv
<1>24. FrameInv'
  <2>1. ASSUME NEW d \in Closure, cl[d].frame # NULL
        PROVE  fr'[cl[d].frame].at # 0 /\ (fr'[cl[d].frame].stolen \/ Entering(d)')
    <3>1. cl[d].frame \in Frame
      BY <1>3, <2>1 DEF ClosureRecord
    <3>2. fr[cl[d].frame].at # 0 /\ (fr[cl[d].frame].stolen \/ Entering(d))
      BY <2>1 DEF IInv, FrameInv
    <3>3. Entering(d) => Entering(d)'
      BY <1>1, <1>9, <1>14, <1>15 DEF Entering
    <3>. QED  BY <1>13, <3>1, <3>2, <3>3
  <2>2. \A v \in Worker : \A i \in 1..Len(ltq'[v]) : fr'[ltq'[v][i]].at # 0
    BY <1>13, StackKept DEF ReturnParent
  <2>. QED  BY <1>9, <1>10, <2>1, <2>2 DEF FrameInv
<1>. QED  BY <1>13, <1>16, <1>18, <1>19, <1>20, <1>22, <1>23, <1>24 DEF IInv

-----------------------------------------------------------------------------
(* A fiber for the thief, and the closures of a stolen frame and its child.   *)
LEMMA FiberForThief ==
  ASSUME Typed
  PROVE  NewFiber \in Nat \union {NULL} /\ idle \ {NewFiber} \subseteq Ref
         /\ (IF idle = {} THEN made + 1 ELSE made) \in Nat
<1>1. made \in Nat /\ idle \subseteq Ref
  BY DEF Typed, TypedRuntime
<1>2. CASE idle = {}
  BY <1>1, <1>2 DEF NewFiber
<1>3. CASE idle # {}
  <2>1. NewFiber \in idle
    BY <1>3 DEF NewFiber
  <2>. QED  BY <1>1, <1>3, <2>1 DEF Ref
<1>. QED  BY <1>2, <1>3

(* What promotion makes of the stolen closure ...                             *)
LEMMA ParentRecord ==
  ASSUME IInv, NEW w \in Worker, NEW c \in ClosureRecord, c.frame \in Frame,
         NEW child \in Ref, NEW fiber \in Ref
  PROVE  SameLinks(SpawnParent(w, c, child, fiber), c)
<1>. DEFINE j == c.join_counter + 1
            o == IF c.orig_rsp = NULL THEN fr[c.frame].sp ELSE c.orig_rsp
            x == [c EXCEPT !.mutex = w]
            y == [x EXCEPT !.fiber = fiber]
            z == [y EXCEPT !.right_most_child = child]
            u == [z EXCEPT !.join_counter = j]
            v == [u EXCEPT !.orig_rsp = o]
<1>1. c.join_counter \in Int /\ c.orig_rsp \in Ref /\ fr[c.frame].sp \in Ref
  BY DEF ClosureRecord, IInv, Typed, TypedRun, FrameRecord
<1>2. j \in Int /\ o \in Ref
  BY <1>1
<1>3. v = SpawnParent(w, c, child, fiber)
  BY DEF SpawnParent, ClosureRecord
<1>. HIDE DEF j, o
<1>4. SameLinks(x, c)
  BY FieldsSet
<1>. HIDE DEF x
<1>5. SameLinks(y, x)
  BY <1>4, FieldsSet DEF SameLinks
<1>. HIDE DEF y
<1>6. SameLinks(z, y)
  BY <1>5, FieldsSet DEF SameLinks
<1>. HIDE DEF z
<1>7. SameLinks(u, z)
  BY <1>2, <1>6, FieldsSet DEF SameLinks
<1>. HIDE DEF u
<1>8. SameLinks(v, u)
  BY <1>2, <1>7, FieldsSet DEF SameLinks
<1>. HIDE DEF v
<1>9. SameLinks(v, c)
  BY <1>4, <1>5, <1>6, <1>7, <1>8 DEF SameLinks
<1>. QED  BY <1>3, <1>9

(* ... the child it makes for the victim ...                                  *)
LEMMA ChildRecord ==
  ASSUME NEW p \in Ref, NEW left \in Ref, NEW fiber \in Ref
  PROVE  LET r == SpawnChild(p, left, fiber)
         IN /\ r \in ClosureRecord /\ r.frame = NULL /\ r.call_parent = NULL
            /\ r.spawn_parent = p /\ r.has_cilk_callee = FALSE /\ r.status = "RUNNING"
<1>. DEFINE a == Closure_init("RUNNING")
            x == [a EXCEPT !.spawn_parent = p]
            y == [x EXCEPT !.left_sib = left]
            z == [y EXCEPT !.fiber = fiber]
<1>1. z = SpawnChild(p, left, fiber)
  BY DEF SpawnChild
<1>2. /\ a \in ClosureRecord /\ a.status = "RUNNING" /\ a.frame = NULL
      /\ a.has_cilk_callee = FALSE /\ a.call_parent = NULL
  <2>1. a.has_cilk_callee = FALSE
    BY DEF Closure_init
  <2>. QED  BY <2>1, Initialised DEF Status
<1>. HIDE DEF a
<1>3. /\ x \in ClosureRecord /\ x.status = "RUNNING" /\ x.frame = NULL
      /\ x.has_cilk_callee = FALSE /\ x.call_parent = NULL /\ x.spawn_parent = p
  BY <1>2 DEF ClosureRecord
<1>. HIDE DEF x
<1>4. SameLinks(y, x)
  BY <1>3, FieldsSet
<1>. HIDE DEF y
<1>5. SameLinks(z, y)
  BY <1>4, FieldsSet DEF SameLinks
<1>. HIDE DEF z
<1>. QED  BY <1>1, <1>3, <1>4, <1>5 DEF SameLinks

(* ... and, for a frame without a closure, the one that it makes.             *)
LEMMA CalledRecord ==
  ASSUME NEW f \in Frame, NEW c \in Ref
  PROVE  LET r == [Closure_init("RUNNING") EXCEPT !.frame = f, !.call_parent = c]
         IN /\ r \in ClosureRecord /\ r.frame = f /\ r.call_parent = c
            /\ r.spawn_parent = NULL /\ r.has_cilk_callee = FALSE /\ r.status = "RUNNING"
<1>. DEFINE a == Closure_init("RUNNING")
            x == [a EXCEPT !.frame = f]
            y == [x EXCEPT !.call_parent = c]
<1>1. y = [Closure_init("RUNNING") EXCEPT !.frame = f, !.call_parent = c]
  OBVIOUS
<1>2. /\ a \in ClosureRecord /\ a.status = "RUNNING" /\ a.spawn_parent = NULL
      /\ a.has_cilk_callee = FALSE
  <2>1. a.has_cilk_callee = FALSE
    BY DEF Closure_init
  <2>. QED  BY <2>1, Initialised DEF Status
<1>. HIDE DEF a
<1>3. /\ x \in ClosureRecord /\ x.status = "RUNNING" /\ x.frame = f
      /\ x.has_cilk_callee = FALSE /\ x.spawn_parent = NULL
  BY <1>2 DEF ClosureRecord
<1>. HIDE DEF x
<1>4. /\ y \in ClosureRecord /\ y.status = "RUNNING" /\ y.frame = f
      /\ y.has_cilk_callee = FALSE /\ y.spawn_parent = NULL /\ y.call_parent = c
  BY <1>3 DEF ClosureRecord
<1>. HIDE DEF y
<1>. QED  BY <1>1, <1>4

(* What a thief that can steal sees.                                          *)
LEMMA CanStealFrom ==
  ASSUME IInv, NEW w \in Worker, NEW v \in Worker, NEW c \in Closure, Promote(w, v, c)
  PROVE  /\ pc[w] = "steal" /\ t[w] = NULL /\ deque[w] = <<>> /\ Hand(w) = NULL
         /\ v # w /\ deque[v] = <<c>> /\ t[v] = NULL /\ Hand(v) = c /\ cl[c].status = "RUNNING"
         /\ ltq[v] \in Seq(Frame) /\ ltq[v] # <<>> /\ Head(ltq[v]) \in Frame
         /\ fr[Head(ltq[v])].at # 0
         /\ ltq' \in [Worker -> Seq(Frame)] /\ fr' = fr /\ cur' = cur /\ on' = on
         /\ \A u \in Worker : \A i \in 1..Len(ltq'[u]) : fr'[ltq'[u][i]].at # 0
         /\ \A d \in Nat : \A own \in BOOLEAN : Detached(deque[v], d, own) = <<d>>
<1>1. /\ pc[w] = "steal" /\ deque[v] # <<>> /\ cl[c].status = "RUNNING" /\ ltq[v] # <<>>
      /\ c = Head(deque[v]) /\ ltq' = [ltq EXCEPT ![v] = Tail(ltq[v])]
      /\ fr' = fr /\ cur' = cur /\ on' = on
  BY DEF Promote, At, CanSteal, Unhooked
<1>2. t[w] = NULL /\ deque[w] = <<>> /\ Hand(w) = NULL
  BY <1>1, HandIs DEF IInv, PlaceInv
<1>3. deque[v] = <<c>> /\ t[v] = NULL /\ Hand(v) = c /\ v # w
  BY <1>1, <1>2, HandIs
<1>4. ltq \in [Worker -> Seq(Frame)] /\ \A u \in Worker : ltq[u] \in Seq(Frame)
  BY DEF IInv, Typed, TypedRun
<1>5. \A u \in Worker : \A i \in 1..Len(ltq[u]) : fr[ltq[u][i]].at # 0
  BY DEF IInv, FrameInv
<1>. DEFINE s == ltq[v]
            r == Tail(s)
<1>6. s \in Seq(Frame) /\ s # <<>> /\ Len(s) \in Nat
  BY <1>1, <1>4, LenProperties
<1>7. Head(s) \in Frame /\ r \in Seq(Frame) /\ Len(r) = Len(s) - 1
      /\ \A i \in 1..Len(r) : r[i] = s[i + 1]
  <2>. HIDE DEF s
  <2>. QED  BY <1>6, HeadTailProperties
<1>8. fr[Head(s)].at # 0
  <2>1. Len(s) # 0
    <3>. HIDE DEF s
    <3>. QED  BY <1>6, EmptySeq
  <2>2. 1 \in 1..Len(s) /\ Head(s) = s[1]
    BY <1>6, <2>1
  <2>. QED  BY <1>5, <2>2
<1>9. \A i \in 1..Len(r) : fr[r[i]].at # 0
  <2>1. \A i \in 1..Len(s) : fr[s[i]].at # 0
    BY <1>5
  <2>. HIDE DEF s, r
  <2>2. \A i \in 1..Len(r) : i + 1 \in 1..Len(s)
    BY <1>6, <1>7
  <2>. QED  BY <1>7, <2>1, <2>2
<1>10. ltq' = [ltq EXCEPT ![v] = r]
  BY <1>1
<1>. HIDE DEF r, s
<1>11. /\ ltq' \in [Worker -> Seq(Frame)]
       /\ \A u \in Worker : \A i \in 1..Len(ltq'[u]) : fr'[ltq'[u][i]].at # 0
  BY <1>1, <1>4, <1>5, <1>7, <1>9, <1>10
<1>12. ASSUME NEW d \in Nat, NEW own \in BOOLEAN  PROVE Detached(deque[v], d, own) = <<d>>
  <2>1. Tail(Append(<<c>>, d)) = <<d>> /\ Append(Front(<<c>>), d) = <<d>>
    BY OneEntry
  <2>. QED  BY <1>3, <2>1, Zenon DEF Detached
<1>. QED  BY <1>1, <1>2, <1>3, <1>6, <1>7, <1>8, <1>11, <1>12 DEF s

(* What both kinds of promotion do to the workers: the thief w has x, a       *)
(* closure of a frame, and its victim v the new closure d.                    *)
AfterPromotion(w, v, c, x, d) ==
  /\ Typed' /\ (\A u \in Worker : HandInv(u)' /\ PlaceInv(u)') /\ OneHand' /\ EnteredInv'
  /\ Hand(w)' = x /\ Hand(v)' = d
  /\ \A u \in Worker \ {w, v} : /\ Hand(u)' = Hand(u) /\ Hand(u) # c /\ Hand(u) # x /\ Hand(u) # d
                                /\ Hand(u) \in Closure \union {NULL}
  /\ pc'[w] = "promoted" /\ t'[w] = x
  /\ \A u \in Worker \ {w} : pc'[u] = pc[u] /\ t'[u] = t[u]

Promoting(w, v, c, x, d) ==
  /\ TypedTree' /\ Closure \subseteq Closure'
  /\ x \in Closure' /\ d \in Closure' /\ d \notin Closure /\ x # d /\ (x = c \/ x \notin Closure)
  /\ deque' = [deque EXCEPT ![v] = <<d>>] /\ t' = [t EXCEPT ![w] = x]
  /\ cl'[d].status = "RUNNING" /\ cl'[x].status = "RUNNING" /\ cl'[x].frame # NULL
  /\ \A e \in Closure : cl'[e].frame = cl[e].frame /\ (e # c => cl'[e].status = cl[e].status)

(* The workers after a promotion of either kind.                              *)
LEMMA Promoted ==
  ASSUME IInv, NEW w \in Worker, NEW v \in Worker, NEW c \in Closure, Promote(w, v, c),
         NEW x \in Nat, NEW d \in Nat, Promoting(w, v, c, x, d)
  PROVE  AfterPromotion(w, v, c, x, d)
<1>. USE DEF Promoting
<1>1. /\ pc[w] = "steal" /\ t[w] = NULL /\ deque[w] = <<>> /\ Hand(w) = NULL
      /\ v # w /\ deque[v] = <<c>> /\ t[v] = NULL /\ Hand(v) = c /\ cl[c].status = "RUNNING"
      /\ ltq' \in [Worker -> Seq(Frame)] /\ fr' = fr /\ cur' = cur /\ on' = on
  BY CanStealFrom
<1>2. NULL \notin Closure /\ NULL \notin Nat
  BY TreeIsSeq, WorkerAssumption DEF IInv, Typed
<1>3. /\ pc' \in [Worker -> PC] /\ pc'[w] = "promoted" /\ \A u \in Worker \ {w} : pc'[u] = pc[u]
  BY DEF Promote, Goto, IInv, Typed, TypedRuntime, PC
<1>4. <<d>> \in Deques' /\ <<d>> # <<>> /\ <<d>>[1] = d
  BY OneEntry DEF Deques
<1>5. \A q \in Deques : q \in Deques'
  BY DEF Deques
<1>6. /\ t' \in [Worker -> Closure' \union {NULL}] /\ deque' \in [Worker -> Deques']
      /\ t'[w] = x /\ deque'[w] = <<>> /\ t'[v] = NULL /\ deque'[v] = <<d>>
      /\ \A u \in Worker \ {w} : t'[u] = t[u]
      /\ \A u \in Worker \ {v} : deque'[u] = deque[u]
  BY <1>1, <1>4, <1>5 DEF IInv, Typed, TypedRuntime
<1>7. Typed'
  <2>1. TypedRun'
    BY <1>1 DEF IInv, Typed, TypedRun
  <2>2. made' \in Nat /\ idle' \subseteq Ref
    BY FiberForThief DEF Promote, IInv
  <2>3. TypedRuntime'
    BY <1>3, <1>6, <2>2 DEF Promote, IInv, Typed, TypedRuntime
  <2>. QED  BY <2>1, <2>3 DEF Typed
<1>8. EnteredInv'
  BY <1>1 DEF IInv, EnteredInv
<1>9. Hand(w)' = x /\ Hand(v)' = d
  BY <1>2, <1>4, <1>6 DEF Hand
<1>10. \A u \in Worker \ {w, v} : Hand(u) \in Closure \union {NULL} /\ Hand(u) \notin {c, x, d}
  BY <1>1, <1>2, HandIs DEF IInv, OneHand
<1>11. \A u \in Worker \ {w, v} : HandInv(u)' /\ PlaceInv(u)' /\ Hand(u)' = Hand(u)
  <2>. SUFFICES ASSUME NEW u \in Worker \ {w, v}  PROVE HandInv(u)' /\ PlaceInv(u)' /\ Hand(u)' = Hand(u)
    OBVIOUS
  <2>1. pc'[u] = pc[u] /\ t'[u] = t[u] /\ deque'[u] = deque[u] /\ cur'[u] = cur[u]
    BY <1>1, <1>3, <1>6
  <2>2. Hand(u) # NULL => /\ cl'[Hand(u)].status = cl[Hand(u)].status
                          /\ cl[Hand(u)].frame # NULL => cl'[Hand(u)].frame # NULL
    BY <1>10
  <2>3. \A f \in Frame : fr[f].at # 0 => fr'[f].at # 0
    BY <1>1
  <2>. QED  BY <2>1, <2>2, <2>3, OtherKept
<1>12. HandInv(w)' /\ PlaceInv(w)'
  BY <1>1, <1>2, <1>3, <1>6 DEF HandInv, PlaceInv
<1>13. HandInv(v)' /\ PlaceInv(v)'
  <2>1. HandInv(v)'
    BY <1>4, <1>6 DEF HandInv
  <2>2. PlaceInv(v) /\ pc'[v] = pc[v] /\ cur'[v] = cur[v]
    BY <1>1, <1>3 DEF IInv
  <2>3. deque[v] # <<>> /\ deque'[v] # <<>>
    BY <1>4, <1>6, OneEntry, <1>1
  <2>4. PlaceInv(v)'
    BY <1>1, <1>6, <2>2, <2>3 DEF PlaceInv
  <2>. QED  BY <2>1, <2>4
<1>14. OneHand'
  <2>1. \A u \in Worker : Hand(u)' # NULL => cl'[Hand(u)'].status # "SUSPENDED"
    BY <1>9, <1>10, <1>11 DEF IInv, OneHand
  <2>2. \A u, z \in Worker : u # z /\ Hand(u)' = Hand(z)' => Hand(u)' = NULL
    BY <1>9, <1>10, <1>11 DEF IInv, OneHand
  <2>. QED  BY <2>1, <2>2 DEF OneHand
<1>. QED
  BY <1>3, <1>6, <1>7, <1>8, <1>9, <1>10, <1>11, <1>12, <1>13, <1>14 DEF AfterPromotion

(* The join counters of the two.                                              *)
LEMMA CountedChild ==
  /\ \A w, child, fiber : \A c \in ClosureRecord :
       SpawnParent(w, c, child, fiber).join_counter = c.join_counter + 1
  /\ \A p, left, fiber : SpawnChild(p, left, fiber).join_counter = 0
  /\ \A f, c : [Closure_init("RUNNING") EXCEPT !.frame = f, !.call_parent = c].join_counter = 0
<1>1. \A w, child, fiber : \A c \in ClosureRecord :
        SpawnParent(w, c, child, fiber).join_counter = c.join_counter + 1
  BY DEF SpawnParent, ClosureRecord
<1>2. \A p, left, fiber : SpawnChild(p, left, fiber).join_counter = 0
  BY DEF SpawnChild, Closure_init
<1>3. \A f, c : [Closure_init("RUNNING") EXCEPT !.frame = f, !.call_parent = c].join_counter = 0
  BY DEF Closure_init
<1>. QED  BY <1>1, <1>2, <1>3

(* The siblings and the fibers of a closure, and what the two kinds of        *)
(* promotion do to them: d is the child of x, which is c or new.              *)
Sites(r, left, right, most, fiber, child, rsp) ==
  /\ r.left_sib = left /\ r.right_sib = right /\ r.right_most_child = most
  /\ r.fiber = fiber /\ r.fiber_child = child /\ r.orig_rsp = rsp
KeepsSites(r, c) ==
  Sites(r, c.left_sib, c.right_sib, c.right_most_child, c.fiber, c.fiber_child, c.orig_rsp)
TakenSites(c, x, d, f) ==
  /\ \A e \in Closure : e < d
  /\ Sites(cl'[d], IF x = c THEN cl[c].right_most_child ELSE NULL, NULL, NULL, cl[c].fiber, NULL, NULL)
  /\ x = c => Sites(cl'[x], cl[c].left_sib, cl[c].right_sib, d, NewFiber, cl[c].fiber_child,
                    IF cl[c].orig_rsp = NULL THEN fr[f].sp ELSE cl[c].orig_rsp)
  /\ x # c => Sites(cl'[x], NULL, NULL, d, NewFiber, NULL, fr[f].sp)
  /\ \A e \in Closure \ {x} :
       Sites(cl'[e], cl[e].left_sib,
             IF x = c /\ e = cl[c].right_most_child THEN d ELSE cl[e].right_sib,
             cl[e].right_most_child, cl[e].fiber, cl[e].fiber_child, cl[e].orig_rsp)

(* Those of the records that promotion makes.                                 *)
LEMMA PromotedSites ==
  /\ \A p, l, x : Sites(SpawnChild(p, l, x), l, NULL, NULL, x, NULL, NULL)
  /\ \A w, d, x : \A c \in ClosureRecord :
       Sites(SpawnParent(w, c, d, x), c.left_sib, c.right_sib, d, x, c.fiber_child,
             IF c.orig_rsp = NULL THEN fr[c.frame].sp ELSE c.orig_rsp)
  /\ \A f, c : Sites([Closure_init("RUNNING") EXCEPT !.frame = f, !.call_parent = c],
                     NULL, NULL, NULL, NULL, NULL, NULL)
  /\ \A c \in ClosureRecord : KeepsSites([c EXCEPT !.has_cilk_callee = TRUE, !.status = "SUSPENDED"], c)
  /\ \A c \in ClosureRecord : \A x :
       Sites([c EXCEPT !.right_sib = x], c.left_sib, x, c.right_most_child, c.fiber, c.fiber_child, c.orig_rsp)
<1>1. \A p, l, x : Sites(SpawnChild(p, l, x), l, NULL, NULL, x, NULL, NULL)
  BY DEF SpawnChild, Closure_init, Sites
<1>2. ASSUME NEW w, NEW d, NEW x, NEW c \in ClosureRecord
      PROVE  Sites(SpawnParent(w, c, d, x), c.left_sib, c.right_sib, d, x, c.fiber_child,
                   IF c.orig_rsp = NULL THEN fr[c.frame].sp ELSE c.orig_rsp)
  BY DEF SpawnParent, ClosureRecord, Sites
<1>3. \A f, c : Sites([Closure_init("RUNNING") EXCEPT !.frame = f, !.call_parent = c],
                     NULL, NULL, NULL, NULL, NULL, NULL)
  BY DEF Closure_init, Sites
<1>4. ASSUME NEW c \in ClosureRecord
      PROVE  KeepsSites([c EXCEPT !.has_cilk_callee = TRUE, !.status = "SUSPENDED"], c)
  BY DEF ClosureRecord, KeepsSites, Sites
<1>5. ASSUME NEW c \in ClosureRecord, NEW x
      PROVE  Sites([c EXCEPT !.right_sib = x], c.left_sib, x, c.right_most_child, c.fiber, c.fiber_child,
                   c.orig_rsp)
  BY DEF ClosureRecord, Sites
<1>. QED  BY <1>1, <1>2, <1>3, <1>4, <1>5

(* The stolen frame has a closure, which the thief takes.                     *)
FullFrameTakes(w, v, c, d) ==
  /\ d \notin Closure /\ Closure' = Closure \union {d} /\ deque' = [deque EXCEPT ![v] = <<d>>]
  /\ AfterPromotion(w, v, c, c, d)
  /\ cl'[d].frame = NULL /\ cl'[d].call_parent = NULL /\ cl'[d].spawn_parent = c
  /\ cl'[d].has_cilk_callee = FALSE /\ cl'[d].status = "RUNNING" /\ cl'[d].join_counter = 0
  /\ \A e \in Closure : /\ cl'[e].frame = cl[e].frame /\ cl'[e].call_parent = cl[e].call_parent
                        /\ cl'[e].spawn_parent = cl[e].spawn_parent
                        /\ cl'[e].has_cilk_callee = cl[e].has_cilk_callee
                        /\ cl'[e].status = cl[e].status
                        /\ cl'[e].join_counter = cl[e].join_counter + (IF e = c THEN 1 ELSE 0)

LEMMA FullFrameTaken ==
  ASSUME IInv, NEW w \in Worker, NEW v \in Worker, NEW c \in Closure, Promote(w, v, c),
         cl[c].frame = Head(ltq[v]), PromoteFullFrame(w, v, c)
  PROVE  \E d \in Nat : FullFrameTakes(w, v, c, d) /\ TakenSites(c, c, d, Head(ltq[v]))
<1>. DEFINE n == Len(cl)
            child == n + 1
            left == cl[c].right_most_child
            new == SpawnChild(c, left, cl[c].fiber)
            par == SpawnParent(w, cl[c], child, NewFiber)
            New(d) == IF d = child THEN new ELSE IF d = c THEN par
                      ELSE IF d = left THEN [cl[d] EXCEPT !.right_sib = child] ELSE cl[d]
<1>1. /\ pc[w] = "steal" /\ v # w /\ Hand(w) = NULL /\ Hand(v) = c /\ cl[c].status = "RUNNING"
      /\ Head(ltq[v]) \in Frame /\ fr[Head(ltq[v])].at # 0 /\ fr' = fr
      /\ \A u \in Worker : \A i \in 1..Len(ltq'[u]) : fr'[ltq'[u][i]].at # 0
      /\ \A d \in Nat : \A own \in BOOLEAN : Detached(deque[v], d, own) = <<d>>
  BY CanStealFrom
<1>2. /\ NULL \notin Closure /\ TypedTree /\ n \in Nat /\ Closure = 1..n /\ c \in Nat
      /\ \A d \in Closure : cl[d] \in ClosureRecord
  BY TreeIsSeq DEF IInv, Typed
<1>3. child \in Nat /\ child \in Ref /\ child \notin Closure /\ c \in Ref
      /\ left \in Ref /\ cl[c].fiber \in Ref /\ NewFiber \in Ref /\ cl[c].frame \in Frame
  <2>1. NewFiber \in Ref
    BY FiberForThief DEF Ref, IInv
  <2>2. left \in Ref /\ cl[c].fiber \in Ref
    BY <1>2 DEF ClosureRecord
  <2>. QED  BY <1>1, <1>2, <2>1, <2>2 DEF Ref
<1>4. /\ new \in ClosureRecord /\ new.frame = NULL /\ new.call_parent = NULL
      /\ new.spawn_parent = c /\ new.has_cilk_callee = FALSE /\ new.status = "RUNNING"
  <2>1. \A a, b, e \in Ref : LET r == SpawnChild(a, b, e)
           IN /\ r \in ClosureRecord /\ r.frame = NULL /\ r.call_parent = NULL
              /\ r.spawn_parent = a /\ r.has_cilk_callee = FALSE /\ r.status = "RUNNING"
    BY ChildRecord
  <2>2. c \in Ref /\ left \in Ref /\ cl[c].fiber \in Ref
    BY <1>3
  <2>. HIDE DEF left
  <2>. QED  BY <2>1, <2>2
<1>5. SameLinks(par, cl[c])
  BY <1>2, <1>3, ParentRecord
<1>6. \A d \in Closure : SameLinks([cl[d] EXCEPT !.right_sib = child], cl[d])
  BY <1>2, <1>3, FieldsSet
<1>6a. /\ new.join_counter = 0 /\ par.join_counter = cl[c].join_counter + 1
       /\ \A d \in Closure : /\ [cl[d] EXCEPT !.right_sib = child].join_counter = cl[d].join_counter
                             /\ cl[d].join_counter \in Int
  <2>1. \A d \in Closure : /\ [cl[d] EXCEPT !.right_sib = child].join_counter = cl[d].join_counter
                           /\ cl[d].join_counter \in Int
    BY <1>2 DEF ClosureRecord
  <2>2. cl[c] \in ClosureRecord
    BY <1>2
  <2>. QED  BY <2>1, <2>2, CountedChild
<1>6b. /\ Sites(new, left, NULL, NULL, cl[c].fiber, NULL, NULL)
       /\ Sites(par, cl[c].left_sib, cl[c].right_sib, child, NewFiber, cl[c].fiber_child,
                IF cl[c].orig_rsp = NULL THEN fr[Head(ltq[v])].sp ELSE cl[c].orig_rsp)
       /\ \A d \in Closure : Sites([cl[d] EXCEPT !.right_sib = child], cl[d].left_sib, child,
            cl[d].right_most_child, cl[d].fiber, cl[d].fiber_child, cl[d].orig_rsp)
  <2>. HIDE DEF child, left
  <2>. QED  BY <1>2, PromotedSites
<1>7. /\ cl' = [d \in 1..child |-> New(d)] /\ t' = [t EXCEPT ![w] = c]
      /\ deque' = [deque EXCEPT ![v] = <<child>>]
  <2>1. deque' = [deque EXCEPT ![v] = Detached(@, child, TRUE)]
    BY DEF PromoteFullFrame
  <2>2. Detached(deque[v], child, TRUE) = <<child>>
    BY <1>1, <1>3
  <2>3. deque' = [deque EXCEPT ![v] = <<child>>]
    BY <2>1, <2>2
  <2>. QED  BY <2>3 DEF PromoteFullFrame
<1>. HIDE DEF new, par, left
<1>6c. \A e \in Closure : e < child
  BY <1>2
<1>8. /\ cl' \in [1..child -> ClosureRecord] /\ cl'[child] = new
      /\ \A d \in Closure : SameLinks(cl'[d], cl[d])
      /\ \A d \in Closure : cl'[d].join_counter = cl[d].join_counter + (IF d = c THEN 1 ELSE 0)
      /\ cl'[c] = par
      /\ \A d \in Closure \ {c} : cl'[d] = IF d = left THEN [cl[d] EXCEPT !.right_sib = child] ELSE cl[d]
  <2>0. \A d \in Closure : New(d).join_counter = cl[d].join_counter + (IF d = c THEN 1 ELSE 0)
    BY <1>3, <1>6a
  <2>1. \A d \in Closure : SameLinks(New(d), cl[d]) /\ d # child
    BY <1>2, <1>3, <1>5, <1>6 DEF SameLinks
  <2>2. New(child) = new
    OBVIOUS
  <2>3. 1..child = Closure \union {child}
    BY <1>2
  <2>4. \A d \in 1..child : New(d) \in ClosureRecord
    BY <1>4, <2>1, <2>2, <2>3 DEF SameLinks
  <2>5. New(c) = par /\ \A d \in Closure \ {c} : New(d) = IF d = left THEN [cl[d] EXCEPT !.right_sib = child] ELSE cl[d]
    BY <1>3
  <2>. HIDE DEF New, child
  <2>. QED  BY <1>7, <2>0, <2>1, <2>2, <2>3, <2>4, <2>5
<1>. HIDE DEF New
<1>9. Closure' = Closure \union {child} /\ cl' \in Seq(ClosureRecord)
  <2>1. DOMAIN cl' = 1..child /\ cl' \in Seq(ClosureRecord)
    BY <1>3, <1>8, SeqIsTree
  <2>. QED  BY <1>2, <2>1 DEF Closure
<1>. HIDE DEF child
<1>10. \A d \in Closure : /\ cl[d].call_parent \in Closure \union {NULL}
                          /\ cl[d].spawn_parent \in Closure \union {NULL}
  BY <1>2 DEF TypedTree
<1>11. \A d \in Closure : /\ cl'[d].frame = cl[d].frame /\ cl'[d].call_parent = cl[d].call_parent
                          /\ cl'[d].spawn_parent = cl[d].spawn_parent
                          /\ cl'[d].has_cilk_callee = cl[d].has_cilk_callee
                          /\ cl'[d].status = cl[d].status
  BY <1>8 DEF SameLinks
<1>12. TypedTree'
  BY <1>4, <1>8, <1>9, <1>10, <1>11 DEF TypedTree
<1>13. AfterPromotion(w, v, c, c, child)
  <2>1. cl'[c].frame # NULL /\ cl'[c].status = "RUNNING" /\ cl'[child].status = "RUNNING"
    BY <1>1, <1>3, <1>4, <1>8, <1>11, WorkerAssumption
  <2>2. /\ Closure \subseteq Closure' /\ c \in Closure' /\ child \in Closure' /\ c # child
    BY <1>3, <1>9
  <2>3. \A e \in Closure : cl'[e].frame = cl[e].frame /\ (e # c => cl'[e].status = cl[e].status)
    BY <1>11
  <2>4. Promoting(w, v, c, c, child)
    BY <1>3, <1>7, <1>12, <2>1, <2>2, <2>3 DEF Promoting
  <2>. QED  BY <1>2, <1>3, <2>4, Promoted
<1>14. FullFrameTakes(w, v, c, child)
  BY <1>3, <1>4, <1>6a, <1>7, <1>8, <1>9, <1>11, <1>13 DEF FullFrameTakes
<1>15. TakenSites(c, c, child, Head(ltq[v]))
  <2>1. ASSUME NEW e \in Closure \ {c}
        PROVE  Sites(cl'[e], cl[e].left_sib, IF e = left THEN child ELSE cl[e].right_sib,
                     cl[e].right_most_child, cl[e].fiber, cl[e].fiber_child, cl[e].orig_rsp)
    <3>1. CASE e = left
      BY <1>6b, <1>8, <3>1
    <3>2. CASE e # left
      <4>1. cl'[e] = cl[e]
        BY <1>8, <3>2
      <4>. QED  BY <3>2, <4>1 DEF Sites
    <3>. QED  BY <3>1, <3>2
  <2>2. left = cl[c].right_most_child
    BY DEF left
  <2>. QED  BY <1>6b, <1>6c, <1>8, <2>1, <2>2 DEF TakenSites
<1>. QED  BY <1>3, <1>14, <1>15

LEMMA PromoteFullFrameKeeps ==
  ASSUME IInv, NEW w \in Worker, NEW v \in Worker, NEW c \in Closure, Promote(w, v, c),
         cl[c].frame = Head(ltq[v]), PromoteFullFrame(w, v, c)
  PROVE  IInv'
<1>0a. PICK child \in Nat : FullFrameTakes(w, v, c, child)
  BY FullFrameTaken
<1>0. /\ child \notin Closure /\ Closure' = Closure \union {child} /\ deque' = [deque EXCEPT ![v] = <<child>>]
      /\ AfterPromotion(w, v, c, c, child)
      /\ cl'[child].frame = NULL /\ cl'[child].call_parent = NULL /\ cl'[child].spawn_parent = c
      /\ cl'[child].has_cilk_callee = FALSE /\ cl'[child].status = "RUNNING" /\ cl'[child].join_counter = 0
      /\ \A e \in Closure : /\ cl'[e].frame = cl[e].frame /\ cl'[e].call_parent = cl[e].call_parent
                            /\ cl'[e].spawn_parent = cl[e].spawn_parent
                            /\ cl'[e].has_cilk_callee = cl[e].has_cilk_callee
                            /\ cl'[e].status = cl[e].status
                            /\ cl'[e].join_counter = cl[e].join_counter + (IF e = c THEN 1 ELSE 0)
  BY <1>0a DEF FullFrameTakes
<1>1. /\ pc[w] = "steal" /\ v # w /\ Hand(w) = NULL /\ Hand(v) = c /\ cl[c].status = "RUNNING"
      /\ Head(ltq[v]) \in Frame /\ fr[Head(ltq[v])].at # 0 /\ fr' = fr
      /\ \A u \in Worker : \A i \in 1..Len(ltq'[u]) : fr'[ltq'[u][i]].at # 0
  BY CanStealFrom
<1>2. NULL \notin Closure /\ TypedTree
  BY TreeIsSeq DEF IInv, Typed
<1>10. \A d \in Closure : /\ cl[d].call_parent \in Closure \union {NULL}
                          /\ cl[d].spawn_parent \in Closure \union {NULL}
  BY <1>2 DEF TypedTree
<1>14. \A d \in Closure : Live(d)' <=> Live(d)
  <2>1. \A d \in Closure : (\E u \in Worker : Hand(u)' = d) <=> (\E u \in Worker : Hand(u) = d)
    BY <1>0, <1>1, <1>2 DEF AfterPromotion
  <2>. QED  BY <1>0, <2>1 DEF Live
<1>15. CallInv'
  BY <1>0, <1>10, <1>14 DEF CallInv, IInv
<1>16. ParentInv'
  <2>1. cl[c].frame # NULL
    BY <1>1, WorkerAssumption
  <2>. QED  BY <1>0, <1>10, <2>1 DEF ParentInv, IInv
<1>17. FrameInv'
  <2>1. ASSUME NEW d \in Closure, cl[d].frame # NULL
        PROVE  fr'[cl[d].frame].at # 0 /\ (fr'[cl[d].frame].stolen \/ Entering(d)')
    <3>1. fr[cl[d].frame].at # 0 /\ (fr[cl[d].frame].stolen \/ Entering(d))
      BY <2>1 DEF IInv, FrameInv
    <3>2. Entering(d) => Entering(d)'
      BY <1>0, <1>1 DEF Entering, AfterPromotion
    <3>. QED  BY <1>1, <3>1, <3>2
  <2>. QED  BY <1>0, <1>1, <2>1 DEF FrameInv
<1>. QED  BY <1>0, <1>15, <1>16, <1>17 DEF IInv, AfterPromotion

(* The closures after new ones are appended.                                  *)
LEMMA Grown ==
  ASSUME TypedTree, NEW s \in [Closure -> ClosureRecord], NEW r \in Seq(ClosureRecord),
         cl' = s \o r
  PROVE  /\ cl' \in Seq(ClosureRecord) /\ Closure' = 1..(Len(cl) + Len(r))
         /\ Closure \subseteq Closure'
         /\ \A d \in Closure : cl'[d] = s[d]
         /\ \A i \in 1..Len(r) : /\ cl'[Len(cl) + i] = r[i] /\ Len(cl) + i \in Closure'
                                 /\ Len(cl) + i \notin Closure
         /\ \A d \in Closure' : d \in Closure \/ \E i \in 1..Len(r) : d = Len(cl) + i
<1>. DEFINE n == Len(cl)
            m == Len(r)
<1>1. n \in Nat /\ Closure = 1..n /\ m \in Nat
  BY TreeIsSeq
<1>2. s \in Seq(ClosureRecord) /\ Len(s) = n
  BY <1>1, SeqIsTree
<1>3. /\ cl' \in Seq(ClosureRecord) /\ Len(cl') = n + m
      /\ \A i \in 1..(n + m) : cl'[i] = IF i <= n THEN s[i] ELSE r[i - n]
  <2>. DEFINE u == s \o r
  <2>1. /\ u \in Seq(ClosureRecord) /\ Len(u) = Len(s) + Len(r)
        /\ \A i \in 1..Len(s) + Len(r) : u[i] = IF i <= Len(s) THEN s[i] ELSE r[i - Len(s)]
    BY <1>2, ConcatProperties
  <2>2. cl' = u
    OBVIOUS
  <2>. HIDE DEF u
  <2>. QED  BY <1>1, <1>2, <2>1, <2>2
<1>. HIDE DEF n, m
<1>4. Closure' = 1..(n + m)
  BY <1>3, LenProperties DEF Closure
<1>5. \A d \in Closure : d \in 1..(n + m) /\ d <= n
  BY <1>1
<1>6. \A i \in 1..m : /\ n + i \in 1..(n + m) /\ ~(n + i <= n) /\ (n + i) - n = i
                     /\ n + i \notin Closure
  BY <1>1
<1>7. \A d \in 1..(n + m) : d \in Closure \/ \E i \in 1..m : d = n + i
  <2>1. \A d \in 1..(n + m) : d \notin Closure => d - n \in 1..m /\ d = n + (d - n)
    BY <1>1
  <2>. QED  BY <2>1
<1>8. \A d \in Closure : cl'[d] = s[d]
  BY <1>3, <1>5
<1>9. \A i \in 1..m : cl'[n + i] = r[i]
  BY <1>3, <1>6
<1>. QED  BY <1>3, <1>4, <1>5, <1>6, <1>7, <1>8, <1>9 DEF n, m

(* The stolen frame has none: the thief takes a new one, called by c.         *)
NewFrameTakes(w, v, c, p, child) ==
  /\ p \notin Closure /\ child \notin Closure /\ p # child
  /\ Closure' = Closure \union {p, child} /\ deque' = [deque EXCEPT ![v] = <<child>>]
  /\ AfterPromotion(w, v, c, p, child)
  /\ cl'[child].frame = NULL /\ cl'[child].call_parent = NULL /\ cl'[child].spawn_parent = p
  /\ cl'[child].has_cilk_callee = FALSE /\ cl'[child].status = "RUNNING"
  /\ cl'[child].join_counter = 0
  /\ cl'[p].frame = Head(ltq[v]) /\ cl'[p].call_parent = c /\ cl'[p].spawn_parent = NULL
  /\ cl'[p].has_cilk_callee = FALSE /\ cl'[p].status = "RUNNING" /\ cl'[p].join_counter = 1
  /\ cl'[c].has_cilk_callee = TRUE /\ cl'[c].status = "SUSPENDED"
  /\ \A e \in Closure \ {c} : cl'[e] = cl[e]
  /\ \A e \in Closure : /\ cl'[e].frame = cl[e].frame /\ cl'[e].call_parent = cl[e].call_parent
                        /\ cl'[e].spawn_parent = cl[e].spawn_parent
                        /\ cl'[e].join_counter = cl[e].join_counter

LEMMA NewFrameTaken ==
  ASSUME IInv, NEW w \in Worker, NEW v \in Worker, NEW c \in Closure, Promote(w, v, c),
         cl[c].frame # Head(ltq[v]), PromoteNewFrame(w, v, c)
  PROVE  \E p, child \in Nat : NewFrameTakes(w, v, c, p, child) /\ TakenSites(c, p, child, Head(ltq[v]))
<1>0. PICK p \in Nat, child \in Nat : p = Len(cl) + 1 /\ child = Len(cl) + 2
  BY TreeIsSeq DEF IInv, Typed
<1>. DEFINE n == Len(cl)
            f == Head(ltq[v])
            new == [Closure_init("RUNNING") EXCEPT !.frame = f, !.call_parent = c]
            par == SpawnParent(w, new, child, NewFiber)
            kid == SpawnChild(p, NULL, cl[c].fiber)
            q == [cl[c] EXCEPT !.has_cilk_callee = TRUE, !.status = "SUSPENDED"]
            s == [cl EXCEPT ![c] = q]
<1>1. /\ pc[w] = "steal" /\ v # w /\ Hand(w) = NULL /\ Hand(v) = c /\ cl[c].status = "RUNNING"
      /\ f \in Frame /\ fr[f].at # 0 /\ fr' = fr
      /\ \A u \in Worker : \A i \in 1..Len(ltq'[u]) : fr'[ltq'[u][i]].at # 0
      /\ \A d \in Nat : \A own \in BOOLEAN : Detached(deque[v], d, own) = <<d>>
  BY CanStealFrom
<1>2. /\ NULL \notin Closure /\ TypedTree /\ n \in Nat /\ Closure = 1..n /\ c \in Nat
      /\ cl \in [Closure -> ClosureRecord] /\ \A d \in Closure : cl[d] \in ClosureRecord
  BY TreeIsSeq DEF IInv, Typed
<1>3. /\ p \in Nat /\ child \in Nat /\ p \notin Closure /\ child \notin Closure /\ p # child
      /\ p \in Ref /\ child \in Ref /\ c \in Ref /\ NULL \in Ref
      /\ cl[c].fiber \in Ref /\ NewFiber \in Ref
  <2>1. NewFiber \in Ref
    BY FiberForThief DEF Ref, IInv
  <2>2. cl[c].fiber \in Ref
    BY <1>2 DEF ClosureRecord
  <2>. QED  BY <1>0, <1>2, <2>1, <2>2 DEF Ref
<1>4. /\ new \in ClosureRecord /\ new.frame = f /\ new.call_parent = c
      /\ new.spawn_parent = NULL /\ new.has_cilk_callee = FALSE /\ new.status = "RUNNING"
  <2>1. \A g \in Frame : \A a \in Ref :
           LET r == [Closure_init("RUNNING") EXCEPT !.frame = g, !.call_parent = a]
           IN /\ r \in ClosureRecord /\ r.frame = g /\ r.call_parent = a
              /\ r.spawn_parent = NULL /\ r.has_cilk_callee = FALSE /\ r.status = "RUNNING"
    BY CalledRecord
  <2>2. f \in Frame /\ c \in Ref
    BY <1>1, <1>3
  <2>. HIDE DEF f
  <2>. QED  BY <2>1, <2>2
<1>5. /\ kid \in ClosureRecord /\ kid.frame = NULL /\ kid.call_parent = NULL
      /\ kid.spawn_parent = p /\ kid.has_cilk_callee = FALSE /\ kid.status = "RUNNING"
  <2>1. \A a, b, e \in Ref : LET r == SpawnChild(a, b, e)
           IN /\ r \in ClosureRecord /\ r.frame = NULL /\ r.call_parent = NULL
              /\ r.spawn_parent = a /\ r.has_cilk_callee = FALSE /\ r.status = "RUNNING"
    BY ChildRecord
  <2>2. PICK x \in Ref : x = cl[c].fiber
    BY <1>3
  <2>3. LET r == SpawnChild(p, NULL, x)
        IN /\ r \in ClosureRecord /\ r.frame = NULL /\ r.call_parent = NULL
           /\ r.spawn_parent = p /\ r.has_cilk_callee = FALSE /\ r.status = "RUNNING"
    BY <1>3, <2>1
  <2>4. kid = SpawnChild(p, NULL, x)
    BY <2>2
  <2>. HIDE DEF kid
  <2>. QED  BY <2>3, <2>4
<1>4a. new.join_counter = 0 /\ kid.join_counter = 0 /\ par.join_counter = 1
  <2>1. new.join_counter = 0 /\ kid.join_counter = 0
    BY CountedChild
  <2>2. new \in ClosureRecord
    BY <1>4
  <2>. HIDE DEF new
  <2>. QED  BY <2>1, <2>2, CountedChild
<1>4b. /\ Sites(new, NULL, NULL, NULL, NULL, NULL, NULL)
       /\ Sites(kid, NULL, NULL, NULL, cl[c].fiber, NULL, NULL)
       /\ KeepsSites(q, cl[c])
  BY <1>2, PromotedSites
<1>. HIDE DEF new
<1>4c. Sites(par, NULL, NULL, child, NewFiber, NULL, fr[f].sp)
  <2>1. Sites(par, new.left_sib, new.right_sib, child, NewFiber, new.fiber_child,
              IF new.orig_rsp = NULL THEN fr[new.frame].sp ELSE new.orig_rsp)
    BY <1>4, PromotedSites
  <2>. HIDE DEF par, f
  <2>. QED  BY <1>4, <1>4b, <2>1 DEF Sites
<1>6. SameLinks(par, new)
  <2>. HIDE DEF f
  <2>. QED  BY <1>1, <1>3, <1>4, ParentRecord
<1>7. /\ q \in ClosureRecord /\ q.frame = cl[c].frame /\ q.call_parent = cl[c].call_parent
      /\ q.spawn_parent = cl[c].spawn_parent /\ q.status = "SUSPENDED"
      /\ q.has_cilk_callee = TRUE /\ q.join_counter = cl[c].join_counter
  <2>. DEFINE a == cl[c]
              b == [a EXCEPT !.has_cilk_callee = TRUE]
  <2>1. a \in ClosureRecord
    BY <1>2
  <2>. HIDE DEF a
  <2>2. /\ b \in ClosureRecord /\ b.frame = a.frame /\ b.call_parent = a.call_parent
        /\ b.spawn_parent = a.spawn_parent /\ b.has_cilk_callee = TRUE
        /\ b.join_counter = a.join_counter
    BY <2>1 DEF ClosureRecord
  <2>3. q = [b EXCEPT !.status = "SUSPENDED"]
    BY DEF a
  <2>. HIDE DEF b, q
  <2>4. /\ q \in ClosureRecord /\ q.frame = b.frame /\ q.call_parent = b.call_parent
        /\ q.spawn_parent = b.spawn_parent /\ q.has_cilk_callee = b.has_cilk_callee
        /\ q.status = "SUSPENDED" /\ q.join_counter = b.join_counter
    BY <2>2, <2>3 DEF ClosureRecord, Status
  <2>. QED  BY <2>2, <2>4 DEF a
<1>8. /\ cl' = s \o <<par, kid>> /\ t' = [t EXCEPT ![w] = p]
      /\ deque' = [deque EXCEPT ![v] = <<child>>]
  <2>1. deque' = [deque EXCEPT ![v] = Detached(@, child, FALSE)] /\ t' = [t EXCEPT ![w] = p]
    BY <1>0 DEF PromoteNewFrame
  <2>2. Detached(deque[v], child, FALSE) = <<child>>
    BY <1>1, <1>3
  <2>3. cl' = [cl EXCEPT ![c].has_cilk_callee = TRUE, ![c].status = "SUSPENDED"] \o <<par, kid>>
    BY <1>0 DEF PromoteNewFrame, new
  <2>4. [cl EXCEPT ![c].has_cilk_callee = TRUE, ![c].status = "SUSPENDED"] = s
    BY <1>2
  <2>. QED  BY <2>1, <2>2, <2>3, <2>4
<1>9. par \in ClosureRecord /\ par.frame = f /\ par.call_parent = c /\ par.spawn_parent = NULL
      /\ par.has_cilk_callee = FALSE /\ par.status = "RUNNING"
  BY <1>4, <1>6 DEF SameLinks
<1>. HIDE DEF par, kid, q
<1>10. /\ s \in [Closure -> ClosureRecord] /\ s[c] = q /\ \A d \in Closure \ {c} : s[d] = cl[d]
  BY <1>2, <1>7
<1>. DEFINE r == <<par, kid>>
<1>11. r \in Seq(ClosureRecord) /\ Len(r) = 2 /\ r[1] = par /\ r[2] = kid
  BY <1>5, <1>9
<1>. HIDE DEF s, r, f
<1>12. /\ cl' \in Seq(ClosureRecord) /\ Closure' = Closure \union {p, child}
       /\ cl'[p] = par /\ cl'[child] = kid /\ cl'[c] = q
       /\ \A d \in Closure \ {c} : cl'[d] = cl[d]
  <2>1. cl' = s \o r
    BY <1>8 DEF r
  <2>2. /\ cl' \in Seq(ClosureRecord) /\ Closure' = 1..(Len(cl) + Len(r))
        /\ \A d \in Closure : cl'[d] = s[d]
        /\ \A i \in 1..Len(r) : cl'[Len(cl) + i] = r[i]
    <3>1. TypedTree
      BY <1>2
    <3>. QED  BY <1>10, <1>11, <2>1, <3>1, Grown
  <2>3. 1..(n + 2) = Closure \union {p, child}
    BY <1>0, <1>2
  <2>4. cl'[p] = r[1] /\ cl'[child] = r[2]
    BY <1>0, <1>11, <2>2
  <2>. QED  BY <1>10, <1>11, <2>2, <2>3, <2>4
<1>. HIDE DEF n
<1>13. \A d \in Closure : /\ cl'[d].frame = cl[d].frame /\ cl'[d].call_parent = cl[d].call_parent
                          /\ cl'[d].spawn_parent = cl[d].spawn_parent
                          /\ cl'[d].join_counter = cl[d].join_counter
  BY <1>7, <1>12
<1>14. TypedTree'
  <2>1. \A d \in Closure : /\ cl'[d].call_parent \in Closure \union {NULL}
                           /\ cl'[d].spawn_parent \in Closure \union {NULL}
    BY <1>2, <1>13 DEF TypedTree
  <2>. QED  BY <1>5, <1>9, <1>12, <2>1 DEF TypedTree
<1>15. AfterPromotion(w, v, c, p, child)
  <2>1. cl'[p].frame # NULL /\ cl'[p].status = "RUNNING" /\ cl'[child].status = "RUNNING"
    BY <1>1, <1>5, <1>9, <1>12, WorkerAssumption
  <2>2. /\ Closure \subseteq Closure' /\ p \in Closure' /\ child \in Closure'
        /\ p # child /\ p \notin Closure /\ child \notin Closure
    BY <1>3, <1>12
  <2>3. \A e \in Closure : cl'[e].frame = cl[e].frame /\ (e # c => cl'[e].status = cl[e].status)
    BY <1>12, <1>13
  <2>4. Promoting(w, v, c, p, child)
    BY <1>8, <1>14, <2>1, <2>2, <2>3 DEF Promoting
  <2>. QED  BY <1>3, <2>4, Promoted
<1>16. /\ p \notin Closure /\ child \notin Closure /\ p # child
       /\ Closure' = Closure \union {p, child} /\ deque' = [deque EXCEPT ![v] = <<child>>]
       /\ cl'[child].frame = NULL /\ cl'[child].call_parent = NULL /\ cl'[child].spawn_parent = p
       /\ cl'[child].has_cilk_callee = FALSE /\ cl'[child].status = "RUNNING"
       /\ cl'[child].join_counter = 0
  BY <1>3, <1>4a, <1>5, <1>8, <1>12
<1>17. /\ cl'[p].frame = Head(ltq[v]) /\ cl'[p].call_parent = c /\ cl'[p].spawn_parent = NULL
       /\ cl'[p].has_cilk_callee = FALSE /\ cl'[p].status = "RUNNING" /\ cl'[p].join_counter = 1
       /\ cl'[c].has_cilk_callee = TRUE /\ cl'[c].status = "SUSPENDED"
       /\ \A e \in Closure \ {c} : cl'[e] = cl[e]
  BY <1>4a, <1>7, <1>9, <1>12 DEF f
<1>18. NewFrameTakes(w, v, c, p, child)
  BY <1>13, <1>15, <1>16, <1>17 DEF NewFrameTakes
<1>19. TakenSites(c, p, child, Head(ltq[v]))
  <2>1. p # c /\ \A e \in Closure : e < child /\ e # p
    BY <1>0, <1>2, <1>3
  <2>2. ASSUME NEW e \in Closure  PROVE KeepsSites(cl'[e], cl[e])
    <3>1. CASE e = c
      BY <1>4b, <1>12, <3>1
    <3>2. CASE e # c
      <4>1. cl'[e] = cl[e]
        BY <1>12, <3>2
      <4>. QED  BY <4>1 DEF KeepsSites, Sites
    <3>. QED  BY <3>1, <3>2
  <2>. QED  BY <1>4b, <1>4c, <1>12, <2>1, <2>2 DEF TakenSites, KeepsSites, f
<1>. QED  BY <1>18, <1>19

LEMMA PromoteNewFrameKeeps ==
  ASSUME IInv, NEW w \in Worker, NEW v \in Worker, NEW c \in Closure, Promote(w, v, c),
         cl[c].frame # Head(ltq[v]), PromoteNewFrame(w, v, c)
  PROVE  IInv'
<1>0a. PICK p, child \in Nat : NewFrameTakes(w, v, c, p, child)
  BY NewFrameTaken
<1>0. /\ p \notin Closure /\ child \notin Closure /\ p # child
      /\ Closure' = Closure \union {p, child} /\ deque' = [deque EXCEPT ![v] = <<child>>]
      /\ AfterPromotion(w, v, c, p, child)
      /\ cl'[child].frame = NULL /\ cl'[child].call_parent = NULL /\ cl'[child].spawn_parent = p
      /\ cl'[child].has_cilk_callee = FALSE /\ cl'[child].status = "RUNNING"
      /\ cl'[child].join_counter = 0
      /\ cl'[p].frame = Head(ltq[v]) /\ cl'[p].call_parent = c /\ cl'[p].spawn_parent = NULL
      /\ cl'[p].has_cilk_callee = FALSE /\ cl'[p].status = "RUNNING" /\ cl'[p].join_counter = 1
      /\ cl'[c].has_cilk_callee = TRUE /\ cl'[c].status = "SUSPENDED"
      /\ \A e \in Closure \ {c} : cl'[e] = cl[e]
      /\ \A e \in Closure : /\ cl'[e].frame = cl[e].frame /\ cl'[e].call_parent = cl[e].call_parent
                            /\ cl'[e].spawn_parent = cl[e].spawn_parent
                            /\ cl'[e].join_counter = cl[e].join_counter
  BY <1>0a DEF NewFrameTakes
<1>. DEFINE f == Head(ltq[v])
<1>1. /\ pc[w] = "steal" /\ v # w /\ Hand(w) = NULL /\ Hand(v) = c /\ cl[c].status = "RUNNING"
      /\ f \in Frame /\ fr[f].at # 0 /\ fr' = fr
      /\ \A u \in Worker : \A i \in 1..Len(ltq'[u]) : fr'[ltq'[u][i]].at # 0
  BY CanStealFrom
<1>2. NULL \notin Closure /\ TypedTree
  BY TreeIsSeq DEF IInv, Typed
<1>. HIDE DEF f
<1>16. \A d \in Closure : Live(d)' <=> Live(d)
  <2>1. Live(c) /\ Live(c)'
    BY <1>0, <1>1 DEF Live
  <2>2. ASSUME NEW d \in Closure, d # c  PROVE Live(d)' <=> Live(d)
    <3>1. (\E u \in Worker : Hand(u)' = d) <=> (\E u \in Worker : Hand(u) = d)
      BY <1>0, <1>1, <1>2, <2>2 DEF AfterPromotion
    <3>2. cl'[d].status = cl[d].status
      BY <1>0, <2>2
    <3>. QED  BY <3>1, <3>2 DEF Live
  <2>. QED  BY <2>1, <2>2
<1>17. \A d \in Closure : Live(d) => cl[d].call_parent # c
  <2>1. ~cl[c].has_cilk_callee
    BY <1>1 DEF IInv, CallInv
  <2>. QED  BY <1>2, <2>1 DEF IInv, CallInv
<1>18. CallInv'
  <2>1. ASSUME NEW e \in Closure', cl'[e].has_cilk_callee
        PROVE  cl'[e].status = "SUSPENDED" /\ \E d \in Closure' : Live(d)' /\ cl'[d].call_parent = e
    <3>1. CASE e = c
      <4>1. Live(p)' /\ cl'[p].call_parent = c /\ p \in Closure'
        <5>1. p \in Closure' /\ cl'[p].call_parent = c
          BY <1>0
        <5>2. Hand(w)' = p
          BY <1>0 DEF AfterPromotion
        <5>. QED  BY <5>1, <5>2 DEF Live
      <4>2. cl'[c].status = "SUSPENDED"
        BY <1>0
      <4>. QED  BY <3>1, <4>1, <4>2
    <3>2. CASE e \in Closure \ {c}
      <4>1. cl[e].has_cilk_callee /\ cl'[e].status = cl[e].status
        BY <1>0, <2>1, <3>2
      <4>2. cl[e].status = "SUSPENDED" /\ \E d \in Closure : Live(d) /\ cl[d].call_parent = e
        BY <3>2, <4>1 DEF IInv, CallInv
      <4>. QED  BY <1>0, <1>16, <4>1, <4>2
    <3>3. CASE e \in {p, child}
      BY <1>0, <2>1, <3>3
    <3>. QED  BY <1>0, <3>1, <3>2, <3>3
  <2>2. ASSUME NEW e \in Closure', Live(e)', cl'[e].call_parent # NULL
        PROVE  /\ cl'[cl'[e].call_parent].has_cilk_callee
               /\ \A d \in Closure' : Live(d)' /\ cl'[d].call_parent = cl'[e].call_parent => d = e
    <3>1. cl'[child].call_parent = NULL /\ cl'[p].call_parent = c /\ c # NULL
      BY <1>0, <1>2
    <3>2. CASE e = p
      <4>1. \A d \in Closure : ~(Live(d)' /\ cl'[d].call_parent = c)
        BY <1>0, <1>16, <1>17
      <4>. QED  BY <1>0, <3>1, <3>2, <4>1
    <3>3. CASE e \in Closure
      <4>. DEFINE b == cl[e].call_parent
      <4>1. Live(e) /\ b # NULL /\ cl'[e].call_parent = b /\ b # c
        BY <1>0, <1>16, <1>17, <2>2, <3>3
      <4>2. b \in Closure
        BY <1>2, <3>3, <4>1 DEF TypedTree
      <4>3. cl[b].has_cilk_callee /\ \A d \in Closure : Live(d) /\ cl[d].call_parent = b => d = e
        BY <3>3, <4>1 DEF IInv, CallInv
      <4>4. cl'[b].has_cilk_callee
        BY <1>0, <4>1, <4>2, <4>3
      <4>. HIDE DEF b
      <4>5. \A d \in Closure' : Live(d)' /\ cl'[d].call_parent = b => d = e
        BY <1>0, <1>16, <3>1, <4>1, <4>3
      <4>. QED  BY <4>1, <4>4, <4>5
    <3>. QED  BY <1>0, <2>2, <3>1, <3>2, <3>3
  <2>. QED  BY <2>1, <2>2 DEF CallInv
<1>19. ParentInv'
  <2>1. cl'[p].frame # NULL
    BY <1>0, <1>1, WorkerAssumption DEF f
  <2>2. ASSUME NEW e \in Closure', cl'[e].spawn_parent # NULL
        PROVE  cl'[e].call_parent = NULL /\ cl'[cl'[e].spawn_parent].frame # NULL
    <3>1. CASE e \in Closure
      <4>1. cl[e].call_parent = NULL /\ cl[cl[e].spawn_parent].frame # NULL
            /\ cl[e].spawn_parent \in Closure
        BY <1>0, <1>2, <2>2, <3>1 DEF IInv, ParentInv, TypedTree
      <4>. QED  BY <1>0, <3>1, <4>1
    <3>2. CASE e \in {p, child}
      BY <1>0, <2>1, <2>2, <3>2
    <3>. QED  BY <1>0, <3>1, <3>2
  <2>3. ASSUME NEW e \in Closure', cl'[e].status = "READY"  PROVE cl'[e].frame # NULL
    <3>1. e \in Closure \ {c}
      BY <1>0, <2>3
    <3>2. cl[e].status = "READY"
      BY <1>0, <2>3, <3>1
    <3>. QED  BY <1>0, <3>1, <3>2 DEF IInv, ParentInv
  <2>. QED  BY <2>2, <2>3 DEF ParentInv
<1>20. FrameInv'
  <2>1. ASSUME NEW d \in Closure, cl[d].frame # NULL
        PROVE  fr'[cl[d].frame].at # 0 /\ (fr'[cl[d].frame].stolen \/ Entering(d)')
    <3>1. fr[cl[d].frame].at # 0 /\ (fr[cl[d].frame].stolen \/ Entering(d))
      BY <2>1 DEF IInv, FrameInv
    <3>2. Entering(d) => Entering(d)'
      BY <1>0, <1>1 DEF Entering, AfterPromotion
    <3>. QED  BY <1>1, <3>1, <3>2
  <2>2. Entering(p)'
    <3>1. cl'[p].call_parent # NULL
      BY <1>0, <1>2
    <3>2. pc'[w] = "promoted" /\ t'[w] = p
      BY <1>0 DEF AfterPromotion
    <3>. QED  BY <3>1, <3>2 DEF Entering
  <2>3. fr'[cl'[p].frame].at # 0
    BY <1>0, <1>1 DEF f
  <2>4. ASSUME NEW d \in Closure', cl'[d].frame # NULL
        PROVE  fr'[cl'[d].frame].at # 0 /\ (fr'[cl'[d].frame].stolen \/ Entering(d)')
    <3>1. cl'[child].frame = NULL
      BY <1>0
    <3>2. CASE d \in Closure
      BY <1>0, <2>1, <2>4, <3>2
    <3>3. CASE d = p
      BY <2>2, <2>3, <3>3
    <3>. QED  BY <1>0, <2>4, <3>1, <3>2, <3>3
  <2>. QED  BY <1>1, <2>4 DEF FrameInv
<1>. QED  BY <1>0, <1>18, <1>19, <1>20 DEF IInv, AfterPromotion

(* The least of a set of naturals, and the greatest of a bounded one.         *)
LEMMA LeastNat ==
  ASSUME NEW T, T \subseteq Nat, T # {}
  PROVE  \E x \in T : \A y \in T : x <= y
<1>1. PICK x \in T : \A y \in T : ~(<<y, x>> \in OpToRel(<, Nat))
  BY NatLessThanWellFounded, WFMin
<1>2. \A y \in T : ~(y < x)
  BY <1>1 DEF OpToRel
<1>. QED  BY <1>2

(* FiniteSetsExt's Max, of a bounded set of naturals.                         *)
LEMMA MaxIsGreatest ==
  ASSUME NEW n \in Nat, NEW K, K \subseteq 0..n, K # {}
  PROVE  Max(K) \in K /\ \A k \in K : Max(K) >= k
<1>. DEFINE T == {n - k : k \in K}
<1>1. \A k \in K : k \in Nat /\ n - k \in Nat /\ n - k \in T
  OBVIOUS
<1>2. \A x \in T : \E k \in K : x = n - k
  OBVIOUS
<1>. HIDE DEF T
<1>3. PICK x \in T : \A y \in T : x <= y
  BY <1>1, <1>2, LeastNat
<1>4. PICK m \in K : x = n - m
  BY <1>2
<1>5. \A k \in K : m >= k
  BY <1>1, <1>3, <1>4
<1>. QED  BY <1>5 DEF Max

(* The frames that FinishNewFrame gives closures: the youngest is the stolen  *)
(* one, and all are callers of it that were entered and have no closure yet.  *)
LEMMA NotStolenFrames ==
  ASSUME IInv, NEW f \in Frame, ~fr[f].stolen
  PROVE  /\ NotStolen(f) \in Seq(Frame) /\ Len(NotStolen(f)) \in Nat \ {0} /\ NotStolen(f)[1] = f
         /\ Len(NotStolen(f)) <= Len(Stacklet[f]) /\ Len(Stacklet[f]) \in Nat
         /\ \A i \in 1..Len(NotStolen(f)) : /\ NotStolen(f)[i] \in Range(Stacklet[f])
                                           /\ NotStolen(f)[i] = Stacklet[f][i] /\ ~fr[Stacklet[f][i]].stolen
         /\ Len(NotStolen(f)) < Len(Stacklet[f]) => fr[Stacklet[f][Len(NotStolen(f)) + 1]].stolen
<1>. DEFINE s == Stacklet[f]
            K == {k \in 0..Len(s) : \A i \in 1..k : ~fr[s[i]].stolen}
            m == Max(K)
<1>1. s \in Seq(Frame) /\ Len(s) \in Nat \ {0} /\ s[1] = f
  <2>1. s \in Seq(Frame) /\ s = IF f \in Helper \union {Root} THEN <<f>> ELSE <<f>> \o Stacklet[Caller(f)]
    BY StackletAssumption
  <2>2. CASE f \in Helper \union {Root}
    BY <2>1, <2>2, OneEntry
  <2>3. CASE f \notin Helper \union {Root}
    <3>. DEFINE u == Stacklet[Caller(f)]
                a == <<f>>
    <3>1. Caller(f) \in Frame
      BY <2>3, ProgramAssumption DEF Caller
    <3>2. u \in Seq(Frame) /\ s = a \o u
      BY <2>1, <2>3, <3>1, StackletAssumption
    <3>3. a \in Seq(Frame) /\ Len(a) = 1 /\ a[1] = f
      OBVIOUS
    <3>. HIDE DEF u, a, s
    <3>4. /\ Len(s) = Len(a) + Len(u) /\ Len(u) \in Nat
          /\ \A i \in 1..(Len(a) + Len(u)) : s[i] = IF i <= Len(a) THEN a[i] ELSE u[i - Len(a)]
      BY <3>2, <3>3, ConcatProperties, LenProperties
    <3>5. Len(s) \in Nat \ {0} /\ 1 \in 1..(Len(a) + Len(u)) /\ 1 <= Len(a)
      BY <3>3, <3>4
    <3>. QED  BY <2>1, <3>3, <3>4, <3>5
  <2>. QED  BY <2>2, <2>3
<1>. HIDE DEF s
<1>2. 1 \in K /\ K \subseteq 0..Len(s)
  BY <1>1
<1>3. m \in K /\ m >= 1 /\ \A k \in K : m >= k
  <2>. HIDE DEF K
  <2>. QED  BY <1>1, <1>2, MaxIsGreatest
<1>4. m \in 1..Len(s) /\ \A i \in 1..m : ~fr[s[i]].stolen
  BY <1>1, <1>3
<1>8. m < Len(s) => fr[s[m + 1]].stolen
  <2>. HIDE DEF m
  <2>1. ASSUME m < Len(s), ~fr[s[m + 1]].stolen  PROVE m + 1 \in K
    <3>1. \A i \in 1..m + 1 : i \in 1..m \/ i = m + 1
      BY <1>1, <1>4
    <3>. QED  BY <1>1, <1>4, <2>1, <3>1
  <2>2. m \in Nat /\ ~(m >= m + 1)
    BY <1>1, <1>4
  <2>. HIDE DEF K
  <2>. QED  BY <1>3, <2>1, <2>2
<1>5. NotStolen(f) = SubSeq(s, 1, m)
  BY DEF NotStolen, s
<1>. HIDE DEF m
<1>. DEFINE r == SubSeq(s, 1, m)
<1>6. r \in Seq(Frame) /\ Len(r) = m /\ \A i \in 1..m : r[i] = s[i]
  <2>1. \A i \in 1..m : s[i] \in Frame
    BY <1>1, <1>4, ElementOfSeq
  <2>2. r = [i \in 1..m |-> s[i]]
    BY <1>1, <1>4
  <2>. QED  BY <1>1, <1>4, SubSeqProperties
<1>. HIDE DEF r
<1>7. \A i \in 1..m : s[i] \in Range(s)
  BY <1>1, <1>4, LenProperties DEF Range
<1>9. NotStolen(f) = r
  BY <1>5 DEF r
<1>10. /\ r \in Seq(Frame) /\ Len(r) \in Nat \ {0} /\ r[1] = f /\ Len(r) <= Len(s)
       /\ \A i \in 1..Len(r) : r[i] \in Range(s) /\ r[i] = s[i] /\ ~fr[s[i]].stolen
  BY <1>1, <1>4, <1>6, <1>7
<1>. QED  BY <1>1, <1>6, <1>8, <1>9, <1>10 DEF s

(* The records of FinishNewFrame.                                             *)
Middle(f, x, a, b) ==
  [Closure_init("SUSPENDED") EXCEPT !.frame = f, !.fiber = x, !.call_parent = a,
                                    !.callee = b, !.has_cilk_callee = TRUE]
Calling(c, f, b) == [c EXCEPT !.frame = f, !.callee = b, !.has_cilk_callee = TRUE]

Has(r, f, a, p, status) ==
  /\ r \in ClosureRecord /\ r.frame = f /\ r.call_parent = a /\ r.spawn_parent = p
  /\ r.has_cilk_callee = TRUE /\ r.status = status

(* The new closure of a frame between the running and the stolen one ...      *)
LEMMA MiddleRecord ==
  ASSUME NEW f \in Frame, NEW x \in Ref, NEW a \in Ref, NEW b \in Ref
  PROVE  Has(Middle(f, x, a, b), f, a, NULL, "SUSPENDED")
<1>. DEFINE z == Closure_init("SUSPENDED")
            u == [z EXCEPT !.frame = f]
            v == [u EXCEPT !.fiber = x]
            k == [v EXCEPT !.call_parent = a]
            l == [k EXCEPT !.callee = b]
            r == [l EXCEPT !.has_cilk_callee = TRUE]
<1>1. r = Middle(f, x, a, b)
  BY DEF Middle
<1>2. z \in ClosureRecord /\ z.status = "SUSPENDED" /\ z.spawn_parent = NULL
  BY Initialised DEF Status
<1>. HIDE DEF z
<1>3. u \in ClosureRecord /\ u.status = "SUSPENDED" /\ u.spawn_parent = NULL /\ u.frame = f
  BY <1>2 DEF ClosureRecord
<1>. HIDE DEF u
<1>4. v \in ClosureRecord /\ v.status = "SUSPENDED" /\ v.spawn_parent = NULL /\ v.frame = f
  BY <1>3 DEF ClosureRecord
<1>. HIDE DEF v
<1>5. /\ k \in ClosureRecord /\ k.status = "SUSPENDED" /\ k.spawn_parent = NULL /\ k.frame = f
      /\ k.call_parent = a
  BY <1>4 DEF ClosureRecord
<1>. HIDE DEF k
<1>6. /\ l \in ClosureRecord /\ l.status = "SUSPENDED" /\ l.spawn_parent = NULL /\ l.frame = f
      /\ l.call_parent = a
  BY <1>5 DEF ClosureRecord
<1>. HIDE DEF l
<1>7. /\ r \in ClosureRecord /\ r.status = "SUSPENDED" /\ r.spawn_parent = NULL /\ r.frame = f
      /\ r.call_parent = a /\ r.has_cilk_callee = TRUE
  BY <1>6 DEF ClosureRecord
<1>. HIDE DEF r
<1>. QED  BY <1>1, <1>7 DEF Has

(* ... the one that was running ...                                           *)
LEMMA CallerRecord ==
  ASSUME NEW c \in ClosureRecord, NEW f \in Frame, NEW b \in Ref
  PROVE  Has(Calling(c, f, b), f, c.call_parent, c.spawn_parent, c.status)
<1>. DEFINE u == [c EXCEPT !.frame = f]
            v == [u EXCEPT !.callee = b]
            r == [v EXCEPT !.has_cilk_callee = TRUE]
<1>1. r = Calling(c, f, b)
  BY DEF Calling
<1>2. /\ u \in ClosureRecord /\ u.frame = f /\ u.call_parent = c.call_parent
      /\ u.spawn_parent = c.spawn_parent /\ u.status = c.status
  BY DEF ClosureRecord
<1>. HIDE DEF u
<1>3. /\ v \in ClosureRecord /\ v.frame = f /\ v.call_parent = c.call_parent
      /\ v.spawn_parent = c.spawn_parent /\ v.status = c.status
  BY <1>2 DEF ClosureRecord
<1>. HIDE DEF v
<1>4. /\ r \in ClosureRecord /\ r.frame = f /\ r.call_parent = c.call_parent
      /\ r.spawn_parent = c.spawn_parent /\ r.status = c.status /\ r.has_cilk_callee = TRUE
  BY <1>3 DEF ClosureRecord
<1>. HIDE DEF r
<1>. QED  BY <1>1, <1>4 DEF Has

(* ... and the one that the thief has.                                        *)
LEMMA ReadyRecord ==
  ASSUME NEW c \in ClosureRecord, NEW a \in Ref
  PROVE  LET r == [c EXCEPT !.call_parent = a, !.mutex = NULL, !.status = "READY"]
         IN /\ r \in ClosureRecord /\ r.frame = c.frame /\ r.call_parent = a
            /\ r.spawn_parent = c.spawn_parent /\ r.has_cilk_callee = c.has_cilk_callee
            /\ r.status = "READY"
<1>. DEFINE u == [c EXCEPT !.call_parent = a]
            v == [u EXCEPT !.mutex = NULL]
            r == [v EXCEPT !.status = "READY"]
<1>1. r = [c EXCEPT !.call_parent = a, !.mutex = NULL, !.status = "READY"]
  OBVIOUS
<1>2. /\ u \in ClosureRecord /\ u.frame = c.frame /\ u.call_parent = a
      /\ u.spawn_parent = c.spawn_parent /\ u.has_cilk_callee = c.has_cilk_callee
  BY DEF ClosureRecord
<1>. HIDE DEF u
<1>3. /\ v \in ClosureRecord /\ v.frame = c.frame /\ v.call_parent = a
      /\ v.spawn_parent = c.spawn_parent /\ v.has_cilk_callee = c.has_cilk_callee
  BY <1>2 DEF ClosureRecord
<1>. HIDE DEF v
<1>4. /\ r \in ClosureRecord /\ r.frame = c.frame /\ r.call_parent = a
      /\ r.spawn_parent = c.spawn_parent /\ r.has_cilk_callee = c.has_cilk_callee
      /\ r.status = "READY"
  BY <1>3 DEF ClosureRecord, Status
<1>. HIDE DEF r
<1>. QED  BY <1>1, <1>4

(* The join counters of the three.                                            *)
LEMMA CountedChain ==
  /\ \A f, x, a, b : Middle(f, x, a, b).join_counter = 0
  /\ \A f, b : \A c \in ClosureRecord : Calling(c, f, b).join_counter = c.join_counter
  /\ \A a : \A c \in ClosureRecord :
       [c EXCEPT !.call_parent = a, !.mutex = NULL, !.status = "READY"].join_counter = c.join_counter
<1>1. \A f, x, a, b : Middle(f, x, a, b).join_counter = 0
  BY DEF Middle, Closure_init
<1>2. \A f, b : \A c \in ClosureRecord : Calling(c, f, b).join_counter = c.join_counter
  BY DEF Calling, ClosureRecord
<1>3. \A a : \A c \in ClosureRecord :
        [c EXCEPT !.call_parent = a, !.mutex = NULL, !.status = "READY"].join_counter = c.join_counter
  BY DEF ClosureRecord
<1>. QED  BY <1>1, <1>2, <1>3

(* The thief that has made y found its caller, which waits for y alone.       *)
LEMMA EnteringCaller ==
  ASSUME IInv, NEW w \in Worker, NEW y \in Closure, pc[w] = "finish", t[w] = y,
         ~fr[cl[y].frame].stolen
  PROVE  /\ cl[y].frame \in Frame /\ fr[cl[y].frame].at # 0 /\ cl[y].call_parent \in Closure
         /\ Hand(w) = y /\ y # cl[y].call_parent /\ Live(y) /\ cl[y].spawn_parent = NULL
         /\ cl[y].status # "SUSPENDED" /\ cl[y].has_cilk_callee = FALSE
         /\ cl[cl[y].call_parent].has_cilk_callee /\ cl[cl[y].call_parent].status = "SUSPENDED"
         /\ \A d \in Closure : Live(d) /\ cl[d].call_parent = cl[y].call_parent => d = y
<1>1. NULL \notin Closure /\ cl[y] \in ClosureRecord
  BY TreeIsSeq DEF IInv, Typed
<1>2. cl[y].frame \in Frame
  BY <1>1 DEF IInv, PlaceInv, ClosureRecord
<1>3. fr[cl[y].frame].at # 0 /\ Entering(y)
  BY <1>1, <1>2, WorkerAssumption DEF IInv, FrameInv
<1>4. cl[y].call_parent # NULL
  BY <1>3 DEF Entering
<1>5. cl[y].call_parent \in Closure
  BY <1>4 DEF IInv, Typed, TypedTree
<1>6. Hand(w) = y
  BY <1>1, HandIs
<1>7. Live(y)
  BY <1>6 DEF Live
<1>8. cl[y].status # "SUSPENDED"
  BY <1>1, <1>6 DEF IInv, OneHand
<1>9. cl[y].has_cilk_callee = FALSE
  <2>1. cl[y].has_cilk_callee \in BOOLEAN
    BY <1>1 DEF ClosureRecord
  <2>2. cl[y].has_cilk_callee => cl[y].status = "SUSPENDED"
    BY DEF IInv, CallInv
  <2>. QED  BY <1>8, <2>1, <2>2
<1>10. /\ cl[cl[y].call_parent].has_cilk_callee
       /\ \A d \in Closure : Live(d) /\ cl[d].call_parent = cl[y].call_parent => d = y
  BY <1>4, <1>7 DEF IInv, CallInv
<1>11. cl[cl[y].call_parent].status = "SUSPENDED"
  BY <1>5, <1>10 DEF IInv, CallInv
<1>12. cl[y].spawn_parent = NULL
  BY <1>4 DEF IInv, ParentInv
<1>. QED
  BY <1>2, <1>3, <1>5, <1>6, <1>7, <1>8, <1>9, <1>10, <1>11, <1>12

(* The closures L[0], ..., L[n + 1]: from the one that was running, by the n  *)
(* new ones, to the stolen one, each waiting for the next.                    *)
Linked(y, n, L) ==
  /\ L[0] = cl[y].call_parent /\ L[n + 1] = y
  /\ \A i \in 1..n : L[i] \notin Closure
  /\ \A i \in 0..(n + 1) : L[i] \in Closure'
  /\ \A i, j \in 0..n : L[i] = L[j] => i = j
  /\ Closure \subseteq Closure'
  /\ \A d \in Closure' : d \in Closure \ {y} \/ \E i \in 1..(n + 1) : d = L[i]
  /\ \A i \in 1..(n + 1) : /\ cl'[L[i]].call_parent = L[i - 1] /\ cl'[L[i]].spawn_parent = NULL
                           /\ cl'[L[i]].frame # NULL
  /\ \A i \in 0..n : cl'[L[i]].has_cilk_callee /\ cl'[L[i]].status = "SUSPENDED"
  /\ cl'[y].status = "READY" /\ cl'[y].has_cilk_callee = FALSE
  /\ \A d \in Closure \ {y} :
       /\ cl'[d].call_parent = cl[d].call_parent /\ cl'[d].spawn_parent = cl[d].spawn_parent
       /\ cl'[d].has_cilk_callee <=> cl[d].has_cilk_callee
       /\ cl'[d].status = cl[d].status
       /\ cl[d].frame # NULL => cl'[d].frame = cl[d].frame

(* Linking the chain: each waits for one live callee, the next.               *)
LEMMA LinkedKeepsCalls ==
  ASSUME IInv, NEW w \in Worker, NEW y \in Closure, pc[w] = "finish", t[w] = y,
         ~fr[cl[y].frame].stolen, NEW n \in Nat, NEW L, Linked(y, n, L),
         \A u \in Worker : Hand(u)' = Hand(u)
  PROVE  CallInv' /\ ParentInv'
<1>. DEFINE old == cl[y].call_parent
<1>1. /\ old \in Closure /\ Hand(w) = y /\ y # old
      /\ \A d \in Closure : Live(d) /\ cl[d].call_parent = old => d = y
  BY EnteringCaller
<1>2. /\ L[0] = old /\ L[n + 1] = y /\ (\A i \in 1..n : L[i] \notin Closure)
      /\ (\A i \in 0..(n + 1) : L[i] \in Closure') /\ Closure \subseteq Closure'
      /\ (\A i, j \in 0..n : L[i] = L[j] => i = j)
      /\ \A d \in Closure' : d \in Closure \ {y} \/ \E i \in 1..(n + 1) : d = L[i]
  BY DEF Linked
<1>3. /\ \A i \in 1..(n + 1) : /\ cl'[L[i]].call_parent = L[i - 1] /\ cl'[L[i]].spawn_parent = NULL
                               /\ cl'[L[i]].frame # NULL
      /\ \A i \in 0..n : cl'[L[i]].has_cilk_callee /\ cl'[L[i]].status = "SUSPENDED"
      /\ cl'[y].status = "READY" /\ cl'[y].has_cilk_callee = FALSE
  BY DEF Linked
<1>4. \A d \in Closure \ {y} :
       /\ cl'[d].call_parent = cl[d].call_parent /\ cl'[d].spawn_parent = cl[d].spawn_parent
       /\ cl'[d].has_cilk_callee <=> cl[d].has_cilk_callee
       /\ cl'[d].status = cl[d].status
       /\ cl[d].frame # NULL => cl'[d].frame = cl[d].frame
  BY DEF Linked
<1>. HIDE DEF old
<1>5. \A d \in Closure \ {y} : Live(d)' <=> Live(d)
  BY <1>4 DEF Live
<1>6. \A i \in 1..(n + 1) : Live(L[i])'
  <2>1. Hand(w)' = y
    BY <1>1
  <2>2. \A i \in 1..(n + 1) : i \in 0..n \/ i = n + 1
    OBVIOUS
  <2>. QED  BY <1>2, <1>3, <2>1, <2>2 DEF Live
<1>7. \A i \in 1..(n + 1) : i - 1 \in 0..n
  OBVIOUS
<1>8. \A i \in 0..n : i + 1 \in 1..(n + 1) /\ (i + 1) - 1 = i /\ (i = 0 \/ i \in 1..n)
  OBVIOUS
(* Who is live and calls one of them is the next.                             *)
<1>9. ASSUME NEW d \in Closure \ {y}, Live(d), cl[d].call_parent # NULL, NEW i \in 0..n
      PROVE  cl[d].call_parent # L[i]
  <2>1. cl[d].call_parent \in Closure
    BY <1>9 DEF IInv, Typed, TypedTree
  <2>2. cl[d].call_parent # old
    BY <1>1, <1>9
  <2>. QED  BY <1>2, <1>8, <2>1, <2>2
<1>10. ASSUME NEW e \in Closure', cl'[e].has_cilk_callee
       PROVE  cl'[e].status = "SUSPENDED" /\ \E d \in Closure' : Live(d)' /\ cl'[d].call_parent = e
  <2>1. ASSUME NEW i \in 0..n, e = L[i]
        PROVE  cl'[e].status = "SUSPENDED" /\ \E d \in Closure' : Live(d)' /\ cl'[d].call_parent = e
    <3>1. Live(L[i + 1])' /\ cl'[L[i + 1]].call_parent = e /\ L[i + 1] \in Closure'
      <4>1. i + 1 \in 1..(n + 1) /\ (i + 1) - 1 = i /\ i + 1 \in 0..(n + 1)
        BY <1>8
      <4>. QED  BY <1>2, <1>3, <1>6, <2>1, <4>1
    <3>. QED  BY <1>3, <2>1, <3>1
  <2>2. CASE e \in Closure \ {y}
    <3>1. cl[e].has_cilk_callee /\ cl'[e].status = cl[e].status
      BY <1>4, <1>10, <2>2
    <3>2. cl[e].status = "SUSPENDED"
      BY <2>2, <3>1 DEF IInv, CallInv
    <3>3. PICK d \in Closure : Live(d) /\ cl[d].call_parent = e
      BY <2>2, <3>1 DEF IInv, CallInv
    <3>4. CASE d = y
      <4>1. e = L[0] /\ 0 \in 0..n
        BY <1>2, <3>3, <3>4 DEF old
      <4>. QED  BY <2>1, <4>1
    <3>5. CASE d # y
      <4>1. Live(d)' /\ cl'[d].call_parent = e /\ d \in Closure'
        BY <1>2, <1>4, <1>5, <3>3, <3>5
      <4>. QED  BY <3>1, <3>2, <4>1
    <3>. QED  BY <3>4, <3>5
  <2>3. CASE \E i \in 1..(n + 1) : e = L[i]
    <3>1. PICK i \in 1..(n + 1) : e = L[i]
      BY <2>3
    <3>2. i # n + 1
      BY <1>2, <1>3, <1>10, <3>1
    <3>3. i \in 0..n
      BY <3>2
    <3>. QED  BY <2>1, <3>1, <3>3
  <2>. QED  BY <1>2, <2>2, <2>3
<1>11. ASSUME NEW e \in Closure', Live(e)', cl'[e].call_parent # NULL
       PROVE  /\ cl'[cl'[e].call_parent].has_cilk_callee
              /\ \A d \in Closure' : Live(d)' /\ cl'[d].call_parent = cl'[e].call_parent => d = e
  <2>1. CASE \E i \in 1..(n + 1) : e = L[i]
    <3>1. PICK i \in 1..(n + 1) : e = L[i]
      BY <2>1
    <3>2. cl'[e].call_parent = L[i - 1] /\ i - 1 \in 0..n
      BY <1>3, <1>7, <3>1
    <3>3. ASSUME NEW d \in Closure', Live(d)', cl'[d].call_parent = L[i - 1]  PROVE d = e
      <4>1. d \notin Closure \ {y}
        BY <1>4, <1>5, <1>9, <1>11, <3>2, <3>3
      <4>2. PICK j \in 1..(n + 1) : d = L[j]
        BY <1>2, <4>1
      <4>3. L[j - 1] = L[i - 1] /\ j - 1 \in 0..n
        BY <1>3, <1>7, <3>3, <4>2
      <4>4. j - 1 = i - 1
        BY <1>2, <3>2, <4>3
      <4>5. j = i
        BY <4>4
      <4>. QED  BY <3>1, <4>2, <4>5
    <3>. QED  BY <1>3, <3>2, <3>3
  <2>2. CASE e \in Closure \ {y}
    <3>. DEFINE b == cl[e].call_parent
    <3>1. Live(e) /\ b # NULL /\ cl'[e].call_parent = b
      BY <1>4, <1>5, <1>11, <2>2
    <3>2. cl[b].has_cilk_callee /\ \A d \in Closure : Live(d) /\ cl[d].call_parent = b => d = e
      BY <2>2, <3>1 DEF IInv, CallInv
    <3>3. b \in Closure /\ b # y
      <4>1. b \in Closure
        BY <2>2, <3>1 DEF IInv, Typed, TypedTree
      <4>2. cl[y].has_cilk_callee = FALSE
        BY EnteringCaller
      <4>. QED  BY <3>2, <4>1, <4>2
    <3>4. \A i \in 0..n : b # L[i]
      BY <1>9, <2>2, <3>1
    <3>. HIDE DEF b
    <3>5. cl'[b].has_cilk_callee
      BY <1>4, <3>2, <3>3
    <3>6. ASSUME NEW d \in Closure', Live(d)', cl'[d].call_parent = b  PROVE d = e
      <4>1. CASE d \in Closure \ {y}
        BY <1>4, <1>5, <3>2, <3>6, <4>1
      <4>2. CASE \E i \in 1..(n + 1) : d = L[i]
        BY <1>3, <1>7, <3>4, <3>6, <4>2
      <4>. QED  BY <1>2, <4>1, <4>2
    <3>. QED  BY <3>1, <3>5, <3>6
  <2>. QED  BY <1>2, <2>1, <2>2
<1>12. CallInv'
  BY <1>10, <1>11 DEF CallInv
<1>13. cl'[y].frame # NULL
  <2>1. n + 1 \in 1..(n + 1)
    OBVIOUS
  <2>. QED  BY <1>2, <1>3, <2>1
<1>14. ASSUME NEW e \in Closure', cl'[e].spawn_parent # NULL
       PROVE  cl'[e].call_parent = NULL /\ cl'[cl'[e].spawn_parent].frame # NULL
  <2>1. e \in Closure \ {y}
    BY <1>2, <1>3, <1>14
  <2>2. cl[e].spawn_parent # NULL /\ cl'[e].spawn_parent = cl[e].spawn_parent
    BY <1>4, <1>14, <2>1
  <2>3. /\ cl[e].call_parent = NULL /\ cl[cl[e].spawn_parent].frame # NULL
        /\ cl[e].spawn_parent \in Closure
    BY <2>1, <2>2 DEF IInv, ParentInv, Typed, TypedTree
  <2>. QED  BY <1>4, <1>13, <2>1, <2>2, <2>3
<1>15. ASSUME NEW e \in Closure', cl'[e].status = "READY"  PROVE cl'[e].frame # NULL
  <2>1. CASE e \in Closure \ {y}
    <3>1. cl[e].status = "READY"
      BY <1>4, <1>15, <2>1
    <3>2. cl[e].frame # NULL
      BY <2>1, <3>1 DEF IInv, ParentInv
    <3>. QED  BY <1>4, <2>1, <3>2
  <2>. QED  BY <1>2, <1>3, <2>1
<1>. QED  BY <1>12, <1>14, <1>15 DEF ParentInv

(* What FinishNewFrame does to the frames: those on the path are stolen.      *)
LEMMA FramesMarked ==
  ASSUME IInv, NEW path \in Seq(Frame), Len(path) \in Nat \ {0}, NEW g \in Frame,
         fr' = [f \in Frame |->
                 IF f = path[1] THEN [StolenFrame(f, f) EXCEPT !.unsynced = TRUE]
                 ELSE IF f \in Range(path) THEN StolenFrame(f, path[1])
                 ELSE IF f = g THEN [fr[f] EXCEPT !.worker = NULL]
                 ELSE fr[f]]
  PROVE  /\ fr' \in [Frame -> FrameRecord] /\ EnteredInv'
         /\ \A f \in Frame : fr'[f].at = fr[f].at /\ (fr[f].stolen => fr'[f].stolen)
         /\ \A i \in 1..Len(path) : fr'[path[i]].stolen
         /\ \A f \in Frame : /\ fr'[f].stolen <=> fr[f].stolen \/ f \in Range(path)
                             /\ fr'[f].unsynced <=> fr[f].unsynced \/ f = path[1]
<1>1. \A f \in Frame : fr[f] \in FrameRecord /\ fr[f].at \in Nat
  BY DEF IInv, Typed, TypedRun, FrameRecord
<1>2. ASSUME NEW f \in Frame, NEW h \in Frame
      PROVE  /\ StolenFrame(f, h) \in FrameRecord /\ StolenFrame(f, h).at = fr[f].at
             /\ StolenFrame(f, h).stolen /\ StolenFrame(f, h).unsynced = fr[f].unsynced
  <2>. DEFINE a == fr[f]
              k == IF f = h THEN a.worker ELSE NULL
              x == [a EXCEPT !.stolen = TRUE]
              y == [x EXCEPT !.worker = k]
  <2>1. a \in FrameRecord /\ k \in Worker \union {NULL}
    BY <1>1 DEF FrameRecord
  <2>2. y = StolenFrame(f, h)
    BY <1>1 DEF StolenFrame, FrameRecord
  <2>3. a.at = fr[f].at /\ a.unsynced = fr[f].unsynced
    OBVIOUS
  <2>. HIDE DEF a, k
  <2>4. x \in FrameRecord /\ x.at = a.at /\ x.stolen /\ x.unsynced = a.unsynced
    BY <2>1 DEF FrameRecord
  <2>. HIDE DEF x
  <2>5. y \in FrameRecord /\ y.at = x.at /\ y.stolen /\ y.unsynced = x.unsynced
    BY <2>1, <2>4 DEF FrameRecord
  <2>. HIDE DEF y
  <2>. QED  BY <2>2, <2>3, <2>4, <2>5
<1>3. ASSUME NEW f \in Frame
      PROVE  LET r == [StolenFrame(f, f) EXCEPT !.unsynced = TRUE]
             IN r \in FrameRecord /\ r.at = fr[f].at /\ r.stolen /\ r.unsynced
  <2>. DEFINE a == StolenFrame(f, f)
              r == [a EXCEPT !.unsynced = TRUE]
  <2>1. a \in FrameRecord /\ a.at = fr[f].at /\ a.stolen
    BY <1>2
  <2>. HIDE DEF a
  <2>2. r \in FrameRecord /\ r.at = a.at /\ r.stolen /\ r.unsynced
    BY <2>1 DEF FrameRecord
  <2>3. r = [StolenFrame(f, f) EXCEPT !.unsynced = TRUE]
    BY DEF a
  <2>. HIDE DEF r
  <2>. QED  BY <2>1, <2>2, <2>3
<1>4. ASSUME NEW f \in Frame
      PROVE  LET r == [fr[f] EXCEPT !.worker = NULL]
             IN r \in FrameRecord /\ r.at = fr[f].at /\ r.stolen = fr[f].stolen /\ r.unsynced = fr[f].unsynced
  BY <1>1 DEF FrameRecord
<1>5. ASSUME NEW f \in Frame
      PROVE  /\ fr'[f] \in FrameRecord /\ fr'[f].at = fr[f].at
             /\ fr'[f].stolen <=> fr[f].stolen \/ f \in Range(path)
             /\ fr'[f].unsynced <=> fr[f].unsynced \/ f = path[1]
  <2>0. 1 \in 1..Len(path) /\ path[1] \in Frame /\ path[1] \in Range(path)
    BY ElementOfSeq, LenProperties DEF Range
  <2>1. CASE f = path[1]
    <3>1. fr'[f] = [StolenFrame(f, f) EXCEPT !.unsynced = TRUE]
      BY <2>1
    <3>. QED  BY <1>3, <2>0, <2>1, <3>1
  <2>2. CASE f # path[1] /\ f \in Range(path)
    <3>1. fr'[f] = StolenFrame(f, path[1])
      BY <2>2
    <3>. QED  BY <1>2, <2>0, <2>2, <3>1
  <2>3. CASE f # path[1] /\ f \notin Range(path) /\ f = g
    <3>1. fr'[f] = [fr[f] EXCEPT !.worker = NULL]
      BY <2>3
    <3>. QED  BY <1>4, <2>3, <3>1
  <2>4. CASE f # path[1] /\ f \notin Range(path) /\ f # g
    <3>1. fr'[f] = fr[f]
      BY <2>4
    <3>. QED  BY <1>1, <2>4, <3>1
  <2>. QED  BY <2>1, <2>2, <2>3, <2>4
<1>6. DOMAIN fr' = Frame
  OBVIOUS
<1>7. fr' \in [Frame -> FrameRecord]
  <2>1. fr' = [f \in Frame |-> fr'[f]]
    OBVIOUS
  <2>. QED  BY <1>5, <2>1
<1>8. EnteredInv'
  <2>1. \A f \in Frame : fr'[f].at >= fr[f].at /\ (fr[f].at = 0 => fr'[f].at = 0)
    <3>1. \A f \in Frame : fr'[f].at = fr[f].at
      BY <1>5
    <3>. QED  BY <1>1, <3>1
  <2>. QED  BY <1>7, <2>1, EnteredKept DEF IInv
<1>9. \A i \in 1..Len(path) : path[i] \in Range(path) /\ path[i] \in Frame
  BY ElementOfSeq, LenProperties DEF Range
<1>. QED  BY <1>5, <1>7, <1>8, <1>9

(* The records of FinishNewFrame, and what it does to the siblings and fibers *)
(* of closures and to the fibers of frames.                                   *)
LEMMA ChainSites ==
  /\ \A f, x, a, b : Sites(Middle(f, x, a, b), NULL, NULL, NULL, x, NULL, NULL)
  /\ \A f, b : \A c \in ClosureRecord : KeepsSites(Calling(c, f, b), c)
  /\ \A a : \A c \in ClosureRecord :
       KeepsSites([c EXCEPT !.call_parent = a, !.mutex = NULL, !.status = "READY"], c)
<1>1. \A f, x, a, b : Sites(Middle(f, x, a, b), NULL, NULL, NULL, x, NULL, NULL)
  BY DEF Middle, Closure_init, Sites
<1>2. ASSUME NEW f, NEW b, NEW c \in ClosureRecord  PROVE KeepsSites(Calling(c, f, b), c)
  BY DEF Calling, ClosureRecord, KeepsSites, Sites
<1>3. ASSUME NEW a, NEW c \in ClosureRecord
      PROVE  KeepsSites([c EXCEPT !.call_parent = a, !.mutex = NULL, !.status = "READY"], c)
  BY DEF ClosureRecord, KeepsSites, Sites
<1>. QED  BY <1>1, <1>2, <1>3
SameFibers == \A g \in Frame : fr'[g].sp = fr[g].sp /\ fr'[g].home = fr[g].home
FinishedSites(y, o) ==
  /\ \A d \in Closure : KeepsSites(cl'[d], cl[d])
  /\ \A d \in Closure' \ Closure : Sites(cl'[d], NULL, NULL, NULL, cl[o].fiber, NULL, NULL)
  /\ SameFibers
  /\ \A g \in Frame : fr'[g].worker = IF g # cl[y].frame /\ (fr'[g].stolen # fr[g].stolen \/ g = cl'[o].frame)
                                      THEN NULL ELSE fr[g].worker

(* The end of a promotion that made a closure: each frame of its path has one. *)
NewFrameFinishes(y, n, L) ==
  LET path == NotStolen(cl[y].frame)
      old  == cl[y].call_parent
  IN /\ Linked(y, n, L) /\ TypedTree'
     /\ cl'[y].frame = cl[y].frame
     /\ IF cl[old].frame = NULL
        THEN cl'[old].frame = path[Len(path)] /\ (Len(path) >= 2 => n = Len(path) - 2)
        ELSE cl'[old].frame = cl[old].frame /\ n = Len(path) - 1
     /\ \A i \in 1..n : /\ n + 2 - i \in 1..Len(path) /\ cl'[L[i]].frame = path[n + 2 - i]
                        /\ cl'[L[i]].join_counter = 0
     /\ \A d \in Closure : cl'[d].join_counter = cl[d].join_counter
     /\ \A d \in Closure \ {y, old} : cl'[d] = cl[d]
     /\ fr' \in [Frame -> FrameRecord] /\ EnteredInv'
     /\ \A f \in Frame : /\ fr'[f].at = fr[f].at
                         /\ fr'[f].stolen <=> fr[f].stolen \/ f \in Range(path)
                         /\ fr'[f].unsynced <=> fr[f].unsynced \/ f = path[1]

LEMMA NewFrameFinished ==
  ASSUME IInv, NEW w \in Worker, NEW y \in Closure, FinishPromote(w, y), ~fr[cl[y].frame].stolen
  PROVE  (\E n \in Nat : \E L : NewFrameFinishes(y, n, L)) /\ FinishedSites(y, cl[y].call_parent)
<1>. DEFINE f0     == cl[y].frame
            old    == cl[y].call_parent
            path   == NotStolen(cl[y].frame)
            oldest == IF cl[old].frame = NULL THEN Last(path) ELSE cl[old].frame
            mids   == IF cl[old].frame = NULL THEN SubSeq(path, 2, Len(path) - 1) ELSE Tail(path)
            n      == Len(mids)
            Link(i) == CASE i = 0 -> old [] i = n + 1 -> y [] OTHER -> Len(cl) + i
            New(i) == [Closure_init("SUSPENDED") EXCEPT
                         !.frame = mids[n + 1 - i], !.fiber = cl[old].fiber,
                         !.call_parent = Link(i - 1), !.callee = Link(i + 1),
                         !.has_cilk_callee = TRUE]
            q == [cl[old] EXCEPT !.frame = oldest, !.callee = Link(1), !.has_cilk_callee = TRUE]
            r == [cl[y] EXCEPT !.call_parent = Link(n), !.mutex = NULL, !.status = "READY"]
            s == [cl EXCEPT ![old] = q, ![y] = r]
            new == [i \in 1..n |-> New(i)]
            L == [i \in 0..(n + 1) |-> Link(i)]
<1>1. pc[w] = "finish" /\ t[w] = y
  BY DEF FinishPromote, At
<1>2. /\ cl[y].frame \in Frame /\ fr[cl[y].frame].at # 0 /\ old \in Closure
      /\ Hand(w) = y /\ y # old /\ cl[y].spawn_parent = NULL
      /\ cl[y].status # "SUSPENDED" /\ cl[y].has_cilk_callee = FALSE
      /\ cl[old].has_cilk_callee /\ cl[old].status = "SUSPENDED"
  BY <1>1, EnteringCaller
<1>3. /\ Closure = 1..Len(cl) /\ Len(cl) \in Nat /\ Closure \subseteq Nat /\ NULL \notin Closure
      /\ cl \in [Closure -> ClosureRecord] /\ \A c \in Closure : cl[c] \in ClosureRecord
  BY TreeIsSeq DEF IInv, Typed
(* The action, as the definitions above name its parts.                       *)
<1>4. cl' = [cl EXCEPT ![old].frame = oldest, ![old].callee = Link(1),
                       ![old].has_cilk_callee = TRUE,
                       ![y].call_parent = Link(n), ![y].mutex = NULL, ![y].status = "READY"]
             \o [i \in 1..n |-> New(i)]
  BY DEF FinishPromote, FinishNewFrame
<1>5. fr' = [f \in Frame |->
                 IF f = path[1] THEN [StolenFrame(f, f) EXCEPT !.unsynced = TRUE]
                 ELSE IF f \in Range(path) THEN StolenFrame(f, path[1])
                 ELSE IF f = oldest THEN [fr[f] EXCEPT !.worker = NULL]
                 ELSE fr[f]]
  BY DEF FinishPromote, FinishNewFrame
<1>7. /\ path \in Seq(Frame) /\ Len(path) \in Nat \ {0} /\ path[1] = f0
      /\ \A i \in 1..Len(path) : path[i] \in Range(Stacklet[f0])
  BY <1>2, NotStolenFrames
<1>8. \A i \in 1..Len(path) : path[i] \in Frame
  <2>. HIDE DEF path
  <2>. QED  BY <1>7, ElementOfSeq
<1>10. oldest \in Frame /\ (cl[old].frame = NULL => oldest = path[Len(path)])
       /\ (cl[old].frame # NULL => oldest = cl[old].frame)
  <2>. HIDE DEF path, old
  <2>1. cl[old].frame \in Frame \union {NULL}
    BY <1>2, <1>3 DEF ClosureRecord
  <2>2. Last(path) = path[Len(path)]
    BY DEF Last
  <2>3. Len(path) \in 1..Len(path)
    BY <1>7
  <2>. QED  BY <1>8, <2>1, <2>2, <2>3
<1>11. /\ n \in Nat
       /\ \A i \in 1..n : mids[i] \in Frame /\ i + 1 \in 1..Len(path) /\ mids[i] = path[i + 1]
       /\ cl[old].frame = NULL => (Len(path) >= 2 => n = Len(path) - 2)
       /\ cl[old].frame # NULL => n = Len(path) - 1
  <2>. DEFINE m == Len(path)
              a == SubSeq(path, 2, m - 1)
              b == Tail(path)
  <2>. HIDE DEF path, old
  <2>1. /\ Len(a) \in Nat /\ (m >= 2 => Len(a) = m - 2)
        /\ \A i \in 1..Len(a) : i + 1 \in 1..m /\ a[i] = path[i + 1]
    <3>1. m \in Nat \ {0} /\ \A i \in 2..(m - 1) : path[i] \in Frame
      BY <1>7, <1>8
    <3>2. /\ Len(a) = IF 2 <= m - 1 THEN (m - 1) - 2 + 1 ELSE 0
          /\ \A i \in 1..((m - 1) - 2 + 1) : a[i] = path[2 + i - 1]
      <4>. HIDE DEF m
      <4>. QED  BY <3>1, SubSeqProperties
    <3>. HIDE DEF m, a
    <3>3. Len(a) \in Nat /\ \A i \in 1..Len(a) : i \in 1..((m - 1) - 2 + 1) /\ i + 1 \in 1..m /\ 2 + i - 1 = i + 1
      BY <3>1, <3>2
    <3>4. m >= 2 => Len(a) = m - 2
      BY <3>1, <3>2
    <3>. QED  BY <3>2, <3>3, <3>4
  <2>2. /\ Len(b) = m - 1 /\ Len(b) \in Nat
        /\ \A i \in 1..Len(b) : i + 1 \in 1..m /\ b[i] = path[i + 1]
    <3>1. path # <<>> /\ m \in Nat \ {0}
      BY <1>7
    <3>2. Len(b) = m - 1 /\ \A i \in 1..Len(b) : b[i] = path[i + 1]
      BY <1>7, <3>1, HeadTailProperties
    <3>. HIDE DEF m, b
    <3>. QED  BY <3>1, <3>2
  <2>3. mids = IF cl[old].frame = NULL THEN a ELSE b
    OBVIOUS
  <2>. HIDE DEF a, b, mids
  <2>4. n \in Nat /\ \A i \in 1..n : i + 1 \in 1..m /\ mids[i] = path[i + 1]
    BY <2>1, <2>2, <2>3
  <2>5. /\ cl[old].frame = NULL => (m >= 2 => n = m - 2)
        /\ cl[old].frame # NULL => n = m - 1
    BY <2>1, <2>2, <2>3
  <2>. QED  BY <1>8, <2>4, <2>5
<1>. HIDE DEF path, mids, oldest
<1>12. /\ Link(0) = old /\ Link(n + 1) = y
       /\ \A i \in 1..n : Link(i) = Len(cl) + i
  <2>. HIDE DEF n, old
  <2>. QED  BY <1>11
<1>. HIDE DEF n, old, f0
<1>13. \A i \in 0..(n + 1) : Link(i) \in Ref /\ (i = 0 \/ i \in 1..n \/ i = n + 1)
  <2>1. \A i \in 0..(n + 1) : i = 0 \/ i \in 1..n \/ i = n + 1
    BY <1>11
  <2>2. \A i \in 1..n : Len(cl) + i \in Ref
    BY <1>3, <1>11 DEF Ref
  <2>3. old \in Ref /\ y \in Ref
    BY <1>2, <1>3 DEF Ref
  <2>. HIDE DEF Link
  <2>. QED  BY <1>12, <2>1, <2>2, <2>3
<1>. HIDE DEF Link
<1>14. 0 \in 0..(n + 1) /\ 1 \in 0..(n + 1) /\ n \in 0..(n + 1) /\ n + 1 \in 0..(n + 1) /\ cl[old].fiber \in Ref
  BY <1>2, <1>3, <1>11 DEF ClosureRecord
<1>15. /\ q \in ClosureRecord /\ q.frame = oldest /\ q.call_parent = cl[old].call_parent
       /\ q.spawn_parent = cl[old].spawn_parent /\ q.has_cilk_callee = TRUE
       /\ q.status = cl[old].status /\ q.join_counter = cl[old].join_counter
  <2>1. PICK c \in ClosureRecord, g \in Frame, b \in Ref : c = cl[old] /\ g = oldest /\ b = Link(1)
    BY <1>2, <1>3, <1>10, <1>13, <1>14
  <2>2. q = Calling(c, g, b)
    BY <2>1 DEF Calling
  <2>. HIDE DEF q
  <2>3. Has(Calling(c, g, b), g, c.call_parent, c.spawn_parent, c.status)
    BY <2>1, CallerRecord
  <2>4. q.join_counter = cl[old].join_counter
    BY <2>1, <2>2, CountedChain
  <2>. QED  BY <2>1, <2>2, <2>3, <2>4 DEF Has
<1>16. /\ r \in ClosureRecord /\ r.frame = cl[y].frame /\ r.call_parent = Link(n)
       /\ r.spawn_parent = cl[y].spawn_parent /\ r.has_cilk_callee = cl[y].has_cilk_callee
       /\ r.status = "READY" /\ r.join_counter = cl[y].join_counter
  <2>1. r.join_counter = cl[y].join_counter
    BY <1>3, CountedChain
  <2>2. cl[y] \in ClosureRecord /\ Link(n) \in Ref
    BY <1>3, <1>13, <1>14
  <2>3. /\ r \in ClosureRecord /\ r.frame = cl[y].frame /\ r.call_parent = Link(n)
        /\ r.spawn_parent = cl[y].spawn_parent /\ r.has_cilk_callee = cl[y].has_cilk_callee
        /\ r.status = "READY"
    BY <2>2, ReadyRecord
  <2>. QED  BY <2>1, <2>3
<1>17. ASSUME NEW i \in 1..n
       PROVE  /\ New(i) \in ClosureRecord /\ New(i).frame = mids[n + 1 - i]
              /\ New(i).call_parent = Link(i - 1) /\ New(i).spawn_parent = NULL
              /\ New(i).has_cilk_callee = TRUE /\ New(i).status = "SUSPENDED"
              /\ New(i).join_counter = 0
  <2>1. n + 1 - i \in 1..n /\ i - 1 \in 0..(n + 1) /\ i + 1 \in 0..(n + 1)
    BY <1>11
  <2>2. mids[n + 1 - i] \in Frame /\ Link(i - 1) \in Ref /\ Link(i + 1) \in Ref
    BY <1>11, <1>13, <2>1
  <2>3. PICK f \in Frame, x \in Ref, a \in Ref, b \in Ref :
          f = mids[n + 1 - i] /\ x = cl[old].fiber /\ a = Link(i - 1) /\ b = Link(i + 1)
    BY <1>14, <2>2
  <2>4. New(i) = Middle(f, x, a, b)
    BY <2>3 DEF Middle
  <2>. HIDE DEF New
  <2>5. Has(Middle(f, x, a, b), f, a, NULL, "SUSPENDED")
    BY <2>3, MiddleRecord
  <2>6. New(i).join_counter = 0
    BY <2>4, CountedChain
  <2>. QED  BY <2>3, <2>4, <2>5, <2>6 DEF Has
<1>17a. KeepsSites(q, cl[old]) /\ KeepsSites(r, cl[y])
  <2>1. q = Calling(cl[old], oldest, Link(1))
    BY DEF Calling
  <2>2. KeepsSites(r, cl[y])
    BY <1>3, ChainSites
  <2>. HIDE DEF q, r
  <2>. QED  BY <1>2, <1>3, <2>1, <2>2, ChainSites
<1>17b. ASSUME NEW i \in 1..n  PROVE Sites(New(i), NULL, NULL, NULL, cl[old].fiber, NULL, NULL)
  <2>1. New(i) = Middle(mids[n + 1 - i], cl[old].fiber, Link(i - 1), Link(i + 1))
    BY DEF Middle
  <2>. HIDE DEF New
  <2>. QED  BY <2>1, ChainSites
<1>18. cl' = s \o new
  <2>1. [cl EXCEPT ![old].frame = oldest, ![old].callee = Link(1), ![old].has_cilk_callee = TRUE,
                   ![y].call_parent = Link(n), ![y].mutex = NULL, ![y].status = "READY"] = s
    BY <1>2, <1>3
  <2>. HIDE DEF s, New
  <2>. QED  BY <1>4, <2>1
<1>. HIDE DEF q, r, New
<1>19. /\ s \in [Closure -> ClosureRecord] /\ s[old] = q /\ s[y] = r
       /\ \A d \in Closure \ {old, y} : s[d] = cl[d]
  BY <1>2, <1>3, <1>15, <1>16
<1>20. new \in Seq(ClosureRecord) /\ Len(new) = n /\ \A i \in 1..n : new[i] = New(i)
  <2>1. new \in [1..n -> ClosureRecord] /\ \A i \in 1..n : new[i] = New(i)
    BY <1>17
  <2>. HIDE DEF new
  <2>. QED  BY <1>11, <2>1, SeqIsTree
<1>. HIDE DEF s, new
<1>21. /\ cl' \in Seq(ClosureRecord) /\ Closure' = 1..(Len(cl) + n) /\ Closure \subseteq Closure'
       /\ \A d \in Closure : cl'[d] = s[d]
       /\ \A i \in 1..n : /\ cl'[Len(cl) + i] = new[i] /\ Len(cl) + i \in Closure'
                          /\ Len(cl) + i \notin Closure
       /\ \A d \in Closure' : d \in Closure \/ \E i \in 1..n : d = Len(cl) + i
  <2>1. TypedTree
    BY DEF IInv, Typed
  <2>. QED  BY <1>18, <1>19, <1>20, <2>1, Grown
<1>22. \A i \in 0..(n + 1) : L[i] = Link(i) /\ L[i] \in Closure'
  BY <1>2, <1>12, <1>13, <1>21
<1>. HIDE DEF L
(* The chain. *)
<1>23. /\ L[0] = old /\ L[n + 1] = y /\ \A i \in 1..n : L[i] = Len(cl) + i
  <2>1. \A i \in 1..n : i \in 0..(n + 1)
    BY <1>11
  <2>. QED  BY <1>12, <1>14, <1>22, <2>1
<1>24. Linked(y, n, L)
  <2>1. \A i \in 1..n : L[i] \notin Closure
    BY <1>21, <1>23
  <2>2. \A i, j \in 0..n : L[i] = L[j] => i = j
    <3>1. \A i \in 0..n : i = 0 \/ i \in 1..n
      BY <1>11
    <3>2. \A i, j \in 1..n : Len(cl) + i = Len(cl) + j => i = j
      BY <1>3, <1>11
    <3>. QED  BY <1>2, <1>23, <2>1, <3>1, <3>2
  <2>3. \A d \in Closure' : d \in Closure \ {y} \/ \E i \in 1..(n + 1) : d = L[i]
    <3>1. n + 1 \in 1..(n + 1) /\ \A i \in 1..n : i \in 1..(n + 1)
      BY <1>11
    <3>. QED  BY <1>21, <1>23, <3>1
  <2>4. ASSUME NEW i \in 1..(n + 1)
        PROVE  /\ cl'[L[i]].call_parent = L[i - 1] /\ cl'[L[i]].spawn_parent = NULL
               /\ cl'[L[i]].frame # NULL
    <3>1. CASE i = n + 1
      <4>1. cl'[L[i]] = r /\ i - 1 = n
        BY <1>11, <1>19, <1>21, <1>23, <3>1
      <4>2. L[n] = Link(n)
        BY <1>14, <1>22
      <4>. QED  BY <1>2, <1>16, <4>1, <4>2, WorkerAssumption
    <3>2. CASE i \in 1..n
      <4>1. cl'[L[i]] = New(i)
        BY <1>20, <1>21, <1>23, <3>2
      <4>2. i - 1 \in 0..(n + 1) /\ n + 1 - i \in 1..n
        BY <1>11, <3>2
      <4>3. L[i - 1] = Link(i - 1) /\ mids[n + 1 - i] \in Frame
        BY <1>11, <1>22, <4>2
      <4>. QED  BY <1>17, <3>2, <4>1, <4>3, WorkerAssumption
    <3>3. i = n + 1 \/ i \in 1..n
      BY <1>11
    <3>. QED  BY <3>1, <3>2, <3>3
  <2>5. ASSUME NEW i \in 0..n  PROVE cl'[L[i]].has_cilk_callee /\ cl'[L[i]].status = "SUSPENDED"
    <3>1. CASE i = 0
      BY <1>2, <1>15, <1>19, <1>21, <1>23, <3>1
    <3>2. CASE i \in 1..n
      <4>1. cl'[L[i]] = New(i)
        BY <1>20, <1>21, <1>23, <3>2
      <4>. QED  BY <1>17, <3>2, <4>1
    <3>3. i = 0 \/ i \in 1..n
      BY <1>11
    <3>. QED  BY <3>1, <3>2, <3>3
  <2>6. cl'[y].status = "READY" /\ cl'[y].has_cilk_callee = FALSE
    BY <1>2, <1>16, <1>19, <1>21
  <2>7. ASSUME NEW d \in Closure \ {y}
        PROVE  /\ cl'[d].call_parent = cl[d].call_parent /\ cl'[d].spawn_parent = cl[d].spawn_parent
               /\ cl'[d].has_cilk_callee <=> cl[d].has_cilk_callee
               /\ cl'[d].status = cl[d].status
               /\ cl[d].frame # NULL => cl'[d].frame = cl[d].frame
    <3>1. CASE d = old
      BY <1>2, <1>10, <1>15, <1>19, <1>21, <3>1
    <3>2. CASE d # old
      BY <1>19, <1>21, <3>2
    <3>. QED  BY <3>1, <3>2
  <2>8. L[0] = cl[y].call_parent /\ Closure \subseteq Closure'
    BY <1>21, <1>23 DEF old
  <2>. QED  BY <1>22, <1>23, <2>1, <2>2, <2>3, <2>4, <2>5, <2>6, <2>7, <2>8 DEF Linked
<1>25. TypedTree'
  <2>1. ASSUME NEW d \in Closure'
        PROVE  cl'[d].call_parent \in Closure' \union {NULL} /\ cl'[d].spawn_parent \in Closure' \union {NULL}
    <3>1. CASE d \in Closure \ {y}
      BY <1>21, <1>24, <3>1 DEF Linked, IInv, Typed, TypedTree
    <3>2. CASE \E i \in 1..(n + 1) : d = L[i]
      <4>1. \A i \in 1..(n + 1) : i - 1 \in 0..(n + 1)
        BY <1>11
      <4>. QED  BY <1>24, <3>2, <4>1 DEF Linked
    <3>. QED  BY <1>24, <3>1, <3>2 DEF Linked
  <2>. QED  BY <1>21, <2>1 DEF TypedTree
<1>26. /\ fr' \in [Frame -> FrameRecord] /\ EnteredInv'
       /\ \A f \in Frame : /\ fr'[f].at = fr[f].at
                           /\ fr'[f].stolen <=> fr[f].stolen \/ f \in Range(path)
                           /\ fr'[f].unsynced <=> fr[f].unsynced \/ f = path[1]
  BY <1>5, <1>7, <1>10, FramesMarked
<1>27. /\ cl'[y].frame = cl[y].frame /\ cl'[old].frame = oldest
       /\ \A d \in Closure \ {y, old} : cl'[d] = cl[d]
       /\ \A d \in Closure : cl'[d].join_counter = cl[d].join_counter
  <2>1. cl'[y] = r /\ cl'[old] = q /\ \A d \in Closure \ {y, old} : cl'[d] = cl[d]
    BY <1>2, <1>19, <1>21
  <2>2. \A d \in Closure : d = y \/ d = old \/ d \in Closure \ {y, old}
    OBVIOUS
  <2>. QED  BY <1>15, <1>16, <2>1, <2>2
<1>28. ASSUME NEW i \in 1..n
       PROVE  /\ n + 2 - i \in 1..Len(path) /\ cl'[L[i]].frame = path[n + 2 - i]
              /\ cl'[L[i]].join_counter = 0
  <2>1. cl'[L[i]] = New(i)
    BY <1>20, <1>21, <1>23
  <2>2. n + 1 - i \in 1..n /\ n + 2 - i = (n + 1 - i) + 1
    BY <1>11
  <2>. QED  BY <1>11, <1>17, <2>1, <2>2
<1>29. IF cl[old].frame = NULL
       THEN cl'[old].frame = path[Len(path)] /\ (Len(path) >= 2 => n = Len(path) - 2)
       ELSE cl'[old].frame = cl[old].frame /\ n = Len(path) - 1
  BY <1>10, <1>11, <1>27
<1>30. NewFrameFinishes(y, n, L)
  BY <1>24, <1>25, <1>26, <1>27, <1>28, <1>29 DEF NewFrameFinishes, path, old
<1>31. /\ \A d \in Closure : KeepsSites(cl'[d], cl[d])
       /\ \A d \in Closure' \ Closure : Sites(cl'[d], NULL, NULL, NULL, cl[old].fiber, NULL, NULL)
  <2>1. cl'[y] = r /\ cl'[old] = q /\ \A d \in Closure \ {y, old} : cl'[d] = cl[d]
    BY <1>2, <1>19, <1>21
  <2>2. \A d \in Closure : KeepsSites(cl[d], cl[d])
    BY DEF KeepsSites, Sites
  <2>3. \A i \in 1..n : cl'[Len(cl) + i] = New(i)
    BY <1>20, <1>21
  <2>4. \A d \in Closure' \ Closure : \E i \in 1..n : d = Len(cl) + i
    BY <1>21
  <2>. QED  BY <1>17a, <1>17b, <2>1, <2>2, <2>3, <2>4
<1>32. SameFibers /\ \A g \in Frame : fr'[g].worker = IF g # path[1] /\ (g \in Range(path) \/ g = oldest)
                                                       THEN NULL ELSE fr[g].worker
  <2>. SUFFICES ASSUME NEW g \in Frame
                PROVE  /\ fr'[g].sp = fr[g].sp /\ fr'[g].home = fr[g].home
                       /\ fr'[g].worker = IF g # path[1] /\ (g \in Range(path) \/ g = oldest)
                                          THEN NULL ELSE fr[g].worker
    BY DEF SameFibers
  <2>1. fr[g] \in FrameRecord
    BY DEF IInv, Typed, TypedRun
  <2>2. path[1] \in Range(path)
    BY <1>7, LenProperties DEF Range
  <2>. QED  BY <1>5, <2>1, <2>2 DEF StolenFrame, FrameRecord
<1>33. \A g \in Frame : g \in Range(path) => ~fr[g].stolen
  <2>1. \A i \in 1..Len(path) : ~fr[path[i]].stolen
    <3>. HIDE DEF path
    <3>1. \A i \in 1..Len(NotStolen(f0)) : ~fr[NotStolen(f0)[i]].stolen
      BY <1>2, NotStolenFrames DEF f0
    <3>. QED  BY <3>1 DEF path, f0
  <2>. QED  BY <1>7, <2>1, LenProperties DEF Range
<1>34. FinishedSites(y, old)
  <2>1. \A g \in Frame : fr'[g].stolen # fr[g].stolen <=> g \in Range(path)
    <3>1. \A g \in Frame : fr[g].stolen \in BOOLEAN /\ fr'[g].stolen \in BOOLEAN
      BY <1>26 DEF FrameRecord, IInv, Typed, TypedRun
    <3>. QED  BY <1>26, <1>33, <3>1
  <2>2. path[1] = cl[y].frame /\ cl'[old].frame = oldest
    BY <1>7, <1>27 DEF f0
  <2>. QED  BY <1>31, <1>32, <2>1, <2>2 DEF FinishedSites
<1>. QED  BY <1>11, <1>30, <1>34 DEF old

(* ... so that its callers are linked to it.                                  *)
LEMMA FinishNewFrameKeeps ==
  ASSUME IInv, NEW w \in Worker, NEW y \in Closure, FinishPromote(w, y), ~fr[cl[y].frame].stolen
  PROVE  IInv'
<1>. DEFINE f0   == cl[y].frame
            old  == cl[y].call_parent
            path == NotStolen(cl[y].frame)
<1>1. pc[w] = "finish" /\ t[w] = y
  BY DEF FinishPromote, At
<1>2. /\ cl[y].frame \in Frame /\ fr[cl[y].frame].at # 0 /\ old \in Closure
      /\ Hand(w) = y /\ y # old /\ cl[y].spawn_parent = NULL
      /\ cl[y].status # "SUSPENDED" /\ cl[y].has_cilk_callee = FALSE
      /\ cl[old].has_cilk_callee /\ cl[old].status = "SUSPENDED"
  BY <1>1, EnteringCaller
<1>3. /\ Closure = 1..Len(cl) /\ Len(cl) \in Nat /\ Closure \subseteq Nat /\ NULL \notin Closure
      /\ cl \in [Closure -> ClosureRecord] /\ \A c \in Closure : cl[c] \in ClosureRecord
  BY TreeIsSeq DEF IInv, Typed
<1>6. /\ pc' \in [Worker -> PC] /\ pc'[w] = "do" /\ \A v \in Worker \ {w} : pc'[v] = pc[v]
      /\ t' = t /\ deque' = deque /\ made' = made /\ idle' = idle /\ toFree' = toFree
      /\ good' = good /\ cur' = cur /\ ltq' = ltq /\ on' = on
  BY DEF FinishPromote, Goto, fiberVars, IInv, Typed, TypedRuntime, PC
<1>7. /\ path \in Seq(Frame) /\ Len(path) \in Nat \ {0} /\ path[1] = f0
      /\ \A i \in 1..Len(path) : path[i] \in Range(Stacklet[f0])
  BY <1>2, NotStolenFrames
<1>8. \A i \in 1..Len(path) : path[i] \in Frame /\ path[i] \in Range(path) /\ fr[path[i]].at # 0
  <2>. HIDE DEF path
  <2>. QED  BY <1>2, <1>7, ElementOfSeq, LenProperties DEF IInv, EnteredInv, Range
<1>20. PICK n \in Nat : \E L : NewFrameFinishes(y, n, L)
  BY NewFrameFinished
<1>21. PICK L : NewFrameFinishes(y, n, L)
  BY <1>20
<1>22. /\ Linked(y, n, L) /\ TypedTree' /\ cl'[y].frame = f0
       /\ cl[old].frame = NULL => cl'[old].frame = path[Len(path)]
       /\ cl[old].frame # NULL => cl'[old].frame = cl[old].frame
       /\ \A i \in 1..n : n + 2 - i \in 1..Len(path) /\ cl'[L[i]].frame = path[n + 2 - i]
       /\ \A d \in Closure \ {y, old} : cl'[d] = cl[d]
       /\ fr' \in [Frame -> FrameRecord] /\ EnteredInv'
       /\ \A f \in Frame : fr'[f].at = fr[f].at /\ (fr[f].stolen \/ f \in Range(path) => fr'[f].stolen)
  BY <1>21 DEF NewFrameFinishes
<1>. HIDE DEF path, old, f0
<1>23. /\ L[0] = old /\ L[n + 1] = y /\ Closure \subseteq Closure'
       /\ cl'[y].status = "READY" /\ cl'[old].status = "SUSPENDED"
       /\ \A d \in Closure' : d \in Closure \/ \E i \in 1..n : d = L[i]
  <2>1. \A i \in 1..(n + 1) : i \in 1..n \/ i = n + 1
    OBVIOUS
  <2>. QED  BY <1>2, <1>22, <2>1 DEF Linked, old
<1>27. Typed'
  <2>1. TypedRun'
    BY <1>6, <1>22 DEF IInv, Typed, TypedRun
  <2>2. t' \in [Worker -> Closure' \union {NULL}] /\ deque' \in [Worker -> Deques']
    <3>1. \A x \in Deques : x \in Deques'
      BY <1>23 DEF Deques
    <3>. QED  BY <1>6, <1>23, <3>1 DEF IInv, Typed, TypedRuntime
  <2>3. TypedRuntime'
    BY <1>6, <2>2 DEF IInv, Typed, TypedRuntime
  <2>. QED  BY <1>22, <2>1, <2>3 DEF Typed
<1>28. \A u \in Worker : Hand(u)' = Hand(u)
  BY <1>6 DEF Hand
<1>29. \A u \in Worker \ {w} : Hand(u) # y /\ Hand(u) # old /\ Hand(u) \in Closure \union {NULL}
  BY <1>2, <1>3, HandIs DEF IInv, OneHand
<1>30. \A u \in Worker \ {w} : HandInv(u)' /\ PlaceInv(u)'
  <2>. SUFFICES ASSUME NEW u \in Worker \ {w}  PROVE HandInv(u)' /\ PlaceInv(u)'
    OBVIOUS
  <2>1. pc'[u] = pc[u] /\ t'[u] = t[u] /\ deque'[u] = deque[u] /\ cur'[u] = cur[u]
    BY <1>6
  <2>2. Hand(u) # NULL => /\ cl'[Hand(u)].status = cl[Hand(u)].status
                          /\ cl[Hand(u)].frame # NULL => cl'[Hand(u)].frame # NULL
    <3>1. Hand(u) # NULL => cl'[Hand(u)] = cl[Hand(u)]
      BY <1>22, <1>29
    <3>. QED  BY <3>1
  <2>3. \A f \in Frame : fr[f].at # 0 => fr'[f].at # 0
    BY <1>22
  <2>. QED  BY <2>1, <2>2, <2>3, OtherKept
<1>31. HandInv(w)' /\ PlaceInv(w)'
  <2>1. deque[w] = <<>> /\ t[w] # NULL
    BY <1>1, <1>3, HandIs
  <2>. QED  BY <1>6, <2>1 DEF HandInv, PlaceInv
<1>32. OneHand'
  <2>1. \A u, v \in Worker : u # v /\ Hand(u)' = Hand(v)' => Hand(u)' = NULL
    BY <1>28 DEF IInv, OneHand
  <2>2. ASSUME NEW u \in Worker, Hand(u)' # NULL  PROVE cl'[Hand(u)'].status # "SUSPENDED"
    <3>1. CASE u = w
      BY <1>2, <1>23, <1>28, <3>1
    <3>2. CASE u # w
      <4>1. Hand(u)' = Hand(u) /\ cl'[Hand(u)] = cl[Hand(u)]
        BY <1>22, <1>28, <1>29, <2>2, <3>2
      <4>. QED  BY <2>2, <4>1 DEF IInv, OneHand
    <3>. QED  BY <3>1, <3>2
  <2>. QED  BY <2>1, <2>2 DEF OneHand
<1>33. CallInv' /\ ParentInv'
  BY <1>1, <1>22, <1>28, LinkedKeepsCalls
<1>34. FrameInv'
  <2>1. \A i \in 1..Len(path) : fr'[path[i]].at # 0 /\ fr'[path[i]].stolen
    BY <1>8, <1>22
  <2>2. fr'[f0].at # 0 /\ fr'[f0].stolen
    <3>1. 1 \in 1..Len(path)
      BY <1>7
    <3>. QED  BY <1>7, <2>1, <3>1
  <2>3. ASSUME NEW d \in Closure \ {y}, cl[d].frame # NULL
        PROVE  fr'[cl[d].frame].at # 0 /\ (fr'[cl[d].frame].stolen \/ Entering(d)')
    <3>1. cl[d].frame \in Frame /\ fr[cl[d].frame].at # 0 /\ (fr[cl[d].frame].stolen \/ Entering(d))
      BY <1>3, <2>3 DEF IInv, FrameInv, ClosureRecord
    <3>2. ASSUME Entering(d)  PROVE Entering(d)'
      <4>1. PICK u \in Worker : pc[u] \in {"promoted", "finish"} /\ t[u] = d /\ cl[d].call_parent # NULL
        BY <3>2 DEF Entering
      <4>2. u # w
        BY <1>1, <4>1
      <4>3. pc'[u] = pc[u] /\ t'[u] = d
        BY <1>6, <4>1, <4>2
      <4>4. cl'[d].call_parent = cl[d].call_parent
        BY <1>22 DEF Linked
      <4>. QED  BY <4>1, <4>3, <4>4 DEF Entering
    <3>. QED  BY <1>22, <3>1, <3>2
  <2>4. ASSUME NEW d \in Closure', cl'[d].frame # NULL
        PROVE  fr'[cl'[d].frame].at # 0 /\ (fr'[cl'[d].frame].stolen \/ Entering(d)')
    <3>1. CASE d = y
      BY <1>22, <2>2, <3>1
    <3>2. CASE d = old /\ cl[old].frame = NULL
      <4>1. cl'[d].frame = path[Len(path)] /\ Len(path) \in 1..Len(path)
        BY <1>7, <1>22, <3>2
      <4>. QED  BY <2>1, <4>1
    <3>3. CASE d \in Closure \ {y} /\ cl[d].frame # NULL
      <4>1. cl'[d].frame = cl[d].frame
        BY <1>22, <3>3 DEF Linked
      <4>. QED  BY <2>3, <3>3, <4>1
    <3>4. CASE d \in Closure \ {y, old} /\ cl[d].frame = NULL
      BY <1>22, <2>4, <3>4
    <3>5. CASE \E i \in 1..n : d = L[i]
      BY <1>22, <2>1, <3>5
    <3>. QED  BY <1>23, <3>1, <3>2, <3>3, <3>4, <3>5
  <2>5. \A u \in Worker : \A i \in 1..Len(ltq'[u]) : fr'[ltq'[u][i]].at # 0
    <3>1. \A h \in Frame : fr[h].at # 0 => fr'[h].at # 0
      BY <1>22
    <3>. QED  BY <1>6, <3>1, StackKept
  <2>. QED  BY <2>4, <2>5 DEF FrameInv
<1>. QED  BY <1>22, <1>27, <1>30, <1>31, <1>32, <1>33, <1>34 DEF IInv

(* Promotion, of either kind.                                                 *)
LEMMA PromoteKeeps ==
  ASSUME IInv, NEW w \in Worker, NEW v \in Worker, NEW c \in Closure, Promote(w, v, c)
  PROVE  IInv'
<1>1. CASE cl[c].frame = Head(ltq[v])
  <2>1. PromoteFullFrame(w, v, c)
    BY <1>1 DEF Promote
  <2>. QED  BY <1>1, <2>1, PromoteFullFrameKeeps
<1>2. CASE cl[c].frame # Head(ltq[v])
  <2>1. PromoteNewFrame(w, v, c)
    BY <1>2 DEF Promote
  <2>. QED  BY <1>2, <2>1, PromoteNewFrameKeeps
<1>. QED  BY <1>1, <1>2

(* A step that changes nothing.                                               *)
LEMMA StutterKeeps ==
  ASSUME IInv, UNCHANGED vars
  PROVE  IInv'
<1>. USE DEF vars, treeVars, runVars, fiberVars
<1>1. Closure' = Closure
  BY DEF Closure
<1>2. \A c \in Closure : Live(c)' <=> Live(c)
  BY DEF Live, Hand
<1>3. \A c \in Closure : Entering(c)' <=> Entering(c)
  BY DEF Entering
<1>4. Typed'
  BY <1>1 DEF IInv, Typed, TypedTree, TypedRun, TypedRuntime, Deques
<1>5. \A w \in Worker : HandInv(w)' /\ PlaceInv(w)'
  BY DEF IInv, HandInv, PlaceInv
<1>6. OneHand'
  BY DEF IInv, OneHand, Hand
<1>7. CallInv'
  BY <1>1, <1>2 DEF IInv, CallInv
<1>8. ParentInv' /\ EnteredInv'
  BY <1>1 DEF IInv, ParentInv, EnteredInv
<1>9. FrameInv'
  BY <1>1, <1>3 DEF IInv, FrameInv
<1>. QED  BY <1>4, <1>5, <1>6, <1>7, <1>8, <1>9 DEF IInv

(* Every step keeps the invariant.                                            *)
LEMMA NextKeeps == IInv /\ [Next]_vars => IInv'
<1>. SUFFICES ASSUME IInv, [Next]_vars  PROVE IInv'
  OBVIOUS
<1>1. ASSUME NEW w \in Worker, Acquire(w)  PROVE IInv'
  <2>1. CASE \E f \in Frame : SlowSync(w, f) \/ ReturnFullFrame(w, f) \/ EnterHandler(w, f)
    BY <2>1, SlowSyncKeeps, ReturnFullFrameKeeps, EnterHandlerKeeps
  <2>2. CASE \E c \in Closure : SyncNotReady(w, c) \/ SyncReady(w, c) \/ Handler(w, c)
    BY <2>2, SyncNotReadyKeeps, SyncReadyKeeps, HandlerKeeps
  <2>3. CASE \E c \in Closure : SetReturnChild(w, c) \/ ReturnChild(w, c)
    BY <2>3, SetReturnChildKeeps
  <2>4. CASE \E c \in Closure : Execute(w, c) \/ PushAndRun(w, c)
    BY <2>4, ExecuteKeeps, PushAndRunKeeps
  <2>5. CASE \E c \in Closure : \E p \in Closure : SetReturnParent(w, c, p) \/ ReturnParent(w, c, p)
    BY <2>5, SetReturnParentKeeps, ReturnParentKeeps
  <2>6. CASE Extract(w)
    BY <2>6, ExtractKeeps
  <2>. QED  BY <1>1, <2>1, <2>2, <2>3, <2>4, <2>5, <2>6, Zenon DEF Acquire
<1>2. ASSUME NEW w \in Worker, Proceed(w)  PROVE IInv'
  <2>1. CASE \E f \in Frame : \/ Spawn(w, f) \/ Call(w, f) \/ FastSync(w, f)
                              \/ ReturnToCaller(w, f) \/ PopParent(w, f)
    BY <2>1, SpawnKeeps, CallKeeps, FastSyncKeeps, ReturnToCallerKeeps, PopParentKeeps
  <2>2. CASE FinishRoot(w)
    BY <2>2, FinishRootKeeps
  <2>3. CASE \/ BackToRuntime(w) \/ HaveWork(w) \/ Exit(w)
             \/ \E v \in Worker : GiveUp(w, v) \/ ReleaseVictim(w, v)
    BY <2>3, RuntimeKeeps
  <2>4. CASE \E v \in Worker : \E c \in Closure : Promote(w, v, c)
    BY <2>4, PromoteKeeps
  <2>5. CASE \E y \in Closure : FinishPromote(w, y)
    BY <2>5, FinishFullFrameKeeps, FinishNewFrameKeeps
  <2>. QED  BY <1>2, <2>1, <2>2, <2>3, <2>4, <2>5, Zenon DEF Proceed
<1>3. ASSUME NEW w \in Worker, Steal(w)  PROVE IInv'
  BY <1>3, RuntimeKeeps DEF Steal
<1>4. CASE UNCHANGED vars
  BY <1>4, StutterKeeps
<1>. QED  BY <1>1, <1>2, <1>3, <1>4, Zenon DEF Next, Terminated

-----------------------------------------------------------------------------
(* What the invariant says of holders and of live closures.                   *)
LEMMA HoldersAre ==
  ASSUME IInv, NEW c \in Closure
  PROVE  /\ Holders(c) = {w \in Worker : Hand(w) = c}
         /\ Alive(c) <=> Live(c)
<1>1. ASSUME NEW w \in Worker
      PROVE  t[w] = c \/ c \in Range(deque[w]) <=> Hand(w) = c
  <2>1. NULL \notin Closure
    BY TreeIsSeq DEF IInv, Typed
  <2>2. CASE deque[w] # <<>>
    <3>1. deque[w] = <<Hand(w)>> /\ t[w] = NULL
      BY <2>2, HandIs
    <3>2. Range(deque[w]) = {Hand(w)}
      BY <3>1, OneEntry
    <3>. QED  BY <2>1, <3>1, <3>2
  <2>3. CASE deque[w] = <<>>
    <3>1. Range(deque[w]) = {}
      <4>1. deque[w] \in Seq({})
        BY <2>3
      <4>. QED  BY <2>3, <4>1, EmptyRange
    <3>2. Hand(w) = t[w]
      BY <2>3, HandIs
    <3>. QED  BY <3>1, <3>2
  <2>. QED  BY <2>2, <2>3
<1>2. Holders(c) = {w \in Worker : Hand(w) = c}
  BY <1>1, Zenon DEF Holders
<1>3. Alive(c) <=> Live(c)
  BY <1>2 DEF Alive, Live
<1>. QED  BY <1>2, <1>3

(* The invariant implies the two properties of the runs.                      *)
LEMMA HeldOnce == IInv => OnePlace
<1>. SUFFICES ASSUME IInv  PROVE OnePlace
  OBVIOUS
<1>1. ASSUME NEW c \in Closure  PROVE Cardinality(Holders(c)) <= 1
  <2>. DEFINE H == {w \in Worker : Hand(w) = c}
  <2>1. Holders(c) = H
    BY HoldersAre
  <2>2. CASE H = {}
    BY <2>1, <2>2, FS_EmptySet
  <2>3. CASE H # {}
    <3>1. PICK w \in H : TRUE
      BY <2>3
    <3>2. NULL \notin Closure
      BY TreeIsSeq DEF IInv, Typed
    <3>3. \A v \in H : v = w
      BY <3>1, <3>2 DEF IInv, OneHand
    <3>4. H = {w}
      BY <3>1, <3>3
    <3>. QED  BY <2>1, <3>4, FS_Singleton
  <2>. QED  BY <2>2, <2>3
<1>2. ASSUME NEW c \in Closure, cl[c].status = "SUSPENDED", NEW w \in Holders(c)
      PROVE  At(w, "promoted")
  <2>1. w \in Worker /\ Hand(w) = c
    BY HoldersAre
  <2>2. NULL \notin Closure
    BY TreeIsSeq DEF IInv, Typed
  <2>. QED  BY <1>2, <2>1, <2>2 DEF IInv, OneHand
<1>3. ASSUME NEW w \in Worker
      PROVE  /\ Len(deque[w]) <= 1
             /\ \A c \in Range(deque[w]) : cl[c].status \in {"RUNNING", "RETURNING"} /\ t[w] # c
  <2>0. NULL \notin Closure
    BY TreeIsSeq DEF IInv, Typed
  <2>1. CASE deque[w] # <<>>
    <3>1. /\ deque[w] = <<Hand(w)>> /\ t[w] = NULL /\ Hand(w) \in Closure
          /\ cl[Hand(w)].status \in {"RUNNING", "RETURNING"}
      BY <2>1, HandIs
    <3>2. Range(deque[w]) = {Hand(w)} /\ Len(deque[w]) = 1
      BY <3>1, OneEntry
    <3>. QED  BY <2>0, <3>1, <3>2
  <2>2. CASE deque[w] = <<>>
    <3>1. deque[w] \in Seq({})
      BY <2>2
    <3>2. Range(deque[w]) = {} /\ Len(deque[w]) = 0
      BY <2>2, <3>1, EmptyRange
    <3>. QED  BY <3>2
  <2>. QED  BY <2>1, <2>2
<1>. QED  BY <1>1, <1>2, <1>3 DEF OnePlace

(* A callee is live while its caller waits, and it is the only one.           *)
LEMMA WaitedFor == IInv => CallersWait
<1>. SUFFICES ASSUME IInv, NEW c \in Closure
              PROVE  LET callees == {d \in Closure : cl[d].call_parent = c /\ Alive(d)}
                     IN /\ Cardinality(callees) = IF cl[c].has_cilk_callee THEN 1 ELSE 0
                        /\ cl[c].has_cilk_callee => cl[c].status = "SUSPENDED"
  BY DEF CallersWait
<1>. DEFINE callees == {d \in Closure : cl[d].call_parent = c /\ Alive(d)}
<1>1. callees = {d \in Closure : cl[d].call_parent = c /\ Live(d)}
  BY HoldersAre
<1>2. NULL \notin Closure
  BY TreeIsSeq DEF IInv, Typed
<1>3. CASE cl[c].has_cilk_callee
  <2>1. cl[c].status = "SUSPENDED"
    BY <1>3 DEF IInv, CallInv
  <2>2. PICK d \in Closure : Live(d) /\ cl[d].call_parent = c
    BY <1>3 DEF IInv, CallInv
  <2>3. \A e \in callees : e = d
    BY <1>1, <1>2, <2>2 DEF IInv, CallInv
  <2>4. callees = {d}
    BY <1>1, <2>2, <2>3
  <2>5. Cardinality(callees) = 1
    BY <2>4, FS_Singleton
  <2>. QED  BY <1>3, <2>1, <2>5
<1>4. CASE ~cl[c].has_cilk_callee
  <2>1. callees = {}
    BY <1>1, <1>2, <1>4 DEF IInv, CallInv
  <2>2. Cardinality(callees) = 0
    BY <2>1, FS_EmptySet
  <2>. QED  BY <1>4, <2>2
<1>. QED  BY <1>3, <1>4

(* Two workers never run the same frame: a closure is in one worker's hand or *)
(* on one ready deque, or suspended and in neither, and a ready deque never   *)
(* holds more than one (OnePlace), for any program and any number of workers. *)
THEOREM ClosureInOnePlace == Spec => []OnePlace
<1>1. Init => IInv
  BY InitHolds
<1>2. IInv /\ [Next]_vars => IInv'
  BY NextKeeps
<1>3. IInv => OnePlace
  BY HeldOnce
<1>. QED  BY <1>1, <1>2, <1>3, PTL DEF Spec

(* A closure waits for a called child exactly while one is alive, and for one *)
(* only (CallersWait): wherever a frame's callers were when it was stolen, it *)
(* is linked into the chain of those that wait, and a provably good steal     *)
(* never resumes a caller under its callee.                                   *)
THEOREM CallersAlwaysWait == Spec => []CallersWait
<1>1. Init => IInv
  BY InitHolds
<1>2. IInv /\ [Next]_vars => IInv'
  BY NextKeeps
<1>3. IInv => CallersWait
  BY WaitedFor
<1>. QED  BY <1>1, <1>2, <1>3, PTL DEF Spec

-----------------------------------------------------------------------------
(* The program that the scheduler runs.                                       *)
(*                                                                            *)
(* A frame is active if its next instruction may be executed: it does not     *)
(* wait for a called function.  The inductive invariant FInv, on top of IInv, *)
(* says that every frame that a worker is at, or has on its shadow stack, or  *)
(* that somebody will resume, is active, and that no two of these are the     *)
(* same (TipInv); how the frames of one worker hang together (ChainInv) and   *)
(* with its closure (CoverInv, which matters when the stacklet is stolen);    *)
(* that the tree of closures follows the tree of frames (SpawnLink, CallLink, *)
(* OneClosure); that the join counter counts the children (CountInv); and, so *)
(* that a sync waits for what it must, where a spawned frame is that has not  *)
(* returned (SpawnInv) and that one outstanding makes the parent unsynced     *)
(* (KidsInv, UnsyncedInv).                                                    *)
(*                                                                            *)
(* Here FInv is shown to hold at the start and to survive the steps of a      *)
(* worker in user code and those of the runtime that leave the tree of        *)
(* closures as it is; SchedulerProgram_proof has the rest, and what follows   *)
(* from FInv.                                                                 *)

Called == Frame \ (Helper \union {Root})

(* The frame that began a frame's stacklet: a spawn helper, or the root.      *)
Oldest(f) == Last(Stacklet[f])

Over(f) == fr[f].at = End(f) + 1
Prev(f) == Body[f][fr[f].at - 1]
Active(f) == Running(f) /\ (fr[f].at > 1 => Prev(f) \in Helper \union {SYNC} \/ Over(Prev(f)))
AtSync(f) == fr[f].at < End(f) /\ Body[f][fr[f].at] = SYNC

(* The frames that worker w is at: the current one and, below it, those that  *)
(* go on when the one above has returned.                                     *)
Tips(w) ==
  IF pc[w] \in {"user", "sync", "set_return", "set_return_parent"}
  THEN Append(ltq[w], cur[w]) ELSE <<>>
Held(w) == Range(Tips(w))

(* A closure that somebody has in hand, or suspended at a sync: its frame     *)
(* goes on when it is resumed.                                                *)
Parked(c) ==
  /\ cl[c].frame # NULL /\ ~cl[c].has_cilk_callee
  /\ \/ cl[c].status = "SUSPENDED"
     \/ \E w \in Worker : /\ t[w] = c /\ cl[c].status # "RETURNING"
                          /\ pc[w] \notin {"set_return", "set_return_parent"}

(* How far the frames are: what was passed was entered, a caller waits for    *)
(* its callee, and the root has a closure from the start.                     *)
AtInv ==
  /\ \A f \in Frame : fr[f].at <= End(f) + 1
  /\ \A f \in Frame : \A i \in 1..Len(Body[f]) :
       i < fr[f].at /\ Body[f][i] # SYNC => fr[Body[f][i]].at # 0
  /\ \A g \in Called : Running(g) => fr[Caller(g)].at \in 2..End(Caller(g)) /\ Prev(Caller(g)) = g
  /\ fr[Root].stolen

TipInv ==
  /\ \A w \in Worker : IsInjective(Tips(w)) /\ \A f \in Held(w) : Active(f)
  /\ \A v, w \in Worker : v # w => Held(v) \intersect Held(w) = {}
  /\ \A c \in Closure : Parked(c) => /\ Active(cl[c].frame)
                                     /\ \A w \in Worker : cl[c].frame \notin Held(w)

(* The frames of f's stacklet have no closure, or x is the first that has.    *)
FreshIn(q, f) == \A g \in Range(Stacklet[f]) : ~q[g].stolen
CoversIn(q, x, f) ==
  \/ x = NULL /\ FreshIn(q, f)
  \/ x # NULL /\ \E k \in 1..Len(Stacklet[f]) :
       /\ Stacklet[f][k] = x /\ q[x].stolen
       /\ \A i \in 1..k-1 : ~q[Stacklet[f][i]].stolen
Fresh(f) == FreshIn(fr, f)
Covers(c, f) == CoversIn(fr, cl[c].frame, f)

(* Each frame of a worker spawned the stacklet of the next, and only the      *)
(* stacklet of the first may have closures.                                   *)
ChainInv(w) ==
  /\ pc[w] # "user" => ltq[w] = <<>>
  /\ \A i \in 1..Len(Tips(w)) - 1 :
       /\ fr[Tips(w)[i]].at > 1 /\ Prev(Tips(w)[i]) = Oldest(Tips(w)[i + 1])
       /\ Fresh(Tips(w)[i + 1])

(* The closure of the stacklet whose youngest frame is the first of a worker, *)
(* or that a thief is about to give closures.                                 *)
Upper(w) ==
  IF pc[w] \in {"user", "sync"} THEN Hand(w)
  ELSE IF pc[w] \in {"promoted", "finish"} /\ ~fr[cl[t[w]].frame].stolen THEN cl[t[w]].call_parent
  ELSE NULL
Lower(w) == IF pc[w] \in {"user", "sync"} THEN Tips(w)[1] ELSE cl[t[w]].frame
CoverInv(w) == Upper(w) # NULL => Covers(Upper(w), Lower(w))

(* The spawned frame that a closure is for.                                   *)
Begins(c, h) ==
  \/ cl[c].frame = h
  \/ cl[c].frame = NULL /\ \E w \in Worker : Upper(w) = c /\ Oldest(Lower(w)) = h
HasFrame(c, f) == c # NULL /\ cl[c].frame = f

SpawnLink ==
  \A c \in Closure : \A h \in Helper : Live(c) /\ Begins(c, h) => HasFrame(cl[c].spawn_parent, Caller(h))
CallLink ==
  \A c \in Closure : Live(c) /\ cl[c].frame \in Called /\ fr[cl[c].frame].stolen =>
    HasFrame(cl[c].call_parent, Caller(cl[c].frame))
OneClosure == \A c, d \in Closure : cl[c].frame = cl[d].frame /\ cl[c].frame # NULL => c = d

Kids(p) == {c \in Closure : cl[c].spawn_parent = p /\ Live(c)}
CountInv == \A p \in Closure : cl[p].spawn_parent # p /\ cl[p].join_counter = Cardinality(Kids(p))

BeingStolen(c) == \E w \in Worker : pc[w] \in {"promoted", "finish"} /\ t[w] = c
KidsInv == \A p \in Closure : Kids(p) # {} => fr[cl[p].frame].unsynced \/ BeingStolen(p)

UnsyncedInv == \A f \in Frame : fr[f].unsynced => fr[f].stolen

(* A spawned frame that has not returned is above another on a worker, or has *)
(* a closure that its parent's counts.                                        *)
SpawnInv ==
  \A h \in Helper : Running(h) =>
    \/ \E w \in Worker : \E i \in 1..Len(Tips(w)) - 1 : Oldest(Tips(w)[i + 1]) = h
    \/ \E c \in Closure : Live(c) /\ Begins(c, h)

(* What closures are, by their status, and workers, by where they are.        *)
StatusInv ==
  \A c \in Closure :
    /\ cl[c].status = "RETURNING" => cl[c].frame = NULL \/ Over(cl[c].frame)
    /\ cl[c].status = "SUSPENDED" /\ ~cl[c].has_cilk_callee => cl[c].frame # NULL /\ AtSync(cl[c].frame)
StageInv(w) ==
  /\ pc[w] = "sync" => AtSync(cur[w]) /\ fr[cur[w]].unsynced
  /\ pc[w] = "handler" => cl[Hand(w)].frame = NULL \/ Over(cl[Hand(w)].frame)
  /\ pc[w] \in {"back", "loop"} /\ deque[w] # <<>> /\ ~done => cl[Hand(w)].status = "RETURNING"
  /\ pc[w] \in {"set_return", "set_return_parent"} =>
       cl[t[w]].frame \in Called /\ Over(cl[t[w]].frame) /\ HasFrame(cl[t[w]].call_parent, cur[w])
  /\ pc[w] = "push" => cur[w] = cl[t[w]].frame
  /\ pc[w] = "return" => cl[t[w]].status = "RETURNING"
  /\ pc[w] \in {"promoted", "finish"} => cl[t[w]].status # "RETURNING"
  /\ good[w] => /\ pc[w] \in {"loop", "do", "push", "exit"} /\ t[w] # NULL
                /\ cl[t[w]].status # "RETURNING" /\ cl[t[w]].frame # NULL
                /\ AtSync(cl[t[w]].frame) /\ Kids(t[w]) = {}

FInv ==
  /\ IInv /\ AtInv /\ TipInv /\ (\A w \in Worker : ChainInv(w) /\ CoverInv(w) /\ StageInv(w))
  /\ SpawnLink /\ CallLink /\ OneClosure /\ CountInv /\ KidsInv /\ UnsyncedInv
  /\ SpawnInv /\ StatusInv
-----------------------------------------------------------------------------
(* Facts about programs and stacklets.                                        *)

(* A frame is entered in one place only.                                      *)
LEMMA Places ==
  ASSUME NEW f \in Frame \ {Root}
  PROVE  /\ Caller(f) \in Frame
         /\ \E i \in 1..Len(Body[Caller(f)]) : Body[Caller(f)][i] = f
         /\ \A h \in Frame : \A i \in 1..Len(Body[h]) : Body[h][i] = f => h = Caller(f)
         /\ \A h \in Frame : \A i, j \in 1..Len(Body[h]) : Body[h][i] = f /\ Body[h][j] = f => i = j
<1>1. PICK g \in Frame : \E i \in 1..Len(Body[g]) :
        Body[g][i] = f /\ \A h \in Frame : \A j \in 1..Len(Body[h]) : Body[h][j] = f => h = g /\ j = i
  BY ProgramAssumption
<1>2. PICK i \in 1..Len(Body[g]) :
        Body[g][i] = f /\ \A h \in Frame : \A j \in 1..Len(Body[h]) : Body[h][j] = f => h = g /\ j = i
  BY <1>1
<1>3. Caller(f) = g
  BY <1>2, Zenon DEF Caller
<1>. QED  BY <1>2, <1>3

LEMMA BodyFacts ==
  ASSUME NEW f \in Frame
  PROVE  /\ Body[f] \in Seq(Instr) /\ Len(Body[f]) \in Nat /\ End(f) = Len(Body[f]) + 1
         /\ \A i \in 1..Len(Body[f]) : Body[f][i] \in Instr /\ Body[f][i] # Root
<1>1. Body[f] \in Seq(Instr)
  BY ProgramAssumption
<1>2. \A i \in 1..Len(Body[f]) : Body[f][i] \in Instr
  BY <1>1, ElementOfSeq
<1>. QED  BY <1>1, <1>2, ProgramAssumption, LenProperties DEF End

LEMMA Kinds ==
  /\ Helper \subseteq Frame /\ Root \in Frame /\ Root \notin Helper /\ SYNC \notin Frame
  /\ NULL \notin Frame
  /\ \A f \in Frame : f \in Called \/ f \in Helper \/ f = Root
  /\ Called \subseteq Frame /\ Root \notin Called /\ \A h \in Helper : h \notin Called
BY ProgramAssumption, WorkerAssumption DEF Called

(* A stacklet is a frame and the stacklet of its caller, if it was called.    *)
LEMMA StackletOf ==
  ASSUME NEW f \in Frame
  PROVE  /\ Stacklet[f] \in Seq(Frame) /\ Len(Stacklet[f]) \in Nat \ {0} /\ Stacklet[f][1] = f
         /\ Stacklet[f] # <<>> /\ Range(Stacklet[f]) \subseteq Frame
         /\ Range(Stacklet[f]) = {Stacklet[f][i] : i \in 1..Len(Stacklet[f])}
         /\ Oldest(f) = Stacklet[f][Len(Stacklet[f])] /\ f \in Range(Stacklet[f])
         /\ f \notin Called => Stacklet[f] = <<f>> /\ Oldest(f) = f /\ Range(Stacklet[f]) = {f}
         /\ f \in Called =>
              /\ Caller(f) \in Frame
              /\ Len(Stacklet[f]) = Len(Stacklet[Caller(f)]) + 1
              /\ \A i \in 1..Len(Stacklet[Caller(f)]) : Stacklet[f][i + 1] = Stacklet[Caller(f)][i]
              /\ Oldest(f) = Oldest(Caller(f))
              /\ Range(Stacklet[f]) = {f} \union Range(Stacklet[Caller(f)])
<1>. DEFINE s == Stacklet[f]
<1>1. s \in Seq(Frame) /\ s = IF f \in Helper \union {Root} THEN <<f>> ELSE <<f>> \o Stacklet[Caller(f)]
  BY StackletAssumption
<1>2. CASE f \notin Called
  <2>1. s = <<f>>
    BY <1>1, <1>2 DEF Called
  <2>2. Len(s) = 1 /\ s[1] = f /\ s # <<>> /\ Last(s) = f /\ Range(s) = {f}
    BY <2>1, OneEntry
  <2>. QED  BY <1>1, <1>2, <2>1, <2>2 DEF Oldest
<1>3. CASE f \in Called
  <2>. DEFINE u == Stacklet[Caller(f)]
              a == <<f>>
  <2>1. Caller(f) \in Frame
    BY <1>3, Places DEF Called
  <2>2. u \in Seq(Frame) /\ s = a \o u /\ u # <<>>
    <3>1. u = IF Caller(f) \in Helper \union {Root} THEN <<Caller(f)>> ELSE <<Caller(f)>> \o Stacklet[Caller(Caller(f))]
      BY <2>1, StackletAssumption
    <3>2. u \in Seq(Frame)
      BY <2>1, StackletAssumption
    <3>3. u # <<>>
      <4>1. CASE Caller(f) \in Helper \union {Root}
        BY <3>1, <4>1, OneEntry
      <4>2. CASE Caller(f) \notin Helper \union {Root}
        <5>1. Stacklet[Caller(Caller(f))] \in Seq(Frame)
          <6>1. Caller(Caller(f)) \in Frame
            BY <2>1, <4>2, Places
          <6>. QED  BY <6>1, StackletAssumption
        <5>. DEFINE b == <<Caller(f)>>
                    e == Stacklet[Caller(Caller(f))]
        <5>2. b \in Seq(Frame) /\ Len(b) = 1
          BY <2>1
        <5>3. u = b \o e /\ e \in Seq(Frame)
          BY <3>1, <4>2, <5>1
        <5>. HIDE DEF b, e, u
        <5>4. Len(u) = 1 + Len(e) /\ Len(e) \in Nat
          <6>1. Len(e) \in Nat
            BY <5>3
          <6>2. Len(b \o e) = Len(b) + Len(e)
            BY <5>2, <5>3, ConcatProperties, ZenonT(60)
          <6>. QED  BY <5>2, <5>3, <6>1, <6>2
        <5>. QED  BY <3>2, <5>4, EmptySeq
      <4>. QED  BY <4>1, <4>2
    <3>. QED  BY <1>1, <1>3, <3>2, <3>3 DEF Called
  <2>3. a \in Seq(Frame) /\ Len(a) = 1 /\ a[1] = f /\ Range(a) = {f}
    BY OneEntry
  <2>. HIDE DEF u, a, s
  <2>4. /\ Len(s) = 1 + Len(u) /\ Len(u) \in Nat
        /\ \A i \in 1..(Len(a) + Len(u)) : s[i] = IF i <= Len(a) THEN a[i] ELSE u[i - Len(a)]
    <3>1. /\ Len(s) = Len(a) + Len(u) /\ Len(u) \in Nat
          /\ \A i \in 1..(Len(a) + Len(u)) : s[i] = IF i <= Len(a) THEN a[i] ELSE u[i - Len(a)]
      BY <2>2, <2>3, ConcatProperties, LenProperties, ZenonT(60)
    <3>. QED  BY <2>3, <3>1
  <2>5. s[1] = f
    BY <2>3, <2>4
  <2>6. \A i \in 1..Len(u) : s[i + 1] = u[i]
    <3>. SUFFICES ASSUME NEW i \in 1..Len(u)  PROVE s[i + 1] = u[i]
      OBVIOUS
    <3>1. i + 1 \in 1..(Len(a) + Len(u)) /\ ~(i + 1 <= Len(a)) /\ (i + 1) - Len(a) = i
      BY <2>3, <2>4
    <3>. QED  BY <2>4, <3>1
  <2>7. Len(u) # 0
    BY <2>2, <2>4, EmptySeq
  <2>8. Last(s) = s[Len(s)] /\ Last(u) = u[Len(u)]
    BY DEF Last
  <2>9. Last(s) = Last(u)
    <3>1. Len(u) \in 1..Len(u)
      BY <2>4, <2>7
    <3>. QED  BY <2>4, <2>6, <2>8, <3>1
  <2>10. Range(s) = Range(a) \union Range(u)
    BY <2>2, <2>3, RangeConcatenation
  <2>11. /\ Range(s) \subseteq Frame
         /\ Range(s) = {s[i] : i \in 1..Len(s)}
    <3>1. DOMAIN s = 1..Len(s)
      BY <1>1, LenProperties DEF s
    <3>2. Range(s) \subseteq Frame
      BY <1>1, RangeOfSeq DEF s
    <3>. QED  BY <3>1, <3>2 DEF Range
  <2>12. s # <<>>
    BY <2>4, <1>1, EmptySeq DEF s
  <2>13. /\ Len(s) \in Nat \ {0} /\ Len(s) = Len(u) + 1 /\ f \in Range(s)
         /\ Range(s) = {f} \union Range(u)
    BY <2>3, <2>4, <2>10
  <2>14. Oldest(f) = Last(s) /\ Oldest(Caller(f)) = Last(u)
    BY DEF Oldest, s, u
  <2>. USE DEF s, u
  <2>15. /\ s \in Seq(Frame) /\ Len(s) \in Nat \ {0} /\ s[1] = f /\ s # <<>>
         /\ Range(s) \subseteq Frame /\ Range(s) = {s[i] : i \in 1..Len(s)}
    BY <1>1, <2>5, <2>11, <2>12, <2>13
  <2>16. Oldest(f) = s[Len(s)] /\ f \in Range(s)
    BY <2>8, <2>13, <2>14
  <2>17. /\ Len(s) = Len(u) + 1 /\ \A i \in 1..Len(u) : s[i + 1] = u[i]
         /\ Oldest(f) = Oldest(Caller(f)) /\ Range(s) = {f} \union Range(u)
    BY <2>6, <2>9, <2>13, <2>14
  <2>. QED  BY <1>3, <2>1, <2>15, <2>16, <2>17
<1>. QED  BY <1>2, <1>3

(* Callers come before callees: what holds of a frame when it holds of its    *)
(* caller, holds of all.                                                      *)
LEMMA CallersFirst ==
  ASSUME NEW B, B \subseteq Frame, B # {}
  PROVE  \E g \in B : g \in Called => Caller(g) \in Frame /\ Caller(g) \notin B
<1>. DEFINE T == {Len(Stacklet[g]) : g \in B}
<1>1. T \subseteq Nat /\ T # {}
  <2>1. \A g \in B : Len(Stacklet[g]) \in Nat
    BY StackletOf
  <2>. QED  BY <2>1
<1>2. PICK x \in T : \A y \in T : x <= y
  BY <1>1, LeastNat
<1>3. PICK g \in B : x = Len(Stacklet[g])
  BY <1>2
<1>4. ASSUME g \in Called, Caller(g) \in B  PROVE FALSE
  <2>1. Len(Stacklet[g]) = Len(Stacklet[Caller(g)]) + 1 /\ Len(Stacklet[Caller(g)]) \in Nat
    BY <1>4, StackletOf
  <2>2. Len(Stacklet[Caller(g)]) \in T
    BY <1>4
  <2>. QED  BY <1>2, <1>3, <2>1, <2>2
<1>5. g \in Called => Caller(g) \in Frame
  BY StackletOf
<1>. QED  BY <1>4, <1>5

(* A stacklet begins with a spawn helper or the root, whoever looks; below it *)
(* come the frames that were called, each by the next.                        *)
LEMMA OldestIs ==
  \A f \in Frame : Oldest(f) \in Helper \union {Root} /\ Oldest(f) \in Frame /\ Oldest(f) \in Range(Stacklet[f])
<1>. DEFINE B == {f \in Frame : ~(Oldest(f) \in Helper \union {Root} /\ Oldest(f) \in Range(Stacklet[f]))}
<1>. SUFFICES ASSUME B # {}  PROVE FALSE
  BY Kinds
<1>1. PICK g \in B : g \in Called => Caller(g) \in Frame /\ Caller(g) \notin B
  <2>1. B \subseteq Frame
    OBVIOUS
  <2>. HIDE DEF B
  <2>. QED  BY <2>1, CallersFirst
<1>2. CASE g \in Called
  <2>1. Oldest(g) = Oldest(Caller(g)) /\ Range(Stacklet[g]) = {g} \union Range(Stacklet[Caller(g)])
    BY <1>2, StackletOf
  <2>. QED  BY <1>1, <1>2, <2>1
<1>3. CASE g \notin Called
  <2>1. Oldest(g) = g /\ g \in Range(Stacklet[g])
    BY <1>3, StackletOf
  <2>. QED  BY <1>3, <2>1 DEF Called
<1>. QED  BY <1>2, <1>3

LEMMA SameOldest ==
  \A f \in Frame : \A g \in Range(Stacklet[f]) : Oldest(g) = Oldest(f)
<1>. DEFINE B == {f \in Frame : ~\A g \in Range(Stacklet[f]) : Oldest(g) = Oldest(f)}
<1>. SUFFICES ASSUME B # {}  PROVE FALSE
  OBVIOUS
<1>1. PICK f \in B : f \in Called => Caller(f) \in Frame /\ Caller(f) \notin B
  <2>1. B \subseteq Frame
    OBVIOUS
  <2>. HIDE DEF B
  <2>. QED  BY <2>1, CallersFirst
<1>2. CASE f \in Called
  <2>1. Oldest(f) = Oldest(Caller(f)) /\ Range(Stacklet[f]) = {f} \union Range(Stacklet[Caller(f)])
    BY <1>2, StackletOf
  <2>. QED  BY <1>1, <1>2, <2>1
<1>3. CASE f \notin Called
  <2>1. Range(Stacklet[f]) = {f}
    BY <1>3, StackletOf
  <2>. QED  BY <1>1, <2>1
<1>. QED  BY <1>2, <1>3

LEMMA NextBelow ==
  \A f \in Frame : \A g \in Range(Stacklet[f]) : g # f => \E k \in Range(Stacklet[f]) \intersect Called : Caller(k) = g
<1>. DEFINE B == {f \in Frame : ~\A g \in Range(Stacklet[f]) :
                    g # f => \E k \in Range(Stacklet[f]) \intersect Called : Caller(k) = g}
<1>. SUFFICES ASSUME B # {}  PROVE FALSE
  OBVIOUS
<1>1. PICK f \in B : f \in Called => Caller(f) \in Frame /\ Caller(f) \notin B
  <2>1. B \subseteq Frame
    OBVIOUS
  <2>. HIDE DEF B
  <2>. QED  BY <2>1, CallersFirst
<1>2. PICK g \in Range(Stacklet[f]) : g # f /\ ~\E k \in Range(Stacklet[f]) \intersect Called : Caller(k) = g
  BY <1>1
<1>3. f \in Called
  <2>. SUFFICES ASSUME f \notin Called  PROVE FALSE
    OBVIOUS
  <2>1. Range(Stacklet[f]) = {f}
    BY StackletOf
  <2>. QED  BY <1>2, <2>1
<1>4. Range(Stacklet[f]) = {f} \union Range(Stacklet[Caller(f)]) /\ f \in Range(Stacklet[f])
  BY <1>3, StackletOf
<1>5. g # Caller(f)
  BY <1>2, <1>3, <1>4
<1>6. g \in Range(Stacklet[Caller(f)])
  BY <1>2, <1>4
<1>7. \E k \in Range(Stacklet[Caller(f)]) \intersect Called : Caller(k) = g
  BY <1>1, <1>3, <1>5, <1>6
<1>. QED  BY <1>2, <1>4, <1>7

-----------------------------------------------------------------------------
(* Frames that are under way.                                                 *)

LEMMA AtFacts ==
  ASSUME Typed
  PROVE  /\ fr \in [Frame -> FrameRecord]
         /\ \A f \in Frame : /\ fr[f].at \in Nat /\ fr[f].stolen \in BOOLEAN /\ fr[f].unsynced \in BOOLEAN
                             /\ Len(Body[f]) \in Nat /\ End(f) = Len(Body[f]) + 1
                             /\ (Running(f) <=> fr[f].at # 0 /\ fr[f].at <= Len(Body[f]) + 1)
                             /\ (Over(f) <=> fr[f].at = Len(Body[f]) + 2)
                             /\ ~(Running(f) /\ Over(f))
<1>1. fr \in [Frame -> FrameRecord]
  BY DEF Typed, TypedRun
<1>2. \A f \in Frame : fr[f].at \in Nat /\ fr[f].stolen \in BOOLEAN /\ fr[f].unsynced \in BOOLEAN
  BY <1>1 DEF FrameRecord
<1>3. \A f \in Frame : Len(Body[f]) \in Nat /\ End(f) = Len(Body[f]) + 1
  BY BodyFacts
<1>. QED  BY <1>1, <1>2, <1>3 DEF Running, Over

(* Below a frame that is under way, all are.                                  *)
LEMMA RunningBelow ==
  ASSUME Typed, AtInv
  PROVE  \A f \in Frame : Running(f) => \A g \in Range(Stacklet[f]) : g \in Frame /\ Running(g)
<1>. DEFINE B == {f \in Frame : ~(Running(f) => \A g \in Range(Stacklet[f]) : g \in Frame /\ Running(g))}
<1>. SUFFICES ASSUME B # {}  PROVE FALSE
  OBVIOUS
<1>1. PICK f \in B : f \in Called => Caller(f) \in Frame /\ Caller(f) \notin B
  <2>1. B \subseteq Frame
    OBVIOUS
  <2>. HIDE DEF B
  <2>. QED  BY <2>1, CallersFirst
<1>2. CASE f \in Called
  <2>1. fr[Caller(f)].at \in 2..End(Caller(f))
    BY <1>1, <1>2 DEF AtInv
  <2>2. Running(Caller(f))
    BY <1>1, <1>2, <2>1, AtFacts DEF Running
  <2>3. Range(Stacklet[f]) = {f} \union Range(Stacklet[Caller(f)])
    BY <1>2, StackletOf
  <2>. QED  BY <1>1, <1>2, <2>2, <2>3
<1>3. CASE f \notin Called
  <2>1. Range(Stacklet[f]) = {f}
    BY <1>3, StackletOf
  <2>. QED  BY <1>1, <2>1
<1>. QED  BY <1>2, <1>3

(* A caller waits: it is not active while its callee is under way.            *)
LEMMA CallerWaits ==
  ASSUME Typed, AtInv, NEW g \in Called, Running(g)
  PROVE  /\ Caller(g) \in Frame /\ Running(Caller(g)) /\ Prev(Caller(g)) = g
         /\ ~Active(Caller(g)) /\ fr[Caller(g)].at \in 2..End(Caller(g))
<1>1. fr[Caller(g)].at \in 2..End(Caller(g)) /\ Prev(Caller(g)) = g /\ Caller(g) \in Frame
  BY StackletOf, Kinds DEF AtInv
<1>2. Running(Caller(g)) /\ fr[Caller(g)].at > 1
  BY <1>1, AtFacts DEF Running
<1>3. ~Over(g) /\ g \notin Helper \union {SYNC}
  BY AtFacts, Kinds
<1>. QED  BY <1>1, <1>2, <1>3 DEF Active

(* A stacklet has one active frame.                                           *)
LEMMA OneActive ==
  ASSUME Typed, AtInv, NEW f \in Frame, NEW g \in Frame, Active(f), Active(g), Oldest(f) = Oldest(g)
  PROVE  f = g
<1>1. ASSUME NEW x \in Frame, NEW y \in Frame, Active(y), Running(x), Oldest(x) = Oldest(y)
      PROVE  x \in Range(Stacklet[y])
  <2>. DEFINE B == {z \in Frame : Running(z) /\ Oldest(z) = Oldest(y) /\ z \notin Range(Stacklet[y])}
  <2>. SUFFICES ASSUME B # {}  PROVE FALSE
    BY <1>1
  <2>1. PICK z \in B : z \in Called => Caller(z) \in Frame /\ Caller(z) \notin B
    <3>1. B \subseteq Frame
      OBVIOUS
    <3>. HIDE DEF B
    <3>. QED  BY <3>1, CallersFirst
  <2>2. CASE z \notin Called
    <3>1. z = Oldest(y)
      BY <2>1, <2>2, StackletOf
    <3>. QED  BY <2>1, <3>1, OldestIs
  <2>3. CASE z \in Called
    <3>1. Running(Caller(z)) /\ Prev(Caller(z)) = z /\ ~Active(Caller(z)) /\ Caller(z) \in Frame
      BY <2>1, <2>3, CallerWaits
    <3>2. Oldest(Caller(z)) = Oldest(y)
      BY <2>1, <2>3, StackletOf
    <3>3. Caller(z) \in Range(Stacklet[y]) /\ Caller(z) # y
      BY <1>1, <2>1, <2>3, <3>1, <3>2
    <3>4. PICK k \in Range(Stacklet[y]) \intersect Called : Caller(k) = Caller(z)
      BY <3>3, NextBelow
    <3>5. Running(k)
      BY <1>1, <3>4, RunningBelow DEF Active
    <3>6. Prev(Caller(k)) = k
      BY <3>4, <3>5, CallerWaits
    <3>. QED  BY <2>1, <3>1, <3>4, <3>6
  <2>. QED  BY <2>2, <2>3
<1>2. f \in Range(Stacklet[g])
  BY <1>1 DEF Active
<1>. SUFFICES ASSUME f # g  PROVE FALSE
  OBVIOUS
<1>3. PICK k \in Range(Stacklet[g]) \intersect Called : Caller(k) = f
  BY <1>2, NextBelow
<1>4. Running(k)
  BY <1>3, RunningBelow DEF Active
<1>. QED  BY <1>3, <1>4, CallerWaits

-----------------------------------------------------------------------------
(* What a step of a frame does to it and to the others: a frame is entered ...  *)
Enters(f, g) ==
  /\ Active(f) /\ NextInstr(f) = g /\ g \in Frame
  /\ fr' \in [Frame -> FrameRecord]
  /\ fr'[f].at = fr[f].at + 1 /\ fr'[f].stolen = fr[f].stolen /\ fr'[f].unsynced = fr[f].unsynced
  /\ fr'[g].at = 1 /\ ~fr'[g].stolen /\ ~fr'[g].unsynced
  /\ \A h \in Frame \ {f, g} : /\ fr'[h].at = fr[h].at /\ fr'[h].stolen = fr[h].stolen
                               /\ fr'[h].unsynced = fr[h].unsynced

(* ... or goes on, past a sync or its end.                                    *)
Advances(f) ==
  /\ Active(f) /\ (AtSync(f) \/ fr[f].at = End(f))
  /\ fr' \in [Frame -> FrameRecord]
  /\ fr'[f].at = fr[f].at + 1 /\ fr'[f].stolen = fr[f].stolen
  /\ (fr'[f].unsynced => fr[f].unsynced)
  /\ \A h \in Frame \ {f} : /\ fr'[h].at = fr[h].at /\ fr'[h].stolen = fr[h].stolen
                            /\ fr'[h].unsynced = fr[h].unsynced

LEMMA EnterAt ==
  ASSUME IInv, AtInv, UnsyncedInv, NEW f \in Frame, NEW g \in Frame, Enters(f, g)
  PROVE  /\ AtInv' /\ UnsyncedInv'
         /\ g # f /\ g # Root /\ Caller(g) = f /\ fr[g].at = 0 /\ ~Active(g) /\ Active(g)'
         /\ Prev(f)' = g /\ fr'[f].at > 1 /\ (g \in Helper => Active(f)')
         /\ \A h \in Frame \ {f} : Active(h) => Active(h)' /\ Prev(h)' = Prev(h)
         /\ \A h \in Frame : /\ (Over(h) <=> Over(h)') /\ (fr[h].at # 0 => fr'[h].stolen = fr[h].stolen)
                             /\ (fr[h].at # 0 => fr'[h].at # 0)
                             /\ (fr[h].at # 0 => (fr'[h].unsynced <=> fr[h].unsynced))
<1>. DEFINE n == Len(Body[f])
<1>0. Typed
  BY DEF IInv
<1>1. /\ \A h \in Frame : /\ fr[h].at \in Nat /\ Len(Body[h]) \in Nat /\ End(h) = Len(Body[h]) + 1
                          /\ (Running(h) <=> fr[h].at # 0 /\ fr[h].at <= Len(Body[h]) + 1)
                          /\ (Over(h) <=> fr[h].at = Len(Body[h]) + 2) /\ ~(Running(h) /\ Over(h))
  BY <1>0, AtFacts
<1>2. Running(f) /\ fr[f].at # 0
  BY <1>1 DEF Enters, Active
<1>3. /\ fr[f].at \in 1..n /\ Body[f][fr[f].at] = g /\ g # f /\ g # Root /\ Caller(g) = f /\ fr[g].at = 0
  BY <1>2, NextFrame DEF Enters
<1>4. /\ fr'[f].at = fr[f].at + 1 /\ fr'[g].at = 1 /\ \A h \in Frame \ {f, g} : fr'[h].at = fr[h].at
  BY DEF Enters
<1>5. /\ \A h \in Frame : /\ fr'[h].at \in Nat
                          /\ (Running(h)' <=> fr'[h].at # 0 /\ fr'[h].at <= Len(Body[h]) + 1)
                          /\ (Over(h)' <=> fr'[h].at = Len(Body[h]) + 2)
  <2>1. \A h \in Frame : fr'[h].at \in Nat
    BY DEF Enters, FrameRecord
  <2>. QED  BY <1>1, <2>1 DEF Running, Over
<1>6. Prev(f)' = g
  BY <1>1, <1>3, <1>4 DEF Prev
<1>7. \A h \in Frame \ {f, g} : Prev(h)' = Prev(h) /\ (Running(h)' <=> Running(h))
  BY <1>1, <1>4, <1>5 DEF Prev
<1>8. \A h \in Frame : Over(h) <=> Over(h)'
  <2>. TAKE h \in Frame
  <2>1. CASE h = f
    BY <1>1, <1>3, <1>4, <1>5, <2>1
  <2>2. CASE h = g
    BY <1>1, <1>3, <1>4, <1>5, <2>2
  <2>3. CASE h # f /\ h # g
    BY <1>1, <1>4, <1>5, <2>3
  <2>. QED  BY <2>1, <2>2, <2>3
<1>9. Active(g)' /\ ~Active(g)
  BY <1>1, <1>3, <1>4, <1>5 DEF Active
<1>10. fr'[f].at > 1 /\ Running(f)' /\ (g \in Helper => Active(f)')
  BY <1>1, <1>3, <1>4, <1>5, <1>6, SMTT(30) DEF Active
<1>11. \A h \in Frame \ {f} : Active(h) => Active(h)' /\ Prev(h)' = Prev(h)
  <2>. SUFFICES ASSUME NEW h \in Frame \ {f}, Active(h)  PROVE Active(h)' /\ Prev(h)' = Prev(h)
    OBVIOUS
  <2>1. h # g
    BY <1>9
  <2>2. Running(h)' /\ Prev(h)' = Prev(h) /\ fr'[h].at = fr[h].at
    BY <1>4, <1>7, <2>1 DEF Active
  <2>3. ASSUME fr'[h].at > 1, Prev(h) \notin Helper \union {SYNC}  PROVE Over(Prev(h))'
    <3>1. Over(Prev(h)) /\ fr[h].at > 1
      BY <2>2, <2>3 DEF Active
    <3>2. fr[h].at - 1 \in 1..Len(Body[h])
      BY <1>1, <3>1 DEF Active
    <3>3. Prev(h) \in Frame
      BY <2>3, <3>2, BodyFacts DEF Prev, Instr
    <3>. QED  BY <1>8, <2>2, <3>1, <3>3
  <2>. QED  BY <2>2, <2>3 DEF Active
<1>11a. Active(f) /\ Typed
  BY <1>0 DEF Enters
<1>12. \A k \in Called : Running(k)' => fr'[Caller(k)].at \in 2..End(Caller(k)) /\ Prev(Caller(k))' = k
  <2>. SUFFICES ASSUME NEW k \in Called, Running(k)'
                PROVE  fr'[Caller(k)].at \in 2..End(Caller(k)) /\ Prev(Caller(k))' = k
    OBVIOUS
  <2>1. CASE k = g
    BY <1>1, <1>3, <1>4, <1>6, <2>1, SMTT(30)
  <2>2. CASE k # g
    <3>1. Running(k) /\ k \in Frame
      BY <1>2, <1>7, <2>2, Kinds
    <3>2. /\ Caller(k) \in Frame /\ ~Active(Caller(k)) /\ Prev(Caller(k)) = k
          /\ fr[Caller(k)].at \in 2..End(Caller(k))
      BY <1>0, <3>1, CallerWaits
    <3>3. Caller(k) # f
      BY <1>11a, <3>2
    <3>4. Caller(k) # g
      BY <1>1, <1>3, <3>2
    <3>. QED  BY <1>4, <1>7, <3>2, <3>3, <3>4
  <2>. QED  BY <2>1, <2>2
<1>13. \A h \in Frame : fr'[h].at <= End(h) + 1
  <2>. TAKE h \in Frame
  <2>1. CASE h = f
    BY <1>1, <1>3, <1>4, <2>1
  <2>2. CASE h = g
    BY <1>1, <1>3, <1>4, <2>2
  <2>3. CASE h # f /\ h # g
    BY <1>4, <2>3 DEF AtInv
  <2>. QED  BY <2>1, <2>2, <2>3
<1>14. \A h \in Frame : fr[h].at # 0 => fr'[h].at # 0
  BY <1>1, <1>4
<1>15. \A h \in Frame : \A i \in 1..Len(Body[h]) :
         i < fr'[h].at /\ Body[h][i] # SYNC => fr'[Body[h][i]].at # 0
  <2>. SUFFICES ASSUME NEW h \in Frame, NEW i \in 1..Len(Body[h]), i < fr'[h].at, Body[h][i] # SYNC
                PROVE  fr'[Body[h][i]].at # 0
    OBVIOUS
  <2>1. Body[h][i] \in Frame
    BY BodyFacts DEF Instr
  <2>2. CASE i < fr[h].at
    BY <1>14, <2>1, <2>2 DEF AtInv
  <2>3. CASE ~(i < fr[h].at)
    <3>1. h # g
      BY <1>4, <1>1, <2>3
    <3>2. h = f /\ i = fr[f].at
      BY <1>1, <1>4, <2>3, <3>1
    <3>. QED  BY <1>3, <1>4, <3>2
  <2>. QED  BY <2>2, <2>3
<1>16. fr'[Root].stolen
  BY <1>3, Kinds DEF AtInv, Enters
<1>17. AtInv'
  BY <1>12, <1>13, <1>15, <1>16 DEF AtInv
<1>18. UnsyncedInv'
  BY DEF UnsyncedInv, Enters
<1>19. \A h \in Frame : fr[h].at # 0 => fr'[h].stolen = fr[h].stolen /\ (fr'[h].unsynced <=> fr[h].unsynced)
  BY <1>3 DEF Enters
<1>. QED  BY <1>3, <1>6, <1>8, <1>9, <1>10, <1>11, <1>14, <1>17, <1>18, <1>19

LEMMA AdvanceAt ==
  ASSUME IInv, AtInv, UnsyncedInv, NEW f \in Frame, Advances(f)
  PROVE  /\ AtInv' /\ UnsyncedInv' /\ Running(f)
         /\ fr[f].at # End(f) => Active(f)'
         /\ fr[f].at = End(f) => Over(f)' /\ (f \in Called => /\ Caller(f) # f /\ ~Active(Caller(f))
                                                              /\ Active(Caller(f))')
         /\ \A h \in Frame \ {f} : Active(h) => Active(h)' /\ Prev(h)' = Prev(h)
         /\ \A h \in Frame : /\ (Over(h) => Over(h)') /\ fr'[h].stolen = fr[h].stolen
                             /\ (fr[h].at # 0 => fr'[h].at # 0) /\ (Running(h)' => Running(h))
                             /\ (fr'[h].unsynced => fr[h].unsynced)
<1>0. Typed
  BY DEF IInv
<1>1. /\ \A h \in Frame : /\ fr[h].at \in Nat /\ Len(Body[h]) \in Nat /\ End(h) = Len(Body[h]) + 1
                          /\ (Running(h) <=> fr[h].at # 0 /\ fr[h].at <= Len(Body[h]) + 1)
                          /\ (Over(h) <=> fr[h].at = Len(Body[h]) + 2) /\ ~(Running(h) /\ Over(h))
  BY <1>0, AtFacts
<1>2. Running(f) /\ fr[f].at # 0 /\ Active(f) /\ (AtSync(f) \/ fr[f].at = End(f))
  BY <1>1 DEF Advances, Active
<1>3. /\ fr[f].at \in 1..Len(Body[f]) + 1
      /\ fr[f].at # End(f) => fr[f].at \in 1..Len(Body[f]) /\ Body[f][fr[f].at] = SYNC
  BY <1>1, <1>2 DEF AtSync
<1>4. /\ fr'[f].at = fr[f].at + 1 /\ \A h \in Frame \ {f} : fr'[h].at = fr[h].at
  BY DEF Advances
<1>5. /\ \A h \in Frame : /\ fr'[h].at \in Nat
                          /\ (Running(h)' <=> fr'[h].at # 0 /\ fr'[h].at <= Len(Body[h]) + 1)
                          /\ (Over(h)' <=> fr'[h].at = Len(Body[h]) + 2)
  BY <1>1, <1>3, <1>4 DEF Running, Over
<1>7. \A h \in Frame \ {f} : Prev(h)' = Prev(h) /\ (Running(h)' <=> Running(h))
  BY <1>1, <1>4, <1>5 DEF Prev
<1>8. \A h \in Frame : Over(h) => Over(h)'
  BY <1>1, <1>2, <1>4, <1>5
<1>9. fr[f].at # End(f) => Active(f)'
  <2>. SUFFICES ASSUME fr[f].at # End(f)  PROVE Active(f)'
    OBVIOUS
  <2>1. Running(f)'
    BY <1>1, <1>3, <1>4, <1>5
  <2>2. Prev(f)' = SYNC
    BY <1>1, <1>3, <1>4 DEF Prev
  <2>. QED  BY <2>1, <2>2 DEF Active
<1>10. fr[f].at = End(f) => Over(f)'
  BY <1>1, <1>4, <1>5
<1>11. \A h \in Frame \ {f} : Active(h) => Active(h)' /\ Prev(h)' = Prev(h)
  <2>. SUFFICES ASSUME NEW h \in Frame \ {f}, Active(h)  PROVE Active(h)' /\ Prev(h)' = Prev(h)
    OBVIOUS
  <2>2. Running(h)' /\ Prev(h)' = Prev(h) /\ fr'[h].at = fr[h].at
    BY <1>4, <1>7 DEF Active
  <2>3. ASSUME fr'[h].at > 1, Prev(h) \notin Helper \union {SYNC}  PROVE Over(Prev(h))'
    <3>1. Over(Prev(h)) /\ fr[h].at > 1
      BY <2>2, <2>3 DEF Active
    <3>2. fr[h].at - 1 \in 1..Len(Body[h])
      BY <1>1, <3>1 DEF Active
    <3>3. Prev(h) \in Frame
      BY <2>3, <3>2, BodyFacts DEF Prev, Instr
    <3>. QED  BY <1>8, <2>2, <3>1, <3>3
  <2>. QED  BY <2>2, <2>3 DEF Active
<1>12. ASSUME NEW k \in Called, Running(k)
       PROVE  /\ Caller(k) \in Frame \ {f} /\ ~Active(Caller(k)) /\ Prev(Caller(k)) = k
              /\ fr[Caller(k)].at \in 2..End(Caller(k))
              /\ fr'[Caller(k)].at = fr[Caller(k)].at /\ Prev(Caller(k))' = k
  <2>1. /\ Caller(k) \in Frame /\ ~Active(Caller(k)) /\ Prev(Caller(k)) = k
        /\ fr[Caller(k)].at \in 2..End(Caller(k))
    BY <1>0, <1>12, CallerWaits
  <2>2. Caller(k) # f
    BY <1>2, <2>1
  <2>. QED  BY <1>4, <1>7, <2>1, <2>2
<1>13. fr[f].at = End(f) /\ f \in Called => Caller(f) # f /\ ~Active(Caller(f)) /\ Active(Caller(f))'
  <2>. SUFFICES ASSUME fr[f].at = End(f), f \in Called
                PROVE  Caller(f) # f /\ ~Active(Caller(f)) /\ Active(Caller(f))'
    OBVIOUS
  <2>1. /\ Caller(f) \in Frame \ {f} /\ ~Active(Caller(f))
        /\ fr'[Caller(f)].at \in 2..End(Caller(f)) /\ Prev(Caller(f))' = f
    BY <1>2, <1>12
  <2>2. Running(Caller(f))'
    BY <1>1, <1>5, <2>1
  <2>. QED  BY <1>10, <2>1, <2>2 DEF Active
<1>14. \A h \in Frame : (fr[h].at # 0 => fr'[h].at # 0) /\ (Running(h)' => Running(h))
  BY <1>1, <1>2, <1>4, <1>7
<1>15. \A h \in Frame : \A i \in 1..Len(Body[h]) :
         i < fr'[h].at /\ Body[h][i] # SYNC => fr'[Body[h][i]].at # 0
  <2>. SUFFICES ASSUME NEW h \in Frame, NEW i \in 1..Len(Body[h]), i < fr'[h].at, Body[h][i] # SYNC
                PROVE  fr'[Body[h][i]].at # 0
    OBVIOUS
  <2>1. Body[h][i] \in Frame
    BY BodyFacts DEF Instr
  <2>2. i < fr[h].at
    BY <1>1, <1>3, <1>4
  <2>. QED  BY <1>14, <2>1, <2>2 DEF AtInv
<1>16. \A h \in Frame : /\ fr'[h].stolen = fr[h].stolen /\ (fr'[h].unsynced => fr[h].unsynced)
  BY DEF Advances
<1>17. \A h \in Frame : fr'[h].at <= End(h) + 1
  BY <1>1, <1>3, <1>4 DEF AtInv
<1>18. \A k \in Called : Running(k)' => fr'[Caller(k)].at \in 2..End(Caller(k)) /\ Prev(Caller(k))' = k
  BY <1>12, <1>14, Kinds
<1>19. fr'[Root].stolen
  BY <1>16, Kinds DEF AtInv
<1>20. AtInv'
  BY <1>15, <1>17, <1>18, <1>19 DEF AtInv
<1>21. UnsyncedInv'
  BY <1>16 DEF UnsyncedInv
<1>. QED  BY <1>2, <1>8, <1>9, <1>10, <1>11, <1>13, <1>14, <1>16, <1>20, <1>21

-----------------------------------------------------------------------------
(* Stacklets and the closures over them.                                      *)

LEMMA CoverKept ==
  ASSUME NEW f \in Frame, NEW q, NEW r, \A g \in Range(Stacklet[f]) : q[g].stolen = r[g].stolen
  PROVE  /\ FreshIn(q, f) => FreshIn(r, f)
         /\ \A x : CoversIn(q, x, f) => CoversIn(r, x, f)
<1>1. FreshIn(q, f) => FreshIn(r, f)
  BY DEF FreshIn
<1>2. ASSUME NEW x, x # NULL, NEW k \in 1..Len(Stacklet[f]), Stacklet[f][k] = x, q[x].stolen,
             \A i \in 1..k-1 : ~q[Stacklet[f][i]].stolen
      PROVE  CoversIn(r, x, f)
  <2>0. Range(Stacklet[f]) = {Stacklet[f][i] : i \in 1..Len(Stacklet[f])}
    BY StackletOf
  <2>1. \A i \in 1..Len(Stacklet[f]) : Stacklet[f][i] \in Range(Stacklet[f])
    BY <2>0
  <2>2. \A i \in 1..k-1 : i \in 1..Len(Stacklet[f])
    BY StackletOf
  <2>3. \A i \in 1..k-1 : ~r[Stacklet[f][i]].stolen
    BY <1>2, <2>1, <2>2
  <2>4. r[x].stolen
    BY <1>2, <2>1
  <2>. QED  BY <1>2, <2>3, <2>4 DEF CoversIn
<1>. QED  BY <1>1, <1>2 DEF CoversIn

(* A called frame without a closure is covered as its caller is.              *)
LEMMA CoverShift ==
  ASSUME NEW f \in Called, NEW q, ~q[f].stolen
  PROVE  /\ FreshIn(q, f) <=> FreshIn(q, Caller(f))
         /\ \A x : CoversIn(q, x, f) <=> CoversIn(q, x, Caller(f))
<1>. DEFINE s == Stacklet[f]
            u == Stacklet[Caller(f)]
<1>1. /\ Len(s) = Len(u) + 1 /\ Len(u) \in Nat /\ s[1] = f /\ Range(s) = {f} \union Range(u)
      /\ \A i \in 1..Len(u) : s[i + 1] = u[i]
  BY StackletOf, Kinds
<1>2. FreshIn(q, f) <=> FreshIn(q, Caller(f))
  BY <1>1 DEF FreshIn
<1>. HIDE DEF s, u
<1>3. ASSUME NEW x, NEW k \in 1..Len(s), s[k] = x, q[x].stolen, \A i \in 1..k-1 : ~q[s[i]].stolen
      PROVE  \E j \in 1..Len(u) : u[j] = x /\ q[x].stolen /\ \A i \in 1..j-1 : ~q[u[i]].stolen
  <2>1. k # 1
    BY <1>1, <1>3
  <2>2. k - 1 \in 1..Len(u) /\ u[k - 1] = x
    <3>1. k - 1 \in 1..Len(u) /\ (k - 1) + 1 = k
      BY <1>1, <2>1
    <3>. QED  BY <1>1, <1>3, <3>1
  <2>3. \A i \in 1..(k - 1)-1 : ~q[u[i]].stolen
    <3>. TAKE i \in 1..(k - 1)-1
    <3>1. i + 1 \in 1..k-1 /\ i \in 1..Len(u)
      BY <1>1, <2>1
    <3>. QED  BY <1>1, <1>3, <3>1
  <2>. QED  BY <1>3, <2>2, <2>3
<1>4. ASSUME NEW x, NEW j \in 1..Len(u), u[j] = x, q[x].stolen, \A i \in 1..j-1 : ~q[u[i]].stolen
      PROVE  \E k \in 1..Len(s) : s[k] = x /\ q[x].stolen /\ \A i \in 1..k-1 : ~q[s[i]].stolen
  <2>1. j + 1 \in 1..Len(s) /\ s[j + 1] = x
    BY <1>1, <1>4
  <2>2. \A i \in 1..(j + 1)-1 : ~q[s[i]].stolen
    <3>. TAKE i \in 1..(j + 1)-1
    <3>1. CASE i = 1
      BY <1>1, <3>1
    <3>2. CASE i # 1
      <4>1. i - 1 \in 1..j-1 /\ i - 1 \in 1..Len(u) /\ (i - 1) + 1 = i
        BY <1>1, <3>2
      <4>. QED  BY <1>1, <1>4, <4>1
    <3>. QED  BY <3>1, <3>2
  <2>. QED  BY <1>4, <2>1, <2>2
<1>5. ASSUME NEW x  PROVE CoversIn(q, x, f) <=> CoversIn(q, x, Caller(f))
  <2>1. (\E k \in 1..Len(s) : s[k] = x /\ q[x].stolen /\ \A i \in 1..k-1 : ~q[s[i]].stolen)
        <=> \E k \in 1..Len(u) : u[k] = x /\ q[x].stolen /\ \A i \in 1..k-1 : ~q[u[i]].stolen
    BY <1>3, <1>4
  <2>. QED  BY <1>2, <2>1, Zenon DEF CoversIn, s, u
<1>. QED  BY <1>2, <1>5

(* A frame that has a closure is covered by its own.                          *)
LEMMA CoverTop ==
  ASSUME NEW f \in Frame, NEW q
  PROVE  /\ q[f].stolen => CoversIn(q, f, f) /\ ~FreshIn(q, f)
         /\ \A x : CoversIn(q, x, f) /\ q[f].stolen => x = f
         /\ CoversIn(q, f, f) => q[f].stolen
         /\ \A x : CoversIn(q, x, f) => x = NULL \/ (x \in Range(Stacklet[f]) /\ q[x].stolen)
         /\ f \notin Called => \A x : CoversIn(q, x, f) => x = NULL \/ x = f
<1>1. /\ Stacklet[f][1] = f /\ Len(Stacklet[f]) \in Nat \ {0} /\ f \in Range(Stacklet[f]) /\ f # NULL
      /\ Range(Stacklet[f]) = {Stacklet[f][i] : i \in 1..Len(Stacklet[f])}
  BY StackletOf, Kinds
<1>2. q[f].stolen => CoversIn(q, f, f) /\ ~FreshIn(q, f)
  <2>1. 1 \in 1..Len(Stacklet[f]) /\ \A i \in 1..1-1 : FALSE
    BY <1>1
  <2>. QED  BY <1>1, <2>1 DEF CoversIn, FreshIn
<1>3. ASSUME NEW x, CoversIn(q, x, f), q[f].stolen  PROVE x = f
  <2>1. ~FreshIn(q, f)
    BY <1>2, <1>3
  <2>2. PICK k \in 1..Len(Stacklet[f]) : Stacklet[f][k] = x /\ \A i \in 1..k-1 : ~q[Stacklet[f][i]].stolen
    BY <1>3, <2>1 DEF CoversIn
  <2>3. CASE k = 1
    BY <1>1, <2>2, <2>3
  <2>4. CASE k # 1
    <3>1. 1 \in 1..k-1
      BY <1>1, <2>4
    <3>. QED  BY <1>1, <1>3, <2>2, <3>1
  <2>. QED  BY <2>3, <2>4
<1>4. CoversIn(q, f, f) => q[f].stolen
  BY <1>1 DEF CoversIn
<1>5. \A x : CoversIn(q, x, f) => x = NULL \/ (x \in Range(Stacklet[f]) /\ q[x].stolen)
  BY <1>1 DEF CoversIn
<1>6. f \notin Called => \A x : CoversIn(q, x, f) => x = NULL \/ x = f
  <2>1. f \notin Called => Range(Stacklet[f]) = {f}
    BY StackletOf
  <2>. QED  BY <1>5, <2>1
<1>. QED  BY <1>2, <1>3, <1>4, <1>5, <1>6

(* The frames of a worker.                                                    *)
AtFrames == {"user", "sync", "set_return", "set_return_parent"}

LEMMA TipsAre ==
  ASSUME Typed, NEW w \in Worker, PlaceInv(w)
  PROVE  /\ Tips(w) \in Seq(Frame) /\ Held(w) \subseteq Frame
         /\ pc[w] \notin AtFrames => Tips(w) = <<>> /\ Len(Tips(w)) = 0 /\ Held(w) = {}
         /\ pc[w] \in AtFrames =>
              /\ cur[w] \in Frame /\ ltq[w] \in Seq(Frame) /\ Len(ltq[w]) \in Nat
              /\ Tips(w) = Append(ltq[w], cur[w]) /\ Len(Tips(w)) = Len(ltq[w]) + 1
              /\ Tips(w)[Len(Tips(w))] = cur[w] /\ \A i \in 1..Len(ltq[w]) : Tips(w)[i] = ltq[w][i]
              /\ Held(w) = Range(ltq[w]) \union {cur[w]} /\ Held(w) = {Tips(w)[i] : i \in 1..Len(Tips(w))}
              /\ Tips(w)[1] \in Held(w) /\ (ltq[w] = <<>> => Tips(w)[1] = cur[w] /\ Tips(w) = <<cur[w]>>)
<1>1. CASE pc[w] \notin AtFrames
  <2>1. Tips(w) = <<>> /\ <<>> \in Seq(Frame)
    BY <1>1 DEF Tips, AtFrames
  <2>2. Range(Tips(w)) = {}
    BY <2>1, EmptyRange
  <2>3. Len(Tips(w)) = 0
    BY <2>1, OneEntry
  <2>. QED  BY <1>1, <2>1, <2>2, <2>3 DEF Held
<1>2. CASE pc[w] \in AtFrames
  <2>1. Tips(w) = Append(ltq[w], cur[w])
    BY <1>2 DEF Tips, AtFrames
  <2>2. cur[w] \in Frame /\ ltq[w] \in Seq(Frame)
    <3>1. pc[w] \in {"user", "sync", "push", "set_return", "set_return_parent"}
      BY <1>2 DEF AtFrames
    <3>. QED  BY <3>1 DEF PlaceInv, Typed, TypedRun
  <2>3. /\ Tips(w) \in Seq(Frame) /\ Len(ltq[w]) \in Nat /\ Len(Tips(w)) = Len(ltq[w]) + 1
        /\ Tips(w)[Len(ltq[w]) + 1] = cur[w] /\ \A i \in 1..Len(ltq[w]) : Tips(w)[i] = ltq[w][i]
    BY <2>1, <2>2, PushFacts
  <2>4. Held(w) = Range(ltq[w]) \union {cur[w]} /\ Held(w) \subseteq Frame
    <3>1. Range(Tips(w)) = Range(ltq[w]) \union {cur[w]}
      BY <2>1, <2>2, PushRange
    <3>2. Range(Tips(w)) \subseteq Frame
      BY <2>3, RangeOfSeq
    <3>. QED  BY <3>1, <3>2 DEF Held
  <2>5. Held(w) = {Tips(w)[i] : i \in 1..Len(Tips(w))}
    <3>1. DOMAIN Tips(w) = 1..Len(Tips(w))
      BY <2>3, LenProperties
    <3>. QED  BY <3>1 DEF Held, Range
  <2>6. Tips(w)[1] \in Held(w)
    <3>1. 1 \in 1..Len(Tips(w))
      BY <2>3
    <3>. QED  BY <2>5, <3>1
  <2>7. ltq[w] = <<>> => Tips(w)[1] = cur[w] /\ Tips(w) = <<cur[w]>>
    <3>1. Append(<<>>, cur[w]) = <<cur[w]>> /\ <<cur[w]>>[1] = cur[w]
      BY OneEntry
    <3>. QED  BY <2>1, <3>1
  <2>8. Tips(w)[Len(Tips(w))] = cur[w]
    BY <2>3
  <2>. QED  BY <1>2, <2>1, <2>2, <2>3, <2>4, <2>5, <2>6, <2>7, <2>8
<1>. QED  BY <1>1, <1>2

-----------------------------------------------------------------------------
(* Initially the root waits in the hand of Boss.                              *)
LEMMA FInitHolds == Init => FInv
<1>. SUFFICES ASSUME Init  PROVE FInv
  OBVIOUS
<1>0. IInv
  BY InitHolds
<1>1. Typed /\ \A w \in Worker : HandInv(w) /\ PlaceInv(w)
  BY <1>0 DEF IInv
<1>2. cl[1].frame = Root /\ cl[1].status = "READY" /\ cl[1].spawn_parent = NULL /\ cl[1].call_parent = NULL
      /\ cl[1].join_counter = 0 /\ ~cl[1].has_cilk_callee /\ Closure = {1} /\ 1 # NULL
  <2>. DEFINE main == [Closure_init("READY") EXCEPT !.frame = Root, !.fiber = 1]
  <2>1. cl = <<main>>
    BY DEF Init
  <2>2. /\ main.frame = Root /\ main.status = "READY" /\ main.spawn_parent = NULL /\ main.call_parent = NULL
        /\ main.join_counter = 0 /\ ~main.has_cilk_callee
    BY DEF Closure_init
  <2>. HIDE DEF main
  <2>3. cl[1] = main /\ Closure = {1}
    BY <2>1 DEF Closure
  <2>. QED  BY <2>2, <2>3, WorkerAssumption
<1>3. /\ fr[Root].at = 1 /\ fr[Root].stolen /\ ~fr[Root].unsynced
      /\ \A f \in Frame \ {Root} : fr[f].at = 0 /\ ~fr[f].stolen /\ ~fr[f].unsynced
  BY Kinds DEF Init, NewFrame
<1>4. \A w \in Worker : /\ t[w] = (IF w = Boss THEN 1 ELSE NULL) /\ deque[w] = <<>>
                        /\ pc[w] = "loop" /\ ltq[w] = <<>> /\ good[w] = FALSE
  BY DEF Init
<1>5. \A w \in Worker : Tips(w) = <<>> /\ Held(w) = {} /\ Len(Tips(w)) = 0 /\ Upper(w) = NULL
  <2>. TAKE w \in Worker
  <2>1. Tips(w) = <<>> /\ Held(w) = {} /\ Len(Tips(w)) = 0
    BY <1>1, <1>4, TipsAre DEF AtFrames
  <2>. QED  BY <1>4, <2>1 DEF Upper
<1>6. \A f \in Frame : Running(f) => f = Root
  BY <1>3, AtFacts, <1>1
<1>7. AtInv
  <2>0. \A f \in Frame : fr[f].at \in {0, 1}
    BY <1>3
  <2>00. \A f \in Frame : Len(Body[f]) \in Nat /\ End(f) = Len(Body[f]) + 1
    BY BodyFacts
  <2>1. \A f \in Frame : fr[f].at <= End(f) + 1
    <3>. TAKE f \in Frame
    <3>1. fr[f].at = 0 \/ fr[f].at = 1
      BY <2>0
    <3>2. Len(Body[f]) \in Nat /\ End(f) = Len(Body[f]) + 1
      BY <2>00
    <3>. QED  BY <3>1, <3>2
  <2>2. \A f \in Frame : \A i \in 1..Len(Body[f]) : ~(i < fr[f].at)
    BY <1>3
  <2>3. \A g \in Called : ~Running(g)
    BY <1>6, Kinds
  <2>. QED  BY <1>3, <2>1, <2>2, <2>3 DEF AtInv
<1>8. Active(Root)
  BY <1>1, <1>3, AtFacts, Kinds DEF Active
<1>9. TipInv
  <2>1. \A w \in Worker : IsInjective(Tips(w))
    BY <1>5 DEF IsInjective
  <2>. QED  BY <1>2, <1>5, <1>8, <2>1 DEF TipInv
<1>10. \A w \in Worker : ChainInv(w) /\ CoverInv(w) /\ StageInv(w)
  <2>. TAKE w \in Worker
  <2>1. ChainInv(w)
    BY <1>4, <1>5 DEF ChainInv
  <2>2. CoverInv(w)
    BY <1>5 DEF CoverInv
  <2>3. StageInv(w)
    BY <1>4 DEF StageInv
  <2>. QED  BY <2>1, <2>2, <2>3
<1>11. SpawnLink /\ CallLink /\ OneClosure
  BY <1>2, <1>5, Kinds DEF SpawnLink, CallLink, OneClosure, Begins
<1>12. CountInv /\ KidsInv
  <2>1. Kids(1) = {}
    BY <1>2 DEF Kids
  <2>. QED  BY <1>2, <2>1, FS_EmptySet DEF CountInv, KidsInv
<1>13. UnsyncedInv /\ StatusInv
  BY <1>2, <1>3 DEF UnsyncedInv, StatusInv
<1>14. SpawnInv
  BY <1>6, Kinds DEF SpawnInv
<1>. QED  BY <1>0, <1>7, <1>9, <1>10, <1>11, <1>12, <1>13, <1>14 DEF FInv

(* The parts of the invariant.                                                *)
LEMMA FParts ==
  ASSUME FInv
  PROVE  /\ IInv /\ Typed /\ TypedTree /\ AtInv /\ TipInv /\ UnsyncedInv
         /\ \A w \in Worker : PlaceInv(w) /\ HandInv(w) /\ ChainInv(w) /\ CoverInv(w) /\ StageInv(w)
         /\ NULL \notin Closure /\ Closure \subseteq Nat
BY TreeIsSeq DEF FInv, IInv, Typed

(* A worker in user code: its closure covers its first frame.                 *)
LEMMA UserCover ==
  ASSUME FInv, NEW w \in Worker, pc[w] \in {"user", "sync"}
  PROVE  /\ t[w] = NULL /\ Hand(w) \in Closure /\ deque[w] = <<Hand(w)>> /\ Bottom(w) = Hand(w)
         /\ Upper(w) = Hand(w) /\ Lower(w) = Tips(w)[1] /\ Lower(w) \in Held(w)
         /\ Covers(Hand(w), Tips(w)[1]) /\ ~cl[Hand(w)].has_cilk_callee
         /\ cl[Hand(w)].status \in {"RUNNING", "RETURNING"}
         /\ cur[w] \in Frame /\ cur[w] \in Held(w) /\ Active(cur[w])
<1>1. IInv /\ Typed /\ PlaceInv(w) /\ CoverInv(w) /\ TipInv /\ NULL \notin Closure
  BY FParts
<1>2. deque[w] # <<>>
  BY <1>1 DEF PlaceInv
<1>3. /\ t[w] = NULL /\ Hand(w) \in Closure /\ deque[w] = <<Hand(w)>> /\ Bottom(w) = Hand(w)
      /\ cl[Hand(w)].status \in {"RUNNING", "RETURNING"}
  BY <1>1, <1>2, HandIs
<1>4. Upper(w) = Hand(w) /\ Lower(w) = Tips(w)[1]
  BY DEF Upper, Lower
<1>5. cur[w] \in Frame /\ Held(w) = Range(ltq[w]) \union {cur[w]} /\ Tips(w)[1] \in Held(w)
  BY <1>1, TipsAre DEF AtFrames
<1>6. Covers(Hand(w), Tips(w)[1])
  BY <1>1, <1>3, <1>4 DEF CoverInv
<1>7. ~cl[Hand(w)].has_cilk_callee
  BY <1>1, <1>3 DEF IInv, CallInv
<1>. QED  BY <1>1, <1>3, <1>4, <1>5, <1>6, <1>7 DEF TipInv

(* A frame with a closure has nothing below it on its worker; it is then the  *)
(* frame of the worker's closure.                                             *)
LEMMA StolenAlone ==
  ASSUME FInv, NEW w \in Worker, pc[w] \in {"user", "sync"}, fr[cur[w]].stolen
  PROVE  ltq[w] = <<>> /\ cl[Hand(w)].frame = cur[w] /\ Tips(w)[1] = cur[w] /\ Tips(w) = <<cur[w]>>
<1>1. Typed /\ PlaceInv(w) /\ ChainInv(w) /\ cur[w] \in Frame
  BY FParts, UserCover
<1>2. /\ ltq[w] \in Seq(Frame) /\ Len(ltq[w]) \in Nat /\ Len(Tips(w)) = Len(ltq[w]) + 1
      /\ Tips(w)[Len(Tips(w))] = cur[w]
      /\ (ltq[w] = <<>> => Tips(w)[1] = cur[w] /\ Tips(w) = <<cur[w]>>)
  BY <1>1, TipsAre DEF AtFrames
<1>3. Len(ltq[w]) = 0
  <2>. SUFFICES ASSUME Len(ltq[w]) # 0  PROVE FALSE
    OBVIOUS
  <2>1. Len(ltq[w]) \in 1..Len(Tips(w)) - 1
    BY <1>2
  <2>2. Fresh(Tips(w)[Len(ltq[w]) + 1])
    BY <1>1, <2>1 DEF ChainInv
  <2>3. Fresh(cur[w])
    BY <1>2, <2>2
  <2>. QED  BY <1>1, <2>3, CoverTop DEF Fresh
<1>4. ltq[w] = <<>>
  BY <1>2, <1>3, EmptySeq
<1>5. Covers(Hand(w), cur[w])
  BY <1>2, <1>4, UserCover
<1>6. cl[Hand(w)].frame = cur[w]
  BY <1>1, <1>5, CoverTop DEF Covers
<1>. QED  BY <1>2, <1>4, <1>6

-----------------------------------------------------------------------------
(* What a worker that does nothing keeps.                                     *)

(* The stolen frame of a thief waits to be resumed; the frame that a closure  *)
(* covers is active.                                                          *)
LEMMA ThiefParked ==
  ASSUME FInv, NEW v \in Worker, pc[v] \in {"promoted", "finish"}
  PROVE  /\ t[v] \in Closure /\ Parked(t[v]) /\ cl[t[v]].frame \in Frame /\ Active(cl[t[v]].frame)
         /\ fr[cl[t[v]].frame].at # 0 /\ Hand(v) = t[v]
<1>1. IInv /\ Typed /\ PlaceInv(v) /\ StageInv(v) /\ TipInv
  BY FParts
<1>2. t[v] \in Closure /\ cl[t[v]].frame # NULL /\ Hand(v) = t[v]
  BY <1>1, HandIs DEF PlaceInv, Typed, TypedRuntime
<1>3. ~cl[t[v]].has_cilk_callee
  BY <1>1, <1>2, FParts DEF IInv, CallInv, OneHand
<1>4. Parked(t[v])
  BY <1>1, <1>2, <1>3 DEF Parked, StageInv
<1>5. Active(cl[t[v]].frame)
  BY <1>1, <1>2, <1>4 DEF TipInv
<1>6. cl[t[v]].frame \in Frame
  BY <1>1, <1>2, TreeIsSeq DEF ClosureRecord, Typed
<1>. QED  BY <1>1, <1>2, <1>4, <1>5, <1>6, AtFacts DEF Active

LEMMA LowerIs ==
  ASSUME FInv, NEW v \in Worker, Upper(v) # NULL
  PROVE  /\ Upper(v) \in Closure /\ Lower(v) \in Frame /\ Active(Lower(v)) /\ fr[Lower(v)].at # 0
         /\ pc[v] \in {"user", "sync", "promoted", "finish"}
         /\ Covers(Upper(v), Lower(v))
         /\ pc[v] \in {"user", "sync"} => Lower(v) \in Held(v) /\ Lower(v) = Tips(v)[1] /\ Upper(v) = Hand(v)
         /\ pc[v] \in {"promoted", "finish"} => /\ Lower(v) = cl[t[v]].frame /\ Upper(v) = cl[t[v]].call_parent
                                                /\ ~fr[cl[t[v]].frame].stolen
<1>1. pc[v] \in {"user", "sync", "promoted", "finish"}
  BY DEF Upper
<1>2. Typed /\ TipInv /\ PlaceInv(v) /\ CoverInv(v)
  BY FParts
<1>3. CASE pc[v] \in {"user", "sync"}
  <2>1. Upper(v) = Hand(v) /\ Hand(v) \in Closure /\ Lower(v) = Tips(v)[1] /\ Lower(v) \in Held(v)
    BY <1>3, UserCover
  <2>2. Lower(v) \in Frame /\ Active(Lower(v))
    BY <1>2, <2>1, TipsAre DEF TipInv
  <2>. QED  BY <1>2, <1>3, <2>1, <2>2, AtFacts DEF Active, CoverInv
<1>4. CASE pc[v] \in {"promoted", "finish"}
  <2>1. /\ t[v] \in Closure /\ cl[t[v]].frame \in Frame /\ Active(cl[t[v]].frame)
        /\ fr[cl[t[v]].frame].at # 0
    BY <1>4, ThiefParked
  <2>2. Upper(v) = cl[t[v]].call_parent /\ Lower(v) = cl[t[v]].frame /\ ~fr[cl[t[v]].frame].stolen
    BY <1>4 DEF Upper, Lower
  <2>3. cl[t[v]].call_parent \in Closure \union {NULL}
    BY <2>1, FParts DEF TypedTree
  <2>. QED  BY <1>2, <1>4, <2>1, <2>2, <2>3 DEF CoverInv
<1>. QED  BY <1>1, <1>3, <1>4

(* Workers other than w.                                                      *)
Idles(v) ==
  /\ pc'[v] = pc[v] /\ ltq'[v] = ltq[v] /\ cur'[v] = cur[v] /\ t'[v] = t[v] /\ deque'[v] = deque[v]
  /\ good'[v] = good[v]

(* Frames that are under way keep their flags.                                *)
SameFlags ==
  \A h \in Frame : fr[h].at # 0 =>
    /\ fr'[h].stolen = fr[h].stolen
    /\ fr[h].unsynced => fr'[h].unsynced \/ \A p \in Closure : cl[p].frame = h => Kids(p) = {}

(* The closures keep their frames and their places in the tree.               *)
SameTree ==
  /\ Closure' = Closure
  /\ \A c \in Closure : /\ cl'[c].frame = cl[c].frame /\ cl'[c].spawn_parent = cl[c].spawn_parent
                        /\ cl'[c].call_parent = cl[c].call_parent
                        /\ cl'[c].join_counter = cl[c].join_counter
                        /\ cl'[c].has_cilk_callee = cl[c].has_cilk_callee
                        /\ Live(c)' <=> Live(c)

(* ... and all else that the invariant sees of them.                          *)
SameClosures ==
  /\ Closure' = Closure
  /\ \A c \in Closure : /\ cl'[c].frame = cl[c].frame /\ cl'[c].spawn_parent = cl[c].spawn_parent
                        /\ cl'[c].call_parent = cl[c].call_parent /\ cl'[c].join_counter = cl[c].join_counter
                        /\ cl'[c].has_cilk_callee = cl[c].has_cilk_callee /\ cl'[c].status = cl[c].status

LEMMA IdleTips ==
  ASSUME NEW v \in Worker, Idles(v)
  PROVE  Tips(v)' = Tips(v) /\ Held(v)' = Held(v) /\ Hand(v)' = Hand(v)
<1>1. Tips(v)' = Tips(v)
  BY DEF Tips, Idles
<1>2. Hand(v)' = Hand(v)
  BY DEF Hand, Idles
<1>. QED  BY <1>1, <1>2 DEF Held

LEMMA IdleUpper ==
  ASSUME FInv, NEW v \in Worker, Idles(v),
         pc[v] \in {"promoted", "finish"} => /\ cl'[t[v]].frame = cl[t[v]].frame
                                             /\ cl'[t[v]].call_parent = cl[t[v]].call_parent
                                             /\ fr'[cl[t[v]].frame].stolen = fr[cl[t[v]].frame].stolen
  PROVE  Upper(v)' = Upper(v) /\ (Upper(v) # NULL => Lower(v)' = Lower(v))
<1>1. Tips(v)' = Tips(v) /\ Hand(v)' = Hand(v) /\ pc'[v] = pc[v] /\ t'[v] = t[v]
  BY IdleTips DEF Idles
<1>2. CASE pc[v] \in {"user", "sync"}
  BY <1>1, <1>2 DEF Upper, Lower
<1>3. CASE pc[v] \in {"promoted", "finish"}
  BY <1>1, <1>3 DEF Upper, Lower
<1>4. CASE pc[v] \notin {"user", "sync", "promoted", "finish"}
  BY <1>1, <1>4 DEF Upper
<1>. QED  BY <1>2, <1>3, <1>4

(* The stacklet of an entered frame keeps its closures.                       *)
LEMMA FlagsCover ==
  ASSUME IInv, SameFlags, NEW f \in Frame, fr[f].at # 0
  PROVE  /\ FreshIn(fr, f) => FreshIn(fr', f)
         /\ \A x : CoversIn(fr, x, f) => CoversIn(fr', x, f)
<1>1. \A g \in Range(Stacklet[f]) : fr[g].at # 0 /\ g \in Frame
  BY StackletOf DEF IInv, EnteredInv
<1>2. \A g \in Range(Stacklet[f]) : fr[g].stolen = fr'[g].stolen
  BY <1>1 DEF SameFlags
<1>. QED  BY <1>2, CoverKept

(* What the invariant says of an idle worker stays so, as long as its frames  *)
(* and its closure stay as they are.                                          *)
KeepsHand(v) ==
  Hand(v) # NULL =>
    /\ cl'[Hand(v)].status = cl[Hand(v)].status /\ cl'[Hand(v)].frame = cl[Hand(v)].frame
    /\ cl'[Hand(v)].call_parent = cl[Hand(v)].call_parent
    /\ cl[Hand(v)].call_parent # NULL /\ cl[cl[Hand(v)].call_parent].frame # NULL =>
         cl'[cl[Hand(v)].call_parent].frame = cl[cl[Hand(v)].call_parent].frame
KeepsFrames(v) ==
  /\ \A h \in Held(v) : /\ fr'[h].at = fr[h].at /\ (fr[h].unsynced => fr'[h].unsynced)
                        /\ (FreshIn(fr, h) => FreshIn(fr', h))
  /\ pc[v] \in {"promoted", "finish"} => fr'[cl[t[v]].frame].stolen = fr[cl[t[v]].frame].stolen
  /\ Upper(v) # NULL => /\ cl'[Upper(v)].frame = cl[Upper(v)].frame
                        /\ \A x : CoversIn(fr, x, Lower(v)) => CoversIn(fr', x, Lower(v))
  /\ good[v] => fr'[cl[t[v]].frame].at = fr[cl[t[v]].frame].at /\ Kids(t[v])' = {}
  /\ \A h \in Frame : Over(h) => Over(h)'

LEMMA IdleKeepsAll ==
  ASSUME FInv, NEW v \in Worker, Idles(v), KeepsHand(v), KeepsFrames(v), done => done'
  PROVE  /\ ChainInv(v)' /\ CoverInv(v)' /\ StageInv(v)'
         /\ Upper(v)' = Upper(v) /\ (Upper(v) # NULL => Lower(v)' = Lower(v))
<1>1. /\ IInv /\ Typed /\ PlaceInv(v) /\ HandInv(v) /\ TipInv /\ ChainInv(v) /\ CoverInv(v) /\ StageInv(v)
      /\ NULL \notin Closure
  BY FParts
<1>2. Tips(v)' = Tips(v) /\ Held(v)' = Held(v) /\ Hand(v)' = Hand(v)
  BY IdleTips
<1>3. /\ Hand(v) \in Closure \union {NULL} /\ t[v] \in Closure \union {NULL}
      /\ (t[v] # NULL => Hand(v) = t[v]) /\ (deque[v] # <<>> => Hand(v) \in Closure)
  BY <1>1, HandIs DEF Typed, TypedRuntime
<1>4. Upper(v)' = Upper(v) /\ (Upper(v) # NULL => Lower(v)' = Lower(v))
  <2>1. pc[v] \in {"promoted", "finish"} => /\ cl'[t[v]].frame = cl[t[v]].frame
                                            /\ cl'[t[v]].call_parent = cl[t[v]].call_parent
                                            /\ fr'[cl[t[v]].frame].stolen = fr[cl[t[v]].frame].stolen
    BY <1>1, <1>3, ThiefParked DEF KeepsHand, KeepsFrames
  <2>. QED  BY <2>1, IdleUpper
<1>5. CoverInv(v)'
  <2>. SUFFICES ASSUME Upper(v) # NULL  PROVE CoversIn(fr', cl'[Upper(v)].frame, Lower(v))
    BY <1>4 DEF CoverInv, Covers
  <2>1. Covers(Upper(v), Lower(v))
    BY LowerIs
  <2>. QED  BY <2>1 DEF Covers, KeepsFrames
<1>6. ChainInv(v)'
  <2>1. pc'[v] # "user" => ltq'[v] = <<>>
    BY <1>1 DEF ChainInv, Idles
  <2>2. ASSUME NEW i \in 1..Len(Tips(v)) - 1
        PROVE  /\ fr'[Tips(v)[i]].at > 1 /\ Prev(Tips(v)[i])' = Oldest(Tips(v)[i + 1])
               /\ FreshIn(fr', Tips(v)[i + 1])
    <3>1. /\ fr[Tips(v)[i]].at > 1 /\ Prev(Tips(v)[i]) = Oldest(Tips(v)[i + 1]) /\ Fresh(Tips(v)[i + 1])
      BY <1>1, <2>2 DEF ChainInv
    <3>2. Len(Tips(v)) \in Nat /\ Len(Tips(v)) # 0 /\ Held(v) = {Tips(v)[j] : j \in 1..Len(Tips(v))}
      <4>1. Len(Tips(v)) # 0
        BY <1>1, <2>2, TipsAre
      <4>2. pc[v] \in AtFrames
        BY <1>1, <4>1, TipsAre
      <4>. QED  BY <1>1, <4>1, <4>2, TipsAre
    <3>3. Tips(v)[i] \in Held(v) /\ Tips(v)[i + 1] \in Held(v)
      <4>1. i \in 1..Len(Tips(v)) /\ i + 1 \in 1..Len(Tips(v))
        BY <3>2
      <4>. QED  BY <3>2, <4>1
    <3>4. FreshIn(fr', Tips(v)[i + 1])
      BY <3>1, <3>3 DEF KeepsFrames, Fresh
    <3>5. fr'[Tips(v)[i]].at = fr[Tips(v)[i]].at
      BY <3>3 DEF KeepsFrames
    <3>6. Prev(Tips(v)[i])' = Prev(Tips(v)[i])
      BY <1>2, <3>5 DEF Prev
    <3>. QED  BY <3>1, <3>4, <3>5, <3>6
  <2>. QED  BY <1>2, <2>1, <2>2 DEF ChainInv, Fresh
<1>7. /\ pc'[v] = pc[v] /\ t'[v] = t[v] /\ cur'[v] = cur[v] /\ deque'[v] = deque[v] /\ good'[v] = good[v]
  BY DEF Idles
<1>8. pc[v] = "sync" => AtSync(cur[v])' /\ fr'[cur[v]].unsynced
  <2>. SUFFICES ASSUME pc[v] = "sync"  PROVE AtSync(cur[v])' /\ fr'[cur[v]].unsynced
    OBVIOUS
  <2>1. cur[v] \in Held(v) /\ AtSync(cur[v]) /\ fr[cur[v]].unsynced
    BY <1>1, UserCover DEF StageInv
  <2>. QED  BY <1>7, <2>1 DEF KeepsFrames, AtSync
<1>9. ASSUME Hand(v) # NULL, cl[Hand(v)].frame = NULL \/ Over(cl[Hand(v)].frame)
      PROVE  cl'[Hand(v)].frame = NULL \/ Over(cl[Hand(v)].frame)'
  <2>1. cl[Hand(v)].frame \in Frame \union {NULL}
    BY <1>1, <1>3, <1>9, TreeIsSeq DEF ClosureRecord, Typed
  <2>2. PICK x \in Frame \union {NULL} : x = cl[Hand(v)].frame
    BY <2>1
  <2>3. cl'[Hand(v)].frame = x
    BY <1>9, <2>2 DEF KeepsHand
  <2>4. x = NULL \/ Over(x)'
    BY <1>9, <2>2 DEF KeepsFrames
  <2>5. cl[Hand(v)]'.frame = x
    BY <1>2, <2>3
  <2>. QED  BY <2>3, <2>4, <2>5
<1>10. pc[v] = "handler" => cl'[Hand(v)].frame = NULL \/ Over(cl[Hand(v)].frame)'
  <2>1. pc[v] = "handler" => Hand(v) # NULL
    BY <1>1, <1>3 DEF PlaceInv
  <2>. QED  BY <1>1, <1>9, <2>1 DEF StageInv
<1>11. pc[v] \in {"back", "loop"} /\ deque[v] # <<>> /\ ~done' => cl'[Hand(v)].status = "RETURNING"
  BY <1>1, <1>3 DEF StageInv, KeepsHand
<1>12. pc[v] \in {"set_return", "set_return_parent"} =>
         cl'[t[v]].frame \in Called /\ Over(cl[t[v]].frame)' /\ HasFrame(cl[t[v]].call_parent, cur[v])'
  <2>. SUFFICES ASSUME pc[v] \in {"set_return", "set_return_parent"}
                PROVE  cl'[t[v]].frame \in Called /\ Over(cl[t[v]].frame)' /\ HasFrame(cl[t[v]].call_parent, cur[v])'
    OBVIOUS
  <2>1. t[v] # NULL /\ Hand(v) = t[v] /\ cur[v] \in Frame
    BY <1>1, <1>3 DEF PlaceInv
  <2>2. cl[t[v]].frame \in Called /\ Over(cl[t[v]].frame) /\ HasFrame(cl[t[v]].call_parent, cur[v])
    BY <1>1 DEF StageInv
  <2>3. cl'[t[v]].frame \in Called /\ Over(cl[t[v]].frame)'
    <3>1. PICK x \in Called : x = cl[t[v]].frame
      BY <2>2
    <3>2. cl'[t'[v]].frame = x
      BY <1>7, <2>1, <3>1 DEF KeepsHand
    <3>3. Over(x)'
      BY <2>2, <3>1, Kinds DEF KeepsFrames
    <3>. QED  BY <1>7, <3>2, <3>3
  <2>4. cl[t[v]].call_parent # NULL /\ cl'[cl[t[v]].call_parent].frame = cur[v] /\ cl'[t[v]].call_parent = cl[t[v]].call_parent
    BY <2>1, <2>2, Kinds DEF KeepsHand, HasFrame
  <2>. QED  BY <1>7, <2>3, <2>4 DEF HasFrame
<1>13. pc[v] = "push" => cur[v] = cl'[t[v]].frame
  BY <1>1, <1>3 DEF StageInv, PlaceInv, KeepsHand
<1>14. /\ pc[v] \in {"promoted", "finish"} => cl'[t[v]].status # "RETURNING"
       /\ pc[v] = "return" => cl'[t[v]].status = "RETURNING"
  BY <1>1, <1>3 DEF StageInv, PlaceInv, KeepsHand
<1>15. good[v] => /\ cl'[t[v]].status # "RETURNING" /\ cl'[t[v]].frame # NULL
                  /\ AtSync(cl[t[v]].frame)' /\ Kids(t[v])' = {}
  <2>. SUFFICES ASSUME good[v]  PROVE /\ cl'[t[v]].status # "RETURNING" /\ cl'[t[v]].frame # NULL
                                      /\ AtSync(cl[t[v]].frame)' /\ Kids(t[v])' = {}
    OBVIOUS
  <2>1. t[v] # NULL /\ cl[t[v]].status # "RETURNING" /\ cl[t[v]].frame # NULL /\ AtSync(cl[t[v]].frame)
    BY <1>1 DEF StageInv
  <2>2. cl'[t[v]].frame = cl[t[v]].frame /\ cl'[t[v]].status = cl[t[v]].status
    BY <1>3, <2>1 DEF KeepsHand
  <2>3. fr'[cl[t[v]].frame].at = fr[cl[t[v]].frame].at /\ Kids(t[v])' = {}
    BY DEF KeepsFrames
  <2>4. AtSync(cl[t[v]].frame)'
    BY <1>7, <2>1, <2>2, <2>3 DEF AtSync
  <2>. QED  BY <2>1, <2>2, <2>3, <2>4
<1>16. StageInv(v)'
  <2>1. good[v] => pc[v] \in {"loop", "do", "push", "exit"} /\ t[v] # NULL
    BY <1>1 DEF StageInv
  <2>2. /\ pc'[v] = "sync" => AtSync(cur[v])' /\ fr'[cur'[v]].unsynced
        /\ pc'[v] = "handler" => cl'[Hand(v)'].frame = NULL \/ Over(cl[Hand(v)].frame)'
        /\ pc'[v] \in {"back", "loop"} /\ deque'[v] # <<>> /\ ~done' => cl'[Hand(v)'].status = "RETURNING"
    BY <1>2, <1>7, <1>8, <1>10, <1>11
  <2>3. /\ pc'[v] \in {"set_return", "set_return_parent"} =>
             cl'[t'[v]].frame \in Called /\ Over(cl[t[v]].frame)' /\ HasFrame(cl[t[v]].call_parent, cur[v])'
        /\ pc'[v] = "push" => cur'[v] = cl'[t'[v]].frame
        /\ pc'[v] \in {"promoted", "finish"} => cl'[t'[v]].status # "RETURNING"
        /\ pc'[v] = "return" => cl'[t'[v]].status = "RETURNING"
    BY <1>7, <1>12, <1>13, <1>14
  <2>4. good'[v] => /\ pc'[v] \in {"loop", "do", "push", "exit"} /\ t'[v] # NULL
                    /\ cl'[t'[v]].status # "RETURNING" /\ cl'[t'[v]].frame # NULL
                    /\ AtSync(cl[t[v]].frame)' /\ Kids(t[v])' = {}
    BY <1>7, <1>15, <2>1
  <2>. QED  BY <2>2, <2>3, <2>4 DEF StageInv
<1>. QED  BY <1>4, <1>5, <1>6, <1>16

-----------------------------------------------------------------------------
(* Steps that leave the tree of closures as it is.                            *)

LEMMA FrameOfClosure ==
  ASSUME FInv, NEW c \in Closure, cl[c].frame # NULL
  PROVE  cl[c].frame \in Frame /\ fr[cl[c].frame].at # 0
<1>1. cl[c].frame \in Frame
  BY FParts, TreeIsSeq DEF ClosureRecord
<1>. QED  BY <1>1, FParts DEF IInv, FrameInv

LEMMA TreeKept ==
  ASSUME FInv, SameTree, SameFlags,
         \A v \in Worker : Upper(v)' # NULL =>
           \/ Upper(v)' \in Closure /\ cl[Upper(v)'].frame # NULL
           \/ Upper(v)' = Upper(v) /\ Oldest(Lower(v))' = Oldest(Lower(v)),
         \A c \in Closure : BeingStolen(c) => BeingStolen(c)'
  PROVE  /\ SpawnLink' /\ CallLink' /\ OneClosure' /\ CountInv' /\ KidsInv'
         /\ \A p \in Closure : Kids(p)' = Kids(p)
<1>1. Closure' = Closure /\ NULL \notin Closure /\ TypedTree
  BY FParts DEF SameTree
<1>2. ASSUME NEW c \in Closure, NEW h \in Helper, Begins(c, h)'  PROVE Begins(c, h)
  <2>1. CASE cl'[c].frame = h
    BY <2>1 DEF Begins, SameTree
  <2>2. CASE cl'[c].frame # h
    <3>1. cl'[c].frame = NULL /\ \E v \in Worker : Upper(v)' = c /\ Oldest(Lower(v))' = h
      BY <1>2, <2>2 DEF Begins
    <3>2. cl[c].frame = NULL /\ \E v \in Worker : Upper(v) = c /\ Oldest(Lower(v)) = h
      BY <1>1, <3>1 DEF SameTree
    <3>. QED  BY <3>2 DEF Begins
  <2>. QED  BY <2>1, <2>2
<1>3. SpawnLink'
  <2>. SUFFICES ASSUME NEW c \in Closure, NEW h \in Helper, Live(c)', Begins(c, h)'
                PROVE  HasFrame(cl[c].spawn_parent, Caller(h))'
    BY <1>1 DEF SpawnLink
  <2>1. HasFrame(cl[c].spawn_parent, Caller(h))
    BY <1>2 DEF SameTree, SpawnLink, FInv
  <2>2. cl[c].spawn_parent \in Closure
    BY <1>1, <2>1 DEF TypedTree, HasFrame
  <2>. QED  BY <2>1, <2>2 DEF SameTree, HasFrame
<1>4. CallLink'
  <2>. SUFFICES ASSUME NEW c \in Closure, Live(c)', cl'[c].frame \in Called, fr'[cl'[c].frame].stolen
                PROVE  HasFrame(cl[c].call_parent, Caller(cl[c].frame))'
    BY <1>1 DEF CallLink
  <2>1. cl'[c].frame = cl[c].frame /\ cl'[c].call_parent = cl[c].call_parent /\ Live(c)
    BY DEF SameTree
  <2>2. fr[cl[c].frame].at # 0 /\ cl[c].frame \in Frame
    BY <2>1, FrameOfClosure, Kinds
  <2>3. HasFrame(cl[c].call_parent, Caller(cl[c].frame))
    BY <2>1, <2>2 DEF FInv, CallLink, SameFlags
  <2>4. cl[c].call_parent \in Closure
    BY <1>1, <2>3 DEF TypedTree, HasFrame
  <2>5. cl[c].call_parent # NULL /\ cl'[cl[c].call_parent].frame = Caller(cl[c].frame)
    BY <2>3, <2>4 DEF HasFrame, SameTree
  <2>. QED  BY <2>1, <2>5 DEF HasFrame
<1>5. OneClosure'
  BY <1>1 DEF FInv, OneClosure, SameTree
<1>6. ASSUME NEW p \in Closure  PROVE Kids(p)' = Kids(p)
  BY DEF Kids, SameTree
<1>7. CountInv'
  BY <1>1, <1>6 DEF CountInv, FInv, SameTree
<1>8. KidsInv'
  <2>. SUFFICES ASSUME NEW p \in Closure, Kids(p) # {}, ~BeingStolen(p)'
                PROVE  fr'[cl'[p].frame].unsynced
    BY <1>1, <1>6 DEF KidsInv
  <2>1. fr[cl[p].frame].unsynced
    BY DEF FInv, KidsInv
  <2>2. cl[p].frame # NULL
    <3>1. PICK c \in Closure : cl[c].spawn_parent = p
      BY DEF Kids
    <3>. QED  BY <1>1, <3>1, FParts DEF IInv, ParentInv
  <2>3. cl[p].frame \in Frame /\ fr[cl[p].frame].at # 0
    BY <2>2, FrameOfClosure
  <2>. QED  BY <2>1, <2>3 DEF SameFlags, SameTree
<1>. QED  BY <1>3, <1>4, <1>5, <1>6, <1>7, <1>8

(* A step of w that keeps closures where they are and as they are: what it    *)
(* has in hand, if anything, is not to be resumed afterwards.                 *)
WorkerOnly(w) ==
  /\ SameClosures /\ (done => done') /\ \A v \in Worker : Hand(v)' = Hand(v)
  /\ \A v \in Worker \ {w} : Idles(v)
  /\ pc[w] \notin {"promoted", "finish"} /\ pc'[w] \notin {"promoted", "finish"}
  /\ t'[w] # NULL => pc'[w] = "set_return"

(* Frames that are active, but for f, stay where they are.                    *)
OthersGoOn(f) ==
  /\ \A h \in Frame \ {f} : Active(h) => Active(h)' /\ fr'[h].at = fr[h].at /\ (fr[h].unsynced => fr'[h].unsynced)
  /\ \A h \in Frame : Over(h) => Over(h)'
  /\ SameFlags

LEMMA WorkerOnlyKeeps ==
  ASSUME FInv, IInv', NEW w \in Worker, WorkerOnly(w)
  PROVE  /\ SameTree
         /\ \A v \in Worker \ {w} : Idles(v) /\ Tips(v)' = Tips(v) /\ Held(v)' = Held(v)
         /\ \A c \in Closure : (Parked(c)' => Parked(c) /\ c # Hand(w)) /\ (BeingStolen(c) => BeingStolen(c)')
<1>0. NULL \notin Closure /\ OneHand /\ OneHand' /\ Closure' = Closure
  BY FParts DEF IInv, WorkerOnly, SameClosures
<1>1. \A v \in Worker : Hand(v)' = Hand(v)
  BY DEF WorkerOnly
<1>2. \A c \in Closure : Live(c)' <=> Live(c)
  BY <1>1 DEF WorkerOnly, SameClosures, Live
<1>3. SameTree
  BY <1>2 DEF SameTree, WorkerOnly, SameClosures
<1>4. \A v \in Worker \ {w} : Idles(v)
  BY DEF WorkerOnly
<1>6. ASSUME NEW c \in Closure, Parked(c)'  PROVE Parked(c) /\ c # Hand(w)
  <2>0. /\ cl'[c].frame = cl[c].frame /\ cl'[c].has_cilk_callee = cl[c].has_cilk_callee
        /\ cl'[c].status = cl[c].status
    BY DEF WorkerOnly, SameClosures
  <2>1. CASE cl[c].status = "SUSPENDED"
    <3>1. c # Hand(w)
      BY <1>0, <2>1 DEF OneHand
    <3>. QED  BY <1>6, <2>0, <2>1, <3>1 DEF Parked
  <2>2. CASE cl[c].status # "SUSPENDED"
    <3>1. PICK v \in Worker : t'[v] = c /\ cl'[c].status # "RETURNING" /\ pc'[v] \notin {"set_return", "set_return_parent"}
      BY <1>6, <2>0, <2>2 DEF Parked
    <3>2. v # w
      BY <1>0, <3>1 DEF WorkerOnly
    <3>3. t[v] = c /\ cl[c].status # "RETURNING" /\ pc[v] \notin {"set_return", "set_return_parent"}
      BY <1>4, <2>0, <3>1, <3>2 DEF Idles
    <3>4. cl[c].frame # NULL /\ ~cl[c].has_cilk_callee
      BY <1>6, <2>0 DEF Parked
    <3>5. Hand(v) = c
      BY <1>0, <3>3 DEF Hand
    <3>6. c # Hand(w)
      BY <1>0, <3>2, <3>5 DEF OneHand
    <3>. QED  BY <3>3, <3>4, <3>6 DEF Parked
  <2>. QED  BY <2>1, <2>2
<1>7. ASSUME NEW c \in Closure, BeingStolen(c)  PROVE BeingStolen(c)'
  <2>1. PICK v \in Worker : pc[v] \in {"promoted", "finish"} /\ t[v] = c
    BY <1>7 DEF BeingStolen
  <2>2. v # w
    BY <2>1 DEF WorkerOnly
  <2>3. pc'[v] \in {"promoted", "finish"} /\ t'[v] = c
    BY <1>4, <2>1, <2>2 DEF Idles
  <2>. QED  BY <2>3 DEF BeingStolen
<1>. QED  BY <1>3, <1>4, <1>6, <1>7, IdleTips

(* A step of user code of w: others are idle, and so is the tree.             *)
UserOnly(w) ==
  /\ cl' = cl /\ t' = t /\ deque' = deque /\ good' = good /\ (done => done')
  /\ pc[w] = "user" /\ pc'[w] \in {"user", "sync", "handler", "back"}
  /\ \A v \in Worker \ {w} : pc'[v] = pc[v] /\ ltq'[v] = ltq[v] /\ cur'[v] = cur[v]

LEMMA UserOnlyKeeps ==
  ASSUME FInv, NEW w \in Worker, UserOnly(w)
  PROVE  WorkerOnly(w) /\ \A v \in Worker : Hand(v)' = Hand(v)
<1>1. \A v \in Worker : Hand(v)' = Hand(v)
  BY DEF UserOnly, Hand
<1>2. SameClosures
  BY DEF UserOnly, SameClosures, Closure
<1>3. \A v \in Worker \ {w} : Idles(v)
  BY DEF Idles, UserOnly
<1>4. t'[w] = NULL
  BY UserCover DEF UserOnly
<1>. QED  BY <1>1, <1>2, <1>3, <1>4 DEF WorkerOnly, UserOnly

(* A good steal's closure is parked.                                          *)
LEMMA GoodParked ==
  ASSUME FInv, NEW v \in Worker, good[v]
  PROVE  /\ t[v] \in Closure /\ Parked(t[v]) /\ cl[t[v]].frame \in Frame /\ Active(cl[t[v]].frame)
         /\ Hand(v) = t[v]
<1>1. IInv /\ Typed /\ StageInv(v) /\ TipInv /\ NULL \notin Closure
  BY FParts
<1>2. /\ t[v] \in Closure /\ Hand(v) = t[v] /\ cl[t[v]].frame # NULL /\ cl[t[v]].status # "RETURNING"
      /\ pc[v] \in {"loop", "do", "push", "exit"}
  BY <1>1, HandIs DEF StageInv, Typed, TypedRuntime
<1>3. ~cl[t[v]].has_cilk_callee
  BY <1>1, <1>2 DEF IInv, CallInv, OneHand
<1>4. Parked(t[v])
  BY <1>2, <1>3 DEF Parked
<1>5. cl[t[v]].frame \in Frame
  BY <1>2, FrameOfClosure
<1>. QED  BY <1>1, <1>2, <1>4, <1>5 DEF TipInv

(* Such a step of frame f, with what it has to show of w itself.              *)
TipsGoOn(w) ==
  /\ IsInjective(Tips(w))'
  /\ \A h \in Held(w)' : Active(h)' /\ (h \in Held(w) \/ (h \in Frame /\ ~Active(h)))
SpawnsGoOn(w) ==
  \A h \in Helper : Running(h)' =>
    \/ \E i \in 1..Len(Tips(w)') - 1 : Oldest(Tips(w)[i + 1])' = h
    \/ /\ Running(h) /\ \A i \in 1..Len(Tips(w)) - 1 : Oldest(Tips(w)[i + 1]) # h
       /\ Upper(w)' # NULL \/ h # Oldest(Tips(w)[1]) \/ cl[Hand(w)].frame # NULL

(* f is a frame of w, or of the closure that w is about to run.               *)
Mine(w, f) ==
  \/ f \in Held(w)
  \/ Hand(w) \in Closure /\ cl[Hand(w)].frame = f /\ Parked(Hand(w))

LEMMA WorkerStep ==
  ASSUME FInv, IInv', NEW w \in Worker, WorkerOnly(w), AtInv', UnsyncedInv',
         NEW f \in Frame, Mine(w, f), OthersGoOn(f), IsInjective(Tips(w))',
         \A h \in Held(w)' : Active(h)' /\ (h \in Held(w) \/ h = f \/ (h \in Frame /\ ~Active(h))),
         SpawnsGoOn(w), ChainInv(w)', CoverInv(w)', StageInv(w)',
         Upper(w)' # NULL =>
           \/ Upper(w)' \in Closure /\ cl[Upper(w)'].frame # NULL
           \/ Upper(w)' = Upper(w) /\ Oldest(Lower(w))' = Oldest(Lower(w))
  PROVE  FInv'

<1>1. /\ IInv /\ Typed /\ TypedTree /\ AtInv /\ TipInv /\ UnsyncedInv /\ NULL \notin Closure
      /\ \A v \in Worker : PlaceInv(v) /\ HandInv(v) /\ ChainInv(v) /\ CoverInv(v) /\ StageInv(v)
  BY FParts
<1>2. /\ SameTree /\ \A v \in Worker : Hand(v)' = Hand(v)
      /\ \A v \in Worker \ {w} : Idles(v) /\ Tips(v)' = Tips(v) /\ Held(v)' = Held(v)
      /\ \A c \in Closure : (Parked(c)' => Parked(c) /\ c # Hand(w)) /\ (BeingStolen(c) => BeingStolen(c)')
  BY WorkerOnlyKeeps DEF WorkerOnly
<1>3. \A v \in Worker \ {w} : f \notin Held(v)
  <2>1. CASE f \in Held(w)
    BY <1>1, <2>1 DEF TipInv
  <2>2. CASE f \notin Held(w)
    BY <1>1, <2>2 DEF Mine, TipInv
  <2>. QED  BY <2>1, <2>2
<1>4. ASSUME NEW v \in Worker \ {w}, NEW h \in Held(v)
      PROVE  /\ h \in Frame /\ h # f /\ Active(h) /\ Active(h)' /\ fr'[h].at = fr[h].at /\ fr[h].at # 0
             /\ (fr[h].unsynced => fr'[h].unsynced)
  <2>1. h \in Frame /\ Active(h) /\ h # f
    BY <1>1, <1>3, <1>4, TipsAre DEF TipInv
  <2>. QED  BY <1>1, <2>1, AtFacts DEF OthersGoOn, Active
<1>5. ASSUME NEW c \in Closure, Parked(c), c # Hand(w)
      PROVE  /\ cl[c].frame \in Frame /\ cl[c].frame # f /\ Active(cl[c].frame)
             /\ fr'[cl[c].frame].at = fr[cl[c].frame].at
             /\ \A h \in Frame : h = cl[c].frame => Active(h)'
  <2>1. cl[c].frame \in Frame /\ Active(cl[c].frame) /\ cl[c].frame \notin Held(w) /\ cl[c].frame # NULL
    BY <1>1, <1>5, FrameOfClosure DEF TipInv, Parked
  <2>2. cl[c].frame # f
    BY <1>5, <2>1 DEF Mine, FInv, OneClosure
  <2>. QED  BY <2>1, <2>2 DEF OthersGoOn
<1>6. ASSUME NEW v \in Worker \ {w}
      PROVE  /\ ChainInv(v)' /\ CoverInv(v)' /\ StageInv(v)'
             /\ Upper(v)' = Upper(v) /\ (Upper(v) # NULL => Lower(v)' = Lower(v))
  <2>1. KeepsHand(v)
    <3>. SUFFICES ASSUME Hand(v) # NULL
                  PROVE  /\ cl'[Hand(v)].status = cl[Hand(v)].status /\ cl'[Hand(v)].frame = cl[Hand(v)].frame
                         /\ cl'[Hand(v)].call_parent = cl[Hand(v)].call_parent
                         /\ cl[Hand(v)].call_parent # NULL /\ cl[cl[Hand(v)].call_parent].frame # NULL =>
                              cl'[cl[Hand(v)].call_parent].frame = cl[cl[Hand(v)].call_parent].frame
      BY DEF KeepsHand
    <3>1. Hand(v) \in Closure
      BY <1>1, HandIs
    <3>2. cl[Hand(v)].call_parent \in Closure \union {NULL}
      BY <1>1, <3>1 DEF TypedTree
    <3>. QED  BY <3>1, <3>2 DEF WorkerOnly, SameClosures
  <2>2. KeepsFrames(v)
    <3>1. ASSUME NEW h \in Held(v)
          PROVE  /\ fr'[h].at = fr[h].at /\ (fr[h].unsynced => fr'[h].unsynced)
                 /\ (FreshIn(fr, h) => FreshIn(fr', h))
      <4>1. h \in Frame /\ fr'[h].at = fr[h].at /\ fr[h].at # 0 /\ (fr[h].unsynced => fr'[h].unsynced)
        BY <1>4, <3>1
      <4>2. SameFlags
        BY DEF OthersGoOn
      <4>. QED  BY <1>1, <4>1, <4>2, FlagsCover
    <3>2. pc[v] \in {"promoted", "finish"} => fr'[cl[t[v]].frame].stolen = fr[cl[t[v]].frame].stolen
      BY ThiefParked DEF OthersGoOn, SameFlags
    <3>3. Upper(v) # NULL => /\ cl'[Upper(v)].frame = cl[Upper(v)].frame
                             /\ \A x : CoversIn(fr, x, Lower(v)) => CoversIn(fr', x, Lower(v))
      <4>. SUFFICES ASSUME Upper(v) # NULL
                    PROVE  /\ cl'[Upper(v)].frame = cl[Upper(v)].frame
                           /\ \A x : CoversIn(fr, x, Lower(v)) => CoversIn(fr', x, Lower(v))
        OBVIOUS
      <4>1. Lower(v) \in Frame /\ fr[Lower(v)].at # 0
        BY LowerIs
      <4>2. SameFlags
        BY DEF OthersGoOn
      <4>. QED  BY <1>1, <4>1, <4>2, FlagsCover, LowerIs DEF WorkerOnly, SameClosures
    <3>4. good[v] => fr'[cl[t[v]].frame].at = fr[cl[t[v]].frame].at /\ Kids(t[v])' = {}
      <4>. SUFFICES ASSUME good[v]  PROVE fr'[cl[t[v]].frame].at = fr[cl[t[v]].frame].at /\ Kids(t[v])' = {}
        OBVIOUS
      <4>1. t[v] \in Closure /\ Parked(t[v]) /\ Kids(t[v]) = {} /\ t[v] # Hand(w)
        BY <1>1, GoodParked DEF StageInv, IInv, OneHand
      <4>2. t'[v] = t[v]
        BY <1>2 DEF Idles
      <4>3. Kids(t[v])' = Kids(t[v])
        BY <1>2, <4>2 DEF Kids, SameTree
      <4>. QED  BY <1>5, <4>1, <4>3
    <3>5. \A h \in Frame : Over(h) => Over(h)'
      BY DEF OthersGoOn
    <3>. QED  BY <3>1, <3>2, <3>3, <3>4, <3>5 DEF KeepsFrames
  <2>3. Idles(v) /\ (done => done')
    BY <1>2 DEF WorkerOnly
  <2>. QED  BY <2>1, <2>2, <2>3, IdleKeepsAll
<1>7. \A v \in Worker : Upper(v)' # NULL =>
           \/ Upper(v)' \in Closure /\ cl[Upper(v)'].frame # NULL
           \/ Upper(v)' = Upper(v) /\ Oldest(Lower(v))' = Oldest(Lower(v))
  <2>1. \A v \in Worker \ {w} : Upper(v)' # NULL => Upper(v)' = Upper(v) /\ Oldest(Lower(v))' = Oldest(Lower(v))
    <3>. TAKE v \in Worker \ {w}
    <3>1. Upper(v)' = Upper(v) /\ (Upper(v) # NULL => Lower(v)' = Lower(v))
      BY <1>6
    <3>. QED  BY <3>1 DEF Oldest
  <2>. QED  BY <2>1
<1>8. /\ SpawnLink' /\ CallLink' /\ OneClosure' /\ CountInv' /\ KidsInv'
  BY <1>2, <1>7, TreeKept DEF OthersGoOn
<1>9. TipInv'
  <2>1. ASSUME NEW v \in Worker  PROVE IsInjective(Tips(v))' /\ \A h \in Held(v)' : Active(h)'
    <3>1. CASE v = w
      BY <3>1
    <3>2. CASE v # w
      BY <1>1, <1>2, <1>4, <3>2 DEF TipInv
    <3>. QED  BY <3>1, <3>2
  <2>2. ASSUME NEW v \in Worker \ {w}, NEW h \in Held(w)'  PROVE h \notin Held(v)
    <3>1. CASE h \in Held(w)
      BY <1>1, <3>1 DEF TipInv
    <3>2. CASE h \notin Held(w)
      BY <1>1, <1>3, <2>2, <3>2 DEF TipInv
    <3>. QED  BY <3>1, <3>2
  <2>3. ASSUME NEW u \in Worker, NEW v \in Worker, u # v  PROVE Held(u)' \intersect Held(v)' = {}
    <3>1. CASE u = w
      BY <1>2, <2>2, <2>3, <3>1
    <3>2. CASE v = w
      BY <1>2, <2>2, <2>3, <3>2
    <3>3. CASE u # w /\ v # w
      BY <1>1, <1>2, <2>3, <3>3 DEF TipInv
    <3>. QED  BY <3>1, <3>2, <3>3
  <2>4. ASSUME NEW c \in Closure, Parked(c)'
        PROVE  Active(cl[c].frame)' /\ \A v \in Worker : cl'[c].frame \notin Held(v)'
    <3>1. Parked(c) /\ c # Hand(w) /\ cl'[c].frame = cl[c].frame
      BY <1>2, <2>4 DEF SameTree
    <3>2. PICK x \in Frame : x = cl[c].frame
      BY <1>5, <3>1
    <3>3. Active(x) /\ Active(x)' /\ x # f /\ \A v \in Worker : x \notin Held(v)
      BY <1>1, <1>5, <3>1, <3>2 DEF TipInv
    <3>4. \A v \in Worker : x \notin Held(v)'
      <4>. TAKE v \in Worker
      <4>1. CASE v = w
        BY <3>3, <4>1
      <4>2. CASE v # w
        BY <1>2, <3>3, <4>2
      <4>. QED  BY <4>1, <4>2
    <3>5. cl[c]'.frame = x
      BY <3>1, <3>2
    <3>. QED  BY <3>3, <3>4, <3>5
  <2>5. Closure' = Closure
    BY <1>2 DEF SameTree
  <2>. QED  BY <2>1, <2>3, <2>4, <2>5 DEF TipInv
<1>10. StatusInv'
  <2>. SUFFICES ASSUME NEW c \in Closure
                PROVE  /\ cl'[c].status = "RETURNING" => cl'[c].frame = NULL \/ Over(cl[c].frame)'
                       /\ cl'[c].status = "SUSPENDED" /\ ~cl'[c].has_cilk_callee =>
                            cl'[c].frame # NULL /\ AtSync(cl[c].frame)'
    BY <1>2 DEF StatusInv, SameTree
  <2>1. cl'[c].frame = cl[c].frame /\ cl'[c].status = cl[c].status /\ cl'[c].has_cilk_callee = cl[c].has_cilk_callee
    BY DEF WorkerOnly, SameClosures
  <2>2. CASE cl[c].status = "RETURNING"
    <3>1. cl[c].frame = NULL \/ Over(cl[c].frame)
      BY <2>2 DEF FInv, StatusInv
    <3>2. CASE cl[c].frame # NULL
      <4>1. PICK x \in Frame : x = cl[c].frame
        BY <3>2, FrameOfClosure
      <4>2. Over(x)'
        BY <3>1, <3>2, <4>1 DEF OthersGoOn
      <4>3. Over(cl[c].frame)'
        BY <2>1, <4>1, <4>2
      <4>. QED  BY <2>1, <2>2, <4>3
    <3>3. CASE cl[c].frame = NULL
      BY <2>1, <2>2, <3>3
    <3>. QED  BY <3>2, <3>3
  <2>3. CASE cl[c].status = "SUSPENDED" /\ ~cl[c].has_cilk_callee
    <3>1. cl[c].frame # NULL /\ AtSync(cl[c].frame)
      BY <2>3 DEF FInv, StatusInv
    <3>2. Parked(c) /\ c # Hand(w)
      BY <1>1, <2>3, <3>1 DEF Parked, IInv, OneHand
    <3>3. fr'[cl[c].frame].at = fr[cl[c].frame].at
      BY <1>5, <3>2
    <3>. QED  BY <2>1, <2>3, <3>1, <3>3 DEF AtSync
  <2>4. CASE cl[c].status # "RETURNING" /\ ~(cl[c].status = "SUSPENDED" /\ ~cl[c].has_cilk_callee)
    BY <2>1, <2>4
  <2>. QED  BY <2>2, <2>3, <2>4
<1>11. SpawnInv'
  <2>. SUFFICES ASSUME NEW h \in Helper, Running(h)'
                PROVE  \/ \E v \in Worker : \E i \in 1..Len(Tips(v)') - 1 : Oldest(Tips(v)[i + 1])' = h
                       \/ \E c \in Closure : Live(c)' /\ Begins(c, h)'
    BY <1>2 DEF SpawnInv, SameTree
  <2>1. CASE \E i \in 1..Len(Tips(w)') - 1 : Oldest(Tips(w)[i + 1])' = h
    BY <2>1
  <2>2. CASE /\ Running(h) /\ \A i \in 1..Len(Tips(w)) - 1 : Oldest(Tips(w)[i + 1]) # h
             /\ Upper(w)' # NULL \/ h # Oldest(Tips(w)[1]) \/ cl[Hand(w)].frame # NULL
    <3>1. CASE \E v \in Worker : \E i \in 1..Len(Tips(v)) - 1 : Oldest(Tips(v)[i + 1]) = h
      <4>1. PICK v \in Worker : \E i \in 1..Len(Tips(v)) - 1 : Oldest(Tips(v)[i + 1]) = h
        BY <3>1
      <4>2. v # w
        BY <2>2, <4>1
      <4>3. Tips(v)' = Tips(v)
        BY <1>2, <4>2
      <4>4. \E i \in 1..Len(Tips(v)') - 1 : Oldest(Tips(v)[i + 1])' = h
        BY <4>1, <4>3 DEF Oldest
      <4>. QED  BY <4>4
    <3>2. CASE \E c \in Closure : Live(c) /\ Begins(c, h)
      <4>1. PICK c \in Closure : Live(c) /\ Begins(c, h)
        BY <3>2
      <4>2. Live(c)' /\ cl'[c].frame = cl[c].frame
        BY <1>2, <4>1 DEF SameTree
      <4>3. CASE cl[c].frame = h
        BY <4>2, <4>3 DEF Begins
      <4>4. CASE cl[c].frame # h
        <5>1. cl[c].frame = NULL
          BY <4>1, <4>4 DEF Begins
        <5>2. PICK v \in Worker : Upper(v) = c /\ Oldest(Lower(v)) = h
          BY <4>1, <4>4 DEF Begins
        <5>3. CASE v = w
          <6>0. pc[w] \in {"user", "sync"} /\ c = Hand(w) /\ Lower(w) = Tips(w)[1]
            BY <1>1, <5>2, <5>3, LowerIs DEF WorkerOnly
          <6>1. Upper(w)' = Upper(w) /\ Oldest(Lower(w))' = Oldest(Lower(w))
            <7>1. Upper(w)' # NULL
              BY <2>2, <5>1, <5>2, <5>3, <6>0
            <7>2. CASE Upper(w)' \in Closure /\ cl[Upper(w)'].frame # NULL
              <8>1. pc'[w] \in {"user", "sync"}
                BY <7>1 DEF Upper, WorkerOnly
              <8>2. Upper(w)' = Hand(w)'
                BY <8>1 DEF Upper
              <8>. QED  BY <1>2, <5>1, <6>0, <7>2, <8>2
            <7>. QED  BY <7>1, <7>2
          <6>. QED  BY <4>2, <5>1, <5>2, <5>3, <6>1 DEF Begins
        <5>4. CASE v # w
          <6>1. Upper(v)' = Upper(v) /\ Lower(v)' = Lower(v)
            BY <1>1, <1>6, <5>2, <5>4
          <6>2. Oldest(Lower(v))' = h
            BY <5>2, <6>1 DEF Oldest
          <6>. QED  BY <4>2, <5>1, <5>2, <6>1, <6>2 DEF Begins
        <5>. QED  BY <5>3, <5>4
      <4>. QED  BY <4>3, <4>4
    <3>. QED  BY <2>2, <3>1, <3>2 DEF FInv, SpawnInv
  <2>. QED  BY <2>1, <2>2 DEF SpawnsGoOn
<1>12. \A v \in Worker : ChainInv(v)' /\ CoverInv(v)' /\ StageInv(v)'
  BY <1>6
<1>. QED  BY <1>8, <1>9, <1>10, <1>11, <1>12 DEF FInv

LEMMA UserStep ==
  ASSUME FInv, IInv', NEW w \in Worker, UserOnly(w), AtInv', UnsyncedInv', OthersGoOn(cur[w]),
         TipsGoOn(w), SpawnsGoOn(w), ChainInv(w)', CoverInv(w)', StageInv(w)',
         Upper(w)' # NULL => Upper(w)' = Upper(w) /\ Oldest(Lower(w))' = Oldest(Lower(w))
  PROVE  FInv'
<1>1. cur[w] \in Frame /\ Mine(w, cur[w])
  BY UserCover DEF UserOnly, Mine
<1>2. WorkerOnly(w)
  BY UserOnlyKeeps
<1>3. IsInjective(Tips(w))' /\ \A h \in Held(w)' : Active(h)' /\ (h \in Held(w) \/ (h \in Frame /\ ~Active(h)))
  BY DEF TipsGoOn
<1>. QED  BY <1>1, <1>2, <1>3, WorkerStep

-----------------------------------------------------------------------------
(* The frames on a shadow stack while the current one goes on.                *)

LEMMA BelowGoesOn ==
  ASSUME FInv, NEW w \in Worker, pc[w] = "user", OthersGoOn(cur[w])
  PROVE  /\ ltq[w] \in Seq(Frame) /\ Len(ltq[w]) \in Nat /\ cur[w] \in Frame
         /\ Tips(w) = Append(ltq[w], cur[w]) /\ Len(Tips(w)) = Len(ltq[w]) + 1
         /\ IsInjective(ltq[w]) /\ cur[w] \notin Range(ltq[w]) /\ Held(w) = Range(ltq[w]) \union {cur[w]}
         /\ \A h \in Range(ltq[w]) : h \in Frame /\ Active(h) /\ Active(h)' /\ h # cur[w] /\ h \in Held(w)
         /\ \A i \in 1..Len(ltq[w]) :
              /\ ltq[w][i] \in Range(ltq[w]) /\ fr[ltq[w][i]].at > 1 /\ fr'[ltq[w][i]].at > 1
              /\ fr'[ltq[w][i]].at = fr[ltq[w][i]].at
              /\ Body[ltq[w][i]][fr'[ltq[w][i]].at - 1] = Oldest(Tips(w)[i + 1])
              /\ Fresh(Tips(w)[i + 1]) /\ FreshIn(fr', Tips(w)[i + 1])
              /\ Tips(w)[i + 1] = IF i < Len(ltq[w]) THEN ltq[w][i + 1] ELSE cur[w]
<1>1. Typed /\ IInv /\ PlaceInv(w) /\ TipInv /\ ChainInv(w)
  BY FParts
<1>2. /\ cur[w] \in Frame /\ ltq[w] \in Seq(Frame) /\ Len(ltq[w]) \in Nat /\ Len(Tips(w)) = Len(ltq[w]) + 1
      /\ Tips(w)[Len(Tips(w))] = cur[w] /\ \A i \in 1..Len(ltq[w]) : Tips(w)[i] = ltq[w][i]
      /\ Held(w) = Range(ltq[w]) \union {cur[w]} /\ Tips(w) \in Seq(Frame) /\ Tips(w) = Append(ltq[w], cur[w])
  BY <1>1, TipsAre DEF AtFrames
<1>3. Tips(w) # <<>> /\ Front(Tips(w)) = ltq[w] /\ Last(Tips(w)) = cur[w]
  <2>1. Tips(w) # <<>>
    BY <1>2, EmptySeq
  <2>2. /\ Front(Tips(w)) \in Seq(Frame) /\ Len(Front(Tips(w))) = Len(Tips(w)) - 1
        /\ \A i \in 1..Len(Tips(w)) - 1 : Front(Tips(w))[i] = Tips(w)[i]
        /\ Last(Tips(w)) = Tips(w)[Len(Tips(w))]
    BY <1>2, <2>1, PopFacts
  <2>3. Len(Front(Tips(w))) = Len(ltq[w]) /\ \A i \in 1..Len(ltq[w]) : Front(Tips(w))[i] = ltq[w][i]
    BY <1>2, <2>2
  <2>4. Front(Tips(w)) = ltq[w]
    BY <1>2, <2>2, <2>3, SeqEqual
  <2>. QED  BY <1>2, <2>1, <2>2, <2>4
<1>4. IsInjective(ltq[w]) /\ cur[w] \notin Range(ltq[w])
  <2>1. IsInjective(Tips(w))
    BY <1>1 DEF TipInv
  <2>2. Range(Front(Tips(w))) = Range(Tips(w)) \ {Last(Tips(w))} /\ IsInjective(Front(Tips(w)))
    BY <1>2, <1>3, <2>1, PopRange
  <2>. QED  BY <1>3, <2>2
<1>5. ASSUME NEW h \in Range(ltq[w])
      PROVE  h \in Frame /\ Active(h) /\ Active(h)' /\ h # cur[w] /\ h \in Held(w) /\ fr'[h].at = fr[h].at
  <2>1. h \in Frame /\ h # cur[w] /\ h \in Held(w)
    BY <1>2, <1>4, RangeOfSeq
  <2>. QED  BY <1>1, <2>1 DEF TipInv, OthersGoOn
<1>6. ASSUME NEW i \in 1..Len(ltq[w])
      PROVE  /\ ltq[w][i] \in Range(ltq[w]) /\ fr[ltq[w][i]].at > 1 /\ fr'[ltq[w][i]].at > 1
             /\ fr'[ltq[w][i]].at = fr[ltq[w][i]].at
             /\ Body[ltq[w][i]][fr'[ltq[w][i]].at - 1] = Oldest(Tips(w)[i + 1])
             /\ Fresh(Tips(w)[i + 1]) /\ FreshIn(fr', Tips(w)[i + 1])
             /\ Tips(w)[i + 1] = IF i < Len(ltq[w]) THEN ltq[w][i + 1] ELSE cur[w]
  <2>1. DOMAIN ltq[w] = 1..Len(ltq[w])
    BY <1>2, LenProperties
  <2>2. ltq[w][i] \in Range(ltq[w])
    BY <2>1 DEF Range
  <2>3. i \in 1..Len(Tips(w)) - 1 /\ Tips(w)[i] = ltq[w][i]
    BY <1>2
  <2>4. fr[ltq[w][i]].at > 1 /\ Prev(ltq[w][i]) = Oldest(Tips(w)[i + 1]) /\ Fresh(Tips(w)[i + 1])
    BY <1>1, <2>3 DEF ChainInv
  <2>5. fr'[ltq[w][i]].at = fr[ltq[w][i]].at
    BY <1>5, <2>2
  <2>6. Tips(w)[i + 1] = IF i < Len(ltq[w]) THEN ltq[w][i + 1] ELSE cur[w]
    <3>1. CASE i < Len(ltq[w])
      <4>1. i + 1 \in 1..Len(ltq[w])
        BY <1>2, <3>1
      <4>. QED  BY <1>2, <3>1, <4>1
    <3>2. CASE ~(i < Len(ltq[w]))
      BY <1>2, <3>2
    <3>. QED  BY <3>1, <3>2
  <2>7. Tips(w)[i + 1] \in Held(w)
    <3>1. CASE i < Len(ltq[w])
      <4>1. i + 1 \in 1..Len(ltq[w])
        BY <1>2, <3>1
      <4>. QED  BY <1>2, <2>1, <2>6, <3>1, <4>1 DEF Range
    <3>2. CASE ~(i < Len(ltq[w]))
      BY <1>2, <2>6, <3>2
    <3>. QED  BY <3>1, <3>2
  <2>8. Tips(w)[i + 1] \in Frame /\ fr[Tips(w)[i + 1]].at # 0
    BY <1>1, <2>7, TipsAre, AtFacts DEF TipInv, Active
  <2>9. FreshIn(fr', Tips(w)[i + 1])
    BY <1>1, <2>4, <2>8, FlagsCover DEF OthersGoOn, Fresh
  <2>. QED  BY <2>2, <2>4, <2>5, <2>6, <2>9 DEF Prev
<1>. QED  BY <1>2, <1>4, <1>5, <1>6

(* The chain of a worker in user code, spelled out.                           *)
LEMMA ChainFrom ==
  ASSUME NEW w \in Worker, pc'[w] = "user", NEW s \in Seq(Frame), NEW x \in Frame,
         Tips(w)' = Append(s, x),
         \A i \in 1..Len(s) : /\ fr'[s[i]].at > 1
                              /\ Body[s[i]][fr'[s[i]].at - 1] = Oldest(IF i < Len(s) THEN s[i + 1] ELSE x)
                              /\ FreshIn(fr', IF i < Len(s) THEN s[i + 1] ELSE x)
  PROVE  ChainInv(w)'
<1>1. /\ Len(s) \in Nat /\ Len(Append(s, x)) = Len(s) + 1 /\ Append(s, x)[Len(s) + 1] = x
      /\ \A i \in 1..Len(s) : Append(s, x)[i] = s[i]
  BY PushFacts
<1>2. ASSUME NEW i \in 1..Len(Append(s, x)) - 1
      PROVE  /\ fr'[Append(s, x)[i]].at > 1
             /\ Body[Append(s, x)[i]][fr'[Append(s, x)[i]].at - 1] = Oldest(Append(s, x)[i + 1])
             /\ FreshIn(fr', Append(s, x)[i + 1])
  <2>1. i \in 1..Len(s) /\ Append(s, x)[i] = s[i]
    BY <1>1
  <2>2. Append(s, x)[i + 1] = IF i < Len(s) THEN s[i + 1] ELSE x
    <3>1. CASE i < Len(s)
      <4>1. i + 1 \in 1..Len(s)
        BY <1>1, <2>1, <3>1
      <4>. QED  BY <1>1, <3>1, <4>1
    <3>2. CASE ~(i < Len(s))
      BY <1>1, <2>1, <3>2
    <3>. QED  BY <3>1, <3>2
  <2>. QED  BY <2>1, <2>2
<1>. QED  BY <1>2 DEF ChainInv, Prev, Fresh

-----------------------------------------------------------------------------
(* User code.                                                                 *)

LEMMA UserFrame ==
  ASSUME FInv, NEW w \in Worker, NEW f \in Frame, InUser(w, f)
  PROVE  /\ pc[w] = "user" /\ cur[w] = f /\ Active(f) /\ Running(f) /\ fr[f].at # 0 /\ f \in Held(w)
         /\ good[w] = FALSE /\ t[w] = NULL /\ Hand(w) \in Closure
<1>1. pc[w] = "user" /\ cur[w] = f
  BY DEF InUser, At
<1>2. Typed /\ StageInv(w)
  BY FParts
<1>3. good[w] = FALSE
  BY <1>1, <1>2 DEF StageInv, Typed, TypedRuntime
<1>4. Active(f) /\ f \in Held(w) /\ t[w] = NULL /\ Hand(w) \in Closure
  BY <1>1, UserCover
<1>. QED  BY <1>1, <1>2, <1>3, <1>4, AtFacts DEF Active

LEMMA EnterGoesOn ==
  ASSUME FInv, NEW f \in Frame, NEW g \in Frame, Enters(f, g)
  PROVE  OthersGoOn(f) /\ AtInv' /\ UnsyncedInv'
<1>1. IInv /\ AtInv /\ UnsyncedInv
  BY FParts
<1>2. /\ AtInv' /\ UnsyncedInv' /\ ~Active(g)
      /\ \A h \in Frame \ {f} : Active(h) => Active(h)'
      /\ \A h \in Frame : /\ (Over(h) <=> Over(h)') /\ (fr[h].at # 0 => fr'[h].stolen = fr[h].stolen)
                          /\ (fr[h].at # 0 => (fr'[h].unsynced <=> fr[h].unsynced))
  BY <1>1, EnterAt
<1>3. ASSUME NEW h \in Frame \ {f}, Active(h)
      PROVE  Active(h)' /\ fr'[h].at = fr[h].at /\ (fr[h].unsynced => fr'[h].unsynced)
  <2>1. h # g
    BY <1>2, <1>3
  <2>2. fr[h].at # 0
    BY <1>3, FParts, AtFacts DEF Active
  <2>. QED  BY <1>2, <1>3, <2>1, <2>2 DEF Enters
<1>4. SameFlags
  <2>. SUFFICES ASSUME NEW h \in Frame, fr[h].at # 0
                PROVE  fr'[h].stolen = fr[h].stolen /\ (fr'[h].unsynced <=> fr[h].unsynced)
    BY DEF SameFlags
  <2>1. fr'[h].stolen = fr[h].stolen
    BY <1>2
  <2>2. fr'[h].unsynced <=> fr[h].unsynced
    BY <1>2
  <2>. QED  BY <2>1, <2>2
<1>5. \A h \in Frame : Over(h) => Over(h)'
  BY <1>2
<1>. QED  BY <1>2, <1>3, <1>4, <1>5 DEF OthersGoOn

LEMMA AdvanceGoesOn ==
  ASSUME FInv, NEW f \in Frame, Advances(f),
         fr[f].unsynced => fr'[f].unsynced \/ \A p \in Closure : cl[p].frame = f => Kids(p) = {}
  PROVE  /\ OthersGoOn(f) /\ AtInv' /\ UnsyncedInv' /\ \A h \in Frame : Running(h)' => Running(h)
         /\ (fr[f].at # End(f) => Active(f)') /\ (fr[f].at = End(f) => Over(f)')
<1>1. IInv /\ AtInv /\ UnsyncedInv
  BY FParts
<1>2. /\ AtInv' /\ UnsyncedInv' /\ (fr[f].at # End(f) => Active(f)') /\ (fr[f].at = End(f) => Over(f)')
      /\ \A h \in Frame \ {f} : Active(h) => Active(h)'
      /\ \A h \in Frame : (Over(h) => Over(h)') /\ fr'[h].stolen = fr[h].stolen /\ (Running(h)' => Running(h))
  BY <1>1, AdvanceAt
<1>3. \A h \in Frame \ {f} : fr'[h].at = fr[h].at /\ (fr[h].unsynced => fr'[h].unsynced)
  BY DEF Advances
<1>4. SameFlags
  <2>. SUFFICES ASSUME NEW h \in Frame
                PROVE  /\ fr'[h].stolen = fr[h].stolen
                       /\ fr[h].unsynced => fr'[h].unsynced \/ \A p \in Closure : cl[p].frame = h => Kids(p) = {}
    BY DEF SameFlags
  <2>1. CASE h = f
    BY <1>2, <2>1
  <2>2. CASE h # f
    BY <1>2, <1>3, <2>2
  <2>. QED  BY <2>1, <2>2
<1>5. \A h \in Frame \ {f} : Active(h) => Active(h)' /\ fr'[h].at = fr[h].at /\ (fr[h].unsynced => fr'[h].unsynced)
  BY <1>2, <1>3
<1>6. \A h \in Frame : Over(h) => Over(h)'
  BY <1>2
<1>. QED  BY <1>2, <1>4, <1>5, <1>6 DEF OthersGoOn

(* The closure of w still covers its first frame, if that is the same or is   *)
(* of the same stacklet and covered.                                          *)
LEMMA UserCoverKept ==
  ASSUME FInv, NEW w \in Worker, UserOnly(w), OthersGoOn(cur[w]), pc'[w] \in {"user", "sync"},
         NEW x \in Frame, Tips(w)'[1] = x, Oldest(x) = Oldest(Tips(w)[1]),
         x = Tips(w)[1] \/ CoversIn(fr', cl[Hand(w)].frame, x)
  PROVE  /\ CoverInv(w)' /\ Upper(w)' = Upper(w) /\ Oldest(Lower(w))' = Oldest(Lower(w)) /\ Upper(w)' # NULL
<1>1. /\ Upper(w) = Hand(w) /\ Lower(w) = Tips(w)[1] /\ Hand(w) \in Closure /\ Covers(Hand(w), Tips(w)[1])
      /\ Lower(w) \in Held(w)
  BY UserCover DEF UserOnly
<1>2. Upper(w)' = Hand(w)' /\ Lower(w)' = Tips(w)'[1]
  BY DEF Upper, Lower
<1>3. Hand(w)' = Hand(w) /\ Hand(w) # NULL
  BY <1>1, UserOnlyKeeps, FParts
<1>4. CoversIn(fr', cl[Hand(w)].frame, x)
  <2>1. CASE x = Tips(w)[1]
    <3>1. x \in Frame /\ fr[x].at # 0
      BY <1>1, <1>3, <2>1, LowerIs
    <3>2. CoversIn(fr, cl[Hand(w)].frame, x)
      BY <1>1, <2>1 DEF Covers
    <3>. QED  BY <3>1, <3>2, FParts, FlagsCover DEF OthersGoOn
  <2>. QED  BY <2>1
<1>5. CoverInv(w)'
  <2>1. CoversIn(fr', cl'[Hand(w)].frame, x)
    BY <1>4 DEF UserOnly
  <2>. QED  BY <1>2, <1>3, <2>1 DEF CoverInv, Covers
<1>6. Oldest(Lower(w))' = Oldest(Lower(w))
  <2>1. Lower(w)' = x
    BY <1>2
  <2>2. Oldest(Lower(w))' = Oldest(x)
    BY <2>1 DEF Oldest
  <2>. QED  BY <1>1, <2>2
<1>. QED  BY <1>1, <1>2, <1>3, <1>5, <1>6

LEMMA UserStage ==
  ASSUME FInv, NEW w \in Worker, NEW f \in Frame, InUser(w, f), good' = good, pc'[w] = "user"
  PROVE  StageInv(w)'
BY UserFrame DEF StageInv

(* A step at the top of the stack: the current frame goes on, or gives way to *)
(* another of its stacklet.                                                   *)
LEMMA TopStep ==
  ASSUME FInv, IInv', NEW w \in Worker, UserOnly(w), pc'[w] = "user", AtInv', UnsyncedInv', OthersGoOn(cur[w]),
         NEW x \in Frame, Tips(w)' = Append(ltq[w], x), Active(x)', x = cur[w] \/ ~Active(x),
         Oldest(x) = Oldest(cur[w]), FreshIn(fr', cur[w]) => FreshIn(fr', x),
         \A y : CoversIn(fr', y, cur[w]) => CoversIn(fr', y, x),
         \A h \in Helper : Running(h)' => Running(h)
  PROVE  FInv'
<1>. DEFINE s == ltq[w]
<1>1. pc[w] = "user"
  BY DEF UserOnly
<1>2. /\ s \in Seq(Frame) /\ Len(s) \in Nat /\ cur[w] \in Frame
      /\ Tips(w) = Append(s, cur[w]) /\ Len(Tips(w)) = Len(s) + 1
      /\ IsInjective(s) /\ cur[w] \notin Range(s) /\ Held(w) = Range(s) \union {cur[w]}
      /\ \A h \in Range(s) : h \in Frame /\ Active(h) /\ Active(h)' /\ h # cur[w] /\ h \in Held(w)
      /\ \A i \in 1..Len(s) :
           /\ fr'[s[i]].at > 1 /\ Body[s[i]][fr'[s[i]].at - 1] = Oldest(Tips(w)[i + 1])
           /\ FreshIn(fr', Tips(w)[i + 1])
           /\ Tips(w)[i + 1] = IF i < Len(s) THEN s[i + 1] ELSE cur[w]
  BY <1>1, BelowGoesOn, SMTT(30)
<1>3. /\ Tips(w)' \in Seq(Frame) /\ Len(Tips(w)') = Len(s) + 1
      /\ Tips(w)'[Len(s) + 1] = x /\ \A i \in 1..Len(s) : Tips(w)'[i] = s[i]
      /\ Tips(w)[Len(s) + 1] = cur[w] /\ \A i \in 1..Len(s) : Tips(w)[i] = s[i]
  BY <1>2, PushFacts, SMTT(30)
<1>4. x \notin Range(s)
  BY <1>2
<1>5. IsInjective(Tips(w))' /\ Held(w)' = Range(s) \union {x}
  BY <1>2, <1>4, PushRange DEF Held
<1>6. ChainInv(w)'
  <2>1. \A i \in 1..Len(s) :
           /\ fr'[s[i]].at > 1
           /\ Body[s[i]][fr'[s[i]].at - 1] = Oldest(IF i < Len(s) THEN s[i + 1] ELSE x)
           /\ FreshIn(fr', IF i < Len(s) THEN s[i + 1] ELSE x)
    <3>. TAKE i \in 1..Len(s)
    <3>1. CASE i < Len(s)
      BY <1>2, <3>1
    <3>2. CASE ~(i < Len(s))
      BY <1>2, <3>2
    <3>. QED  BY <3>1, <3>2
  <2>. QED  BY <1>2, <2>1, ChainFrom
<1>7. CoverInv(w)' /\ Upper(w)' = Upper(w) /\ Oldest(Lower(w))' = Oldest(Lower(w)) /\ Upper(w)' # NULL
  <2>0. UserOnly(w) /\ pc'[w] \in {"user", "sync"} /\ OthersGoOn(cur[w])
    BY <1>1
  <2>1. CASE s = <<>>
    <3>1. Len(s) = 0
      BY <2>1, OneEntry
    <3>2. Tips(w)'[1] = x /\ Tips(w)[1] = cur[w]
      BY <1>3, <3>1
    <3>3. Covers(Hand(w), cur[w]) /\ fr[cur[w]].at # 0 /\ IInv
      BY <1>1, <3>2, UserCover, FParts, AtFacts DEF Active
    <3>4. CoversIn(fr', cl[Hand(w)].frame, cur[w])
      BY <1>2, <3>3, FlagsCover DEF Covers, OthersGoOn
    <3>5. CoversIn(fr', cl[Hand(w)].frame, x)
      BY <3>4
    <3>. QED  BY <2>0, <3>2, <3>5, UserCoverKept
  <2>2. CASE s # <<>>
    <3>1. 1 \in 1..Len(s)
      BY <1>2, <2>2, EmptySeq
    <3>2. Tips(w)'[1] = Tips(w)[1] /\ Tips(w)[1] \in Frame
      BY <1>2, <1>3, <3>1, ElementOfSeq
    <3>. QED  BY <2>0, <3>2, UserCoverKept
  <2>. QED  BY <2>1, <2>2
<1>8. StageInv(w)'
  <2>1. InUser(w, cur[w]) /\ good' = good
    BY <1>1 DEF InUser, At, UserOnly
  <2>. QED  BY <1>2, <2>1, UserStage
<1>9. TipsGoOn(w)
  <2>1. ASSUME NEW h \in Held(w)'  PROVE Active(h)' /\ (h \in Held(w) \/ (h \in Frame /\ ~Active(h)))
    <3>1. CASE h = x
      BY <1>2, <3>1
    <3>2. CASE h # x
      BY <1>2, <1>5, <2>1, <3>2
    <3>. QED  BY <3>1, <3>2
  <2>. QED  BY <1>5, <2>1 DEF TipsGoOn
<1>10. \A i \in 1..Len(s) : Oldest(Tips(w)'[i + 1]) = Oldest(Tips(w)[i + 1])
  <2>. TAKE i \in 1..Len(s)
  <2>1. CASE i < Len(s)
    <3>1. i + 1 \in 1..Len(s)
      BY <1>2, <2>1
    <3>. QED  BY <1>3, <3>1
  <2>2. CASE ~(i < Len(s))
    <3>1. i = Len(s)
      BY <1>2, <2>2
    <3>. QED  BY <1>3, <3>1
  <2>. QED  BY <2>1, <2>2
<1>11. SpawnsGoOn(w)
  <2>. SUFFICES ASSUME NEW h \in Helper, Running(h)', ~\E i \in 1..Len(Tips(w)') - 1 : Oldest(Tips(w)[i + 1])' = h
                PROVE  Running(h) /\ \A i \in 1..Len(Tips(w)) - 1 : Oldest(Tips(w)[i + 1]) # h
    BY <1>7 DEF SpawnsGoOn
  <2>1. Len(Tips(w)') - 1 = Len(s) /\ Len(Tips(w)) - 1 = Len(s)
    BY <1>2, <1>3
  <2>2. \A i \in 1..Len(s) : Oldest(Tips(w)[i + 1])' = Oldest(Tips(w)[i + 1])
    BY <1>10 DEF Oldest
  <2>. QED  BY <2>1, <2>2
<1>. QED  BY <1>6, <1>7, <1>8, <1>9, <1>11, UserStep

LEMMA FastSyncAdvances ==
  ASSUME FInv, IInv', NEW w \in Worker, NEW f \in Frame, FastSync(w, f)
  PROVE  Advances(f) /\ AtSync(f) /\ fr'[f].unsynced = fr[f].unsynced /\ fr[f].at # End(f)
<1>0. Active(f)
  BY UserFrame DEF FastSync
<1>1. fr' \in [Frame -> FrameRecord] /\ fr \in [Frame -> FrameRecord]
  BY FParts DEF IInv, Typed, TypedRun
<1>2. fr[f].at < End(f) /\ Body[f][fr[f].at] = SYNC
  BY WorkerAssumption DEF FastSync, NextInstr
<1>3. fr[f] \in FrameRecord /\ fr' = [fr EXCEPT ![f] = [fr[f] EXCEPT !.at = fr[f].at + 1]]
  BY <1>1 DEF FastSync
<1>4. /\ fr'[f].at = fr[f].at + 1 /\ fr'[f].stolen = fr[f].stolen /\ fr'[f].unsynced = fr[f].unsynced
      /\ \A h \in Frame \ {f} : fr'[h] = fr[h]
  BY <1>1, <1>3 DEF FrameRecord
<1>. QED  BY <1>0, <1>1, <1>2, <1>4, AtFacts, FParts DEF Advances, AtSync

LEMMA FastSyncF ==
  ASSUME FInv, IInv', NEW w \in Worker, NEW f \in Frame, FastSync(w, f)
  PROVE  FInv'
<1>1. /\ pc[w] = "user" /\ cur[w] = f /\ Active(f) /\ InUser(w, f)
  BY UserFrame DEF FastSync
<1>2. UserOnly(w) /\ pc'[w] = "user" /\ Tips(w)' = Append(ltq[w], f)
  <2>1. UserOnly(w) /\ pc'[w] = "user"
    BY <1>1 DEF FastSync, UserOnly, treeVars, fiberVars
  <2>. QED  BY <1>1, <2>1 DEF FastSync, Tips
<1>3. Advances(f) /\ fr'[f].unsynced = fr[f].unsynced /\ fr[f].at # End(f)
  BY FastSyncAdvances
<1>4. OthersGoOn(f) /\ AtInv' /\ UnsyncedInv' /\ Active(f)' /\ \A h \in Frame : Running(h)' => Running(h)
  BY <1>3, AdvanceGoesOn
<1>. QED  BY <1>1, <1>2, <1>4, Kinds, TopStep

(* A frame returns: what leaving does to the frames.                          *)
LEMMA LeaveIs ==
  ASSUME FInv, IInv', NEW w \in Worker, NEW f \in Frame, Leave(w, f)
  PROVE  /\ pc[w] = "user" /\ cur[w] = f /\ Active(f) /\ InUser(w, f) /\ f \in Held(w)
         /\ cur' = [cur EXCEPT ![w] = Caller(f)] /\ cur'[w] = Caller(f)
         /\ \A v \in Worker \ {w} : cur'[v] = cur[v]
         /\ Advances(f) /\ fr'[f].unsynced = fr[f].unsynced /\ fr'[f].stolen = fr[f].stolen
         /\ fr[f].at = End(f) /\ Over(f)'
         /\ OthersGoOn(f) /\ AtInv' /\ UnsyncedInv' /\ \A h \in Frame : Running(h)' => Running(h)
<1>1. /\ pc[w] = "user" /\ cur[w] = f /\ Active(f) /\ InUser(w, f) /\ f \in Held(w)
  BY UserFrame DEF Leave
<1>2. cur \in [Worker -> Frame \union {NULL}]
  BY FParts DEF Typed, TypedRun
<1>3. /\ cur' = [cur EXCEPT ![w] = Caller(f)] /\ cur'[w] = Caller(f)
      /\ \A v \in Worker \ {w} : cur'[v] = cur[v]
  BY <1>2 DEF Leave
<1>4. Advances(f) /\ fr'[f].unsynced = fr[f].unsynced /\ fr'[f].stolen = fr[f].stolen /\ fr[f].at = End(f)
  <2>1. fr' \in [Frame -> FrameRecord] /\ fr \in [Frame -> FrameRecord]
    BY FParts DEF IInv, Typed, TypedRun
  <2>2. fr[f] \in FrameRecord /\ fr' = [fr EXCEPT ![f] = [fr[f] EXCEPT !.at = fr[f].at + 1]] /\ fr[f].at = End(f)
    BY <2>1 DEF Leave
  <2>3. /\ fr'[f].at = fr[f].at + 1 /\ fr'[f].stolen = fr[f].stolen /\ fr'[f].unsynced = fr[f].unsynced
        /\ \A h \in Frame \ {f} : fr'[h] = fr[h]
    BY <2>1, <2>2 DEF FrameRecord
  <2>. QED  BY <1>1, <2>1, <2>2, <2>3 DEF Advances
<1>5. /\ OthersGoOn(f) /\ AtInv' /\ UnsyncedInv' /\ Over(f)' /\ \A h \in Frame : Running(h)' => Running(h)
  BY <1>4, AdvanceGoesOn
<1>. QED  BY <1>1, <1>3, <1>4, <1>5

LEMMA ReturnToCallerF ==
  ASSUME FInv, IInv', NEW w \in Worker, NEW f \in Frame, ReturnToCaller(w, f)
  PROVE  FInv'
<1>0. Leave(w, f) /\ f \in Called /\ ~fr[f].stolen
  BY DEF ReturnToCaller, Called
<1>1. /\ pc[w] = "user" /\ cur[w] = f /\ cur'[w] = Caller(f) /\ \A v \in Worker \ {w} : cur'[v] = cur[v]
      /\ Advances(f) /\ fr'[f].stolen = fr[f].stolen /\ fr[f].at = End(f)
      /\ OthersGoOn(f) /\ AtInv' /\ UnsyncedInv' /\ \A h \in Frame : Running(h)' => Running(h)
  BY <1>0, LeaveIs
<1>2. UserOnly(w) /\ pc'[w] = "user" /\ Tips(w)' = Append(ltq[w], Caller(f))
  <2>1. UserOnly(w) /\ pc'[w] = "user"
    BY <1>1 DEF ReturnToCaller, UserOnly, treeVars, fiberVars
  <2>. QED  BY <1>1, <2>1 DEF ReturnToCaller, Tips
<1>3. Caller(f) \in Frame /\ Oldest(Caller(f)) = Oldest(f)
  BY <1>0, Kinds, StackletOf
<1>4. ~Active(Caller(f)) /\ Active(Caller(f))'
  BY <1>0, <1>1, FParts, AdvanceAt
<1>5. /\ FreshIn(fr', f) => FreshIn(fr', Caller(f))
      /\ \A y : CoversIn(fr', y, f) => CoversIn(fr', y, Caller(f))
  <2>1. ~fr'[f].stolen
    BY <1>0, <1>1
  <2>. QED  BY <1>0, <2>1, CoverShift
<1>. QED  BY <1>1, <1>2, <1>3, <1>4, <1>5, Kinds, TopStep

LEMMA CallEnters ==
  ASSUME FInv, IInv', NEW w \in Worker, NEW f \in Frame, Call(w, f)
  PROVE  NextInstr(f) \in Frame \ Helper /\ Enters(f, NextInstr(f))
<1>1. /\ pc[w] = "user" /\ cur[w] = f /\ Active(f) /\ InUser(w, f) /\ fr[f].at # 0
  BY UserFrame DEF Call
<1>2. PICK g \in Frame \ Helper : g = NextInstr(f)
  BY DEF Call
<1>3. Enters(f, g)
  <2>1. fr' \in [Frame -> FrameRecord] /\ fr \in [Frame -> FrameRecord]
    BY FParts DEF IInv, Typed, TypedRun
  <2>2. g # f /\ g \in Frame
    BY <1>1, <1>2, FParts, AtFacts, NextFrame DEF Active
  <2>3. fr' = [fr EXCEPT ![f] = [fr[f] EXCEPT !.at = fr[f].at + 1], ![g] = NewFrame(w, on[w])]
    BY <1>2, <2>1, <2>2 DEF Call
  <2>4. /\ fr'[f] = [fr[f] EXCEPT !.at = fr[f].at + 1] /\ fr'[g] = NewFrame(w, on[w])
        /\ \A h \in Frame \ {f, g} : fr'[h] = fr[h]
    BY <2>1, <2>2, <2>3
  <2>5. /\ fr'[f].at = fr[f].at + 1 /\ fr'[f].stolen = fr[f].stolen /\ fr'[f].unsynced = fr[f].unsynced
    BY <2>1, <2>4 DEF FrameRecord
  <2>6. fr'[g].at = 1 /\ ~fr'[g].stolen /\ ~fr'[g].unsynced
    BY <2>4 DEF NewFrame
  <2>. QED  BY <1>1, <1>2, <2>1, <2>4, <2>5, <2>6 DEF Enters
<1>. QED  BY <1>2, <1>3

LEMMA CallF ==
  ASSUME FInv, IInv', NEW w \in Worker, NEW f \in Frame, Call(w, f)
  PROVE  FInv'
<1>1. /\ pc[w] = "user" /\ cur[w] = f /\ Active(f) /\ InUser(w, f) /\ fr[f].at # 0
  BY UserFrame DEF Call
<1>2. PICK g \in Frame \ Helper : g = NextInstr(f)
  BY DEF Call
<1>3. Enters(f, g)
  BY <1>1, <1>2, CallEnters DEF InUser
<1>4. OthersGoOn(f) /\ AtInv' /\ UnsyncedInv'
  BY <1>3, EnterGoesOn
<1>5. g # f /\ g # Root /\ Caller(g) = f /\ ~Active(g) /\ Active(g)'
  BY <1>3, FParts, EnterAt
<1>6. g \in Called /\ Oldest(g) = Oldest(f) /\ ~fr'[g].stolen
  <2>1. g \in Called
    BY <1>2, <1>5 DEF Called
  <2>. QED  BY <1>3, <1>5, <2>1, StackletOf DEF Enters
<1>7. UserOnly(w) /\ pc'[w] = "user" /\ Tips(w)' = Append(ltq[w], g)
  <2>0. cur' = [cur EXCEPT ![w] = g] /\ cur \in [Worker -> Frame \union {NULL}]
    BY <1>2, FParts DEF Call, Typed, TypedRun
  <2>1. cur'[w] = g /\ \A v \in Worker \ {w} : cur'[v] = cur[v]
    BY <2>0
  <2>2. UserOnly(w) /\ pc'[w] = "user"
    BY <1>1, <2>1 DEF Call, UserOnly, treeVars, fiberVars
  <2>. QED  BY <2>1, <2>2 DEF Call, Tips
<1>8. /\ FreshIn(fr', f) => FreshIn(fr', g)
      /\ \A y : CoversIn(fr', y, f) => CoversIn(fr', y, g)
  BY <1>5, <1>6, CoverShift
<1>9. \A h \in Helper : Running(h)' => Running(h)
  <2>. SUFFICES ASSUME NEW h \in Helper, Running(h)'  PROVE Running(h)
    OBVIOUS
  <2>1. h # g /\ h \in Frame
    BY <1>2, Kinds
  <2>2. CASE h = f
    BY <1>1, <2>2 DEF Active
  <2>3. CASE h # f
    BY <1>3, <2>1, <2>3 DEF Enters, Running
  <2>. QED  BY <2>2, <2>3
<1>. QED  BY <1>1, <1>4, <1>5, <1>6, <1>7, <1>8, <1>9, TopStep

(* A spawn helper returns to its parent, which is the last on the stack.      *)
LEMMA LastIsCaller ==
  ASSUME FInv, NEW w \in Worker, pc[w] = "user", cur[w] \in Helper, ltq[w] # <<>>
  PROVE  /\ Len(ltq[w]) \in Nat \ {0} /\ ltq[w] \in Seq(Frame)
         /\ Caller(cur[w]) = ltq[w][Len(ltq[w])] /\ Last(ltq[w]) = Caller(cur[w])
<1>. DEFINE s == ltq[w]
            n == Len(s)
<1>1. Typed /\ PlaceInv(w) /\ TipInv /\ ChainInv(w)
  BY FParts
<1>2. /\ cur[w] \in Frame /\ s \in Seq(Frame) /\ n \in Nat /\ Len(Tips(w)) = n + 1
      /\ Tips(w)[n + 1] = cur[w] /\ \A i \in 1..n : Tips(w)[i] = s[i]
      /\ Held(w) = {Tips(w)[i] : i \in 1..Len(Tips(w))}
  BY <1>1, TipsAre DEF AtFrames
<1>3. n \in Nat \ {0} /\ n \in 1..n /\ Last(s) = s[n]
  BY <1>2, EmptySeq DEF Last
<1>4. fr[s[n]].at > 1 /\ Prev(s[n]) = Oldest(cur[w]) /\ s[n] \in Frame
  BY <1>1, <1>2, <1>3, ElementOfSeq DEF ChainInv
<1>5. Oldest(cur[w]) = cur[w] /\ cur[w] # Root
  BY <1>2, StackletOf, Kinds
<1>6. fr[s[n]].at - 1 \in 1..Len(Body[s[n]])
  <2>1. s[n] \in Held(w)
    BY <1>2, <1>3
  <2>2. Active(s[n])
    BY <1>1, <2>1 DEF TipInv
  <2>3. fr[s[n]].at <= Len(Body[s[n]]) + 1 /\ fr[s[n]].at \in Nat /\ Len(Body[s[n]]) \in Nat
    BY <1>1, <1>4, <2>2, AtFacts DEF Active
  <2>. QED  BY <1>4, <2>3
<1>7. s[n] = Caller(cur[w])
  <2>1. Body[s[n]][fr[s[n]].at - 1] = cur[w]
    BY <1>4, <1>5 DEF Prev
  <2>. QED  BY <1>2, <1>4, <1>5, <1>6, <2>1, Places
<1>. QED  BY <1>2, <1>3, <1>7

LEMMA PopParentF ==
  ASSUME FInv, IInv', NEW w \in Worker, NEW f \in Frame, PopParent(w, f)
  PROVE  FInv'
<1>. DEFINE s == ltq[w]
            n == Len(s)
<1>0. Leave(w, f) /\ f \in Helper /\ s # <<>>
  BY DEF PopParent
<1>1. /\ pc[w] = "user" /\ cur[w] = f /\ cur'[w] = Caller(f) /\ \A v \in Worker \ {w} : cur'[v] = cur[v]
      /\ Advances(f) /\ fr[f].at = End(f) /\ Over(f)' /\ InUser(w, f)
      /\ OthersGoOn(f) /\ AtInv' /\ UnsyncedInv' /\ \A h \in Frame : Running(h)' => Running(h)
  BY <1>0, LeaveIs
<1>2. n \in Nat \ {0} /\ s \in Seq(Frame) /\ Caller(f) = s[n] /\ Last(s) = s[n]
  BY <1>0, <1>1, LastIsCaller
<1>3. /\ Tips(w) = Append(s, f) /\ Len(Tips(w)) = n + 1
      /\ IsInjective(s) /\ Held(w) = Range(s) \union {f}
      /\ \A h \in Range(s) : h \in Frame /\ Active(h) /\ Active(h)' /\ h # f /\ h \in Held(w)
      /\ \A i \in 1..n :
           /\ s[i] \in Range(s) /\ fr'[s[i]].at > 1 /\ Body[s[i]][fr'[s[i]].at - 1] = Oldest(Tips(w)[i + 1])
           /\ FreshIn(fr', Tips(w)[i + 1])
           /\ Tips(w)[i + 1] = IF i < n THEN s[i + 1] ELSE f
  BY <1>1, BelowGoesOn
<1>4. ltq'[w] = Front(s) /\ \A v \in Worker \ {w} : ltq'[v] = ltq[v]
  <2>1. ltq \in [Worker -> Seq(Frame)]
    BY FParts DEF Typed, TypedRun
  <2>. QED  BY <2>1 DEF PopParent
<1>5. /\ Front(s) \in Seq(Frame) /\ Len(Front(s)) = n - 1 /\ \A i \in 1..n-1 : Front(s)[i] = s[i]
      /\ Append(Front(s), s[n]) = s
  <2>1. /\ Front(s) \in Seq(Frame) /\ Len(Front(s)) = n - 1 /\ \A i \in 1..n-1 : Front(s)[i] = s[i]
    BY <1>0, <1>2, PopFacts
  <2>2. s[n] \in Frame
    BY <1>2, ElementOfSeq
  <2>3. /\ Append(Front(s), s[n]) \in Seq(Frame) /\ Len(Append(Front(s), s[n])) = Len(Front(s)) + 1
        /\ Append(Front(s), s[n])[Len(Front(s)) + 1] = s[n]
        /\ \A i \in 1..Len(Front(s)) : Append(Front(s), s[n])[i] = Front(s)[i]
    BY <2>1, <2>2, PushFacts
  <2>4. ASSUME NEW i \in 1..n  PROVE Append(Front(s), s[n])[i] = s[i]
    <3>1. CASE i = n
      BY <1>2, <2>1, <2>3, <3>1
    <3>2. CASE i # n
      <4>1. i \in 1..n-1
        BY <1>2, <3>2
      <4>. QED  BY <2>1, <2>3, <4>1
    <3>. QED  BY <3>1, <3>2
  <2>5. Len(Append(Front(s), s[n])) = n
    BY <1>2, <2>1, <2>3
  <2>6. Append(Front(s), s[n]) = s
    BY <1>2, <2>3, <2>4, <2>5, SeqEqual
  <2>. QED  BY <2>1, <2>6
<1>6. UserOnly(w) /\ pc'[w] = "user" /\ Tips(w)' = s
  <2>1. UserOnly(w) /\ pc'[w] = "user"
    BY <1>1, <1>4 DEF PopParent, UserOnly, treeVars, fiberVars
  <2>. QED  BY <1>1, <1>2, <1>4, <1>5, <2>1 DEF Tips
<1>7. ChainInv(w)'
  <2>1. \A i \in 1..Len(Front(s)) :
           /\ fr'[Front(s)[i]].at > 1
           /\ Body[Front(s)[i]][fr'[Front(s)[i]].at - 1] = Oldest(IF i < Len(Front(s)) THEN Front(s)[i + 1] ELSE s[n])
           /\ FreshIn(fr', IF i < Len(Front(s)) THEN Front(s)[i + 1] ELSE s[n])
    <3>. TAKE i \in 1..Len(Front(s))
    <3>1. i \in 1..n /\ i < n /\ Front(s)[i] = s[i] /\ Tips(w)[i + 1] = s[i + 1]
      BY <1>2, <1>3, <1>5
    <3>2. s[i + 1] = IF i < Len(Front(s)) THEN Front(s)[i + 1] ELSE s[n]
      <4>1. CASE i < Len(Front(s))
        <5>1. i + 1 \in 1..n-1
          BY <1>2, <1>5, <4>1
        <5>. QED  BY <1>5, <4>1, <5>1
      <4>2. CASE ~(i < Len(Front(s)))
        <5>1. i + 1 = n
          BY <1>2, <1>5, <4>2
        <5>. QED  BY <4>2, <5>1
      <4>. QED  BY <4>1, <4>2
    <3>. QED  BY <1>3, <3>1, <3>2
  <2>2. s[n] \in Frame /\ Tips(w)' = Append(Front(s), s[n])
    BY <1>2, <1>5, <1>6, ElementOfSeq
  <2>. QED  BY <1>5, <1>6, <2>1, <2>2, ChainFrom
<1>8. \A i \in 1..n : Tips(w)[i] = s[i]
  BY <1>1, FParts, TipsAre DEF AtFrames
<1>9. CoverInv(w)' /\ Upper(w)' = Upper(w) /\ Oldest(Lower(w))' = Oldest(Lower(w)) /\ Upper(w)' # NULL
  <2>1. 1 \in 1..n /\ Tips(w)'[1] = Tips(w)[1] /\ Tips(w)[1] \in Frame
    BY <1>2, <1>6, <1>8, ElementOfSeq
  <2>2. pc'[w] \in {"user", "sync"}
    BY <1>6
  <2>. QED  BY <1>1, <1>6, <2>1, <2>2, UserCoverKept
<1>10. StageInv(w)'
  BY <1>1, <1>6, UserStage DEF UserOnly
<1>11. TipsGoOn(w)
  BY <1>3, <1>6 DEF TipsGoOn, Held
<1>12. SpawnsGoOn(w)
  <2>. SUFFICES ASSUME NEW h \in Helper, Running(h)', ~\E i \in 1..Len(Tips(w)') - 1 : Oldest(Tips(w)[i + 1])' = h
                PROVE  Running(h) /\ \A i \in 1..Len(Tips(w)) - 1 : Oldest(Tips(w)[i + 1]) # h
    BY <1>9 DEF SpawnsGoOn
  <2>1. Running(h) /\ h # f
    <3>1. Running(h)
      BY <1>1, Kinds
    <3>2. ~(Running(f)' /\ Over(f)')
      <4>1. f \in Frame /\ End(f) \in Nat
        BY BodyFacts
      <4>. QED  BY <4>1 DEF Running, Over
    <3>. QED  BY <1>1, <3>1, <3>2
  <2>2. ASSUME NEW i \in 1..n, Oldest(Tips(w)[i + 1]) = h  PROVE FALSE
    <3>1. CASE i < n
      <4>1. i \in 1..Len(Tips(w)') - 1 /\ Tips(w)'[i + 1] = Tips(w)[i + 1]
        BY <1>2, <1>3, <1>6, <3>1
      <4>. QED  BY <2>2, <4>1 DEF Oldest
    <3>2. CASE ~(i < n)
      <4>1. Oldest(f) = f
        BY <1>0, StackletOf, Kinds
      <4>. QED  BY <1>3, <2>1, <2>2, <3>2, <4>1
    <3>. QED  BY <3>1, <3>2
  <2>3. Len(Tips(w)) - 1 = n
    BY <1>2, <1>3
  <2>. QED  BY <2>1, <2>2, <2>3
<1>. QED  BY <1>1, <1>6, <1>7, <1>9, <1>10, <1>11, <1>12, UserStep

LEMMA SpawnEnters ==
  ASSUME FInv, IInv', NEW w \in Worker, NEW f \in Frame, Spawn(w, f)
  PROVE  NextInstr(f) \in Helper /\ Enters(f, NextInstr(f))
<1>1. /\ pc[w] = "user" /\ cur[w] = f /\ Active(f) /\ InUser(w, f) /\ fr[f].at # 0
  BY UserFrame DEF Spawn
<1>2. PICK g \in Helper : g = NextInstr(f)
  BY DEF Spawn
<1>2a. g \in Frame /\ Oldest(g) = g /\ Range(Stacklet[g]) = {g}
  BY StackletOf, Kinds
<1>3. Enters(f, g)
  <2>1. fr' \in [Frame -> FrameRecord] /\ fr \in [Frame -> FrameRecord]
    BY FParts DEF IInv, Typed, TypedRun
  <2>2. g # f
    BY <1>1, <1>2, <1>2a, FParts, NextFrame
  <2>3. fr' = [fr EXCEPT ![f] = [fr[f] EXCEPT !.at = fr[f].at + 1, !.sp = on[w]], ![g] = NewFrame(w, on[w])]
    BY <1>2, <1>2a, <2>1, <2>2 DEF Spawn
  <2>4. /\ fr'[f] = [fr[f] EXCEPT !.at = fr[f].at + 1, !.sp = on[w]] /\ fr'[g] = NewFrame(w, on[w])
        /\ \A h \in Frame \ {f, g} : fr'[h] = fr[h]
    BY <1>2a, <2>1, <2>2, <2>3
  <2>5. /\ fr'[f].at = fr[f].at + 1 /\ fr'[f].stolen = fr[f].stolen /\ fr'[f].unsynced = fr[f].unsynced
    BY <2>1, <2>4 DEF FrameRecord
  <2>6. fr'[g].at = 1 /\ ~fr'[g].stolen /\ ~fr'[g].unsynced
    BY <2>4 DEF NewFrame
  <2>. QED  BY <1>1, <1>2, <1>2a, <2>1, <2>4, <2>5, <2>6 DEF Enters
<1>. QED  BY <1>2, <1>3

LEMMA SpawnF ==
  ASSUME FInv, IInv', NEW w \in Worker, NEW f \in Frame, Spawn(w, f)
  PROVE  FInv'
<1>. DEFINE s == ltq[w]
            n == Len(s)
            tp == Tips(w)
<1>1. /\ pc[w] = "user" /\ cur[w] = f /\ Active(f) /\ InUser(w, f) /\ fr[f].at # 0
  BY UserFrame DEF Spawn
<1>2. PICK g \in Helper : g = NextInstr(f)
  BY DEF Spawn
<1>2a. g \in Frame /\ Oldest(g) = g /\ Range(Stacklet[g]) = {g}
  BY StackletOf, Kinds
<1>3. Enters(f, g)
  BY <1>1, <1>2, SpawnEnters DEF InUser
<1>4. OthersGoOn(f) /\ AtInv' /\ UnsyncedInv'
  BY <1>2a, <1>3, EnterGoesOn
<1>5. /\ g # f /\ ~Active(g) /\ Active(g)' /\ Active(f)' /\ Prev(f)' = g /\ fr'[f].at > 1
  BY <1>2a, <1>3, FParts, EnterAt
<1>6. /\ s \in Seq(Frame) /\ n \in Nat /\ tp = Append(s, f) /\ Len(tp) = n + 1
      /\ Held(w) = Range(s) \union {f}
      /\ \A h \in Range(s) : h \in Frame /\ Active(h) /\ Active(h)' /\ h # f /\ h \in Held(w)
      /\ \A i \in 1..n :
           /\ s[i] \in Range(s) /\ fr'[s[i]].at > 1 /\ Body[s[i]][fr'[s[i]].at - 1] = Oldest(tp[i + 1])
           /\ FreshIn(fr', tp[i + 1])
  BY <1>1, <1>4, BelowGoesOn, SMTT(30)
<1>7. tp \in Seq(Frame) /\ tp[n + 1] = f /\ \A i \in 1..n : tp[i] = s[i]
  BY <1>6, PushFacts
<1>8. UserOnly(w) /\ pc'[w] = "user" /\ Tips(w)' = Append(tp, g)
  <2>0. /\ cur' = [cur EXCEPT ![w] = g] /\ cur \in [Worker -> Frame \union {NULL}]
        /\ ltq' = [ltq EXCEPT ![w] = Append(@, f)] /\ ltq \in [Worker -> Seq(Frame)]
    BY <1>2, FParts DEF Spawn, Typed, TypedRun
  <2>1. /\ cur'[w] = g /\ ltq'[w] = tp
        /\ \A v \in Worker \ {w} : cur'[v] = cur[v] /\ ltq'[v] = ltq[v]
    BY <1>6, <2>0
  <2>2. UserOnly(w) /\ pc'[w] = "user"
    BY <1>1, <2>1 DEF Spawn, UserOnly, treeVars, fiberVars
  <2>. QED  BY <2>1, <2>2 DEF Tips
<1>9. /\ Tips(w)' \in Seq(Frame) /\ Len(Tips(w)') = n + 2 /\ Tips(w)'[n + 2] = g
      /\ \A i \in 1..n+1 : Tips(w)'[i] = tp[i]
  <2>1. /\ Append(tp, g) \in Seq(Frame) /\ Len(Append(tp, g)) = Len(tp) + 1 /\ Append(tp, g)[Len(tp) + 1] = g
        /\ \A i \in 1..Len(tp) : Append(tp, g)[i] = tp[i]
    BY <1>2a, <1>7, PushFacts
  <2>. QED  BY <1>6, <1>8, <2>1
<1>10. ChainInv(w)'
  <2>1. FreshIn(fr', g)
    BY <1>2a, <1>3 DEF FreshIn, Enters
  <2>2. \A i \in 1..Len(tp) :
           /\ fr'[tp[i]].at > 1
           /\ Body[tp[i]][fr'[tp[i]].at - 1] = Oldest(IF i < Len(tp) THEN tp[i + 1] ELSE g)
           /\ FreshIn(fr', IF i < Len(tp) THEN tp[i + 1] ELSE g)
    <3>. TAKE i \in 1..Len(tp)
    <3>1. CASE i < Len(tp)
      <4>1. i \in 1..n
        BY <1>6, <3>1
      <4>. QED  BY <1>6, <1>7, <3>1, <4>1
    <3>2. CASE ~(i < Len(tp))
      <4>1. i = n + 1
        BY <1>6, <3>2
      <4>. QED  BY <1>2a, <1>5, <1>7, <2>1, <3>2, <4>1 DEF Prev
    <3>. QED  BY <3>1, <3>2
  <2>. QED  BY <1>2a, <1>7, <1>8, <2>2, ChainFrom
<1>11. CoverInv(w)' /\ Upper(w)' = Upper(w) /\ Oldest(Lower(w))' = Oldest(Lower(w)) /\ Upper(w)' # NULL
  <2>1. 1 \in 1..n+1 /\ Tips(w)'[1] = tp[1] /\ tp[1] \in Frame
    BY <1>6, <1>7, <1>9, ElementOfSeq
  <2>2. pc'[w] \in {"user", "sync"}
    BY <1>8
  <2>. QED  BY <1>1, <1>4, <1>8, <2>1, <2>2, UserCoverKept
<1>12. StageInv(w)'
  BY <1>1, <1>8, UserStage DEF UserOnly
<1>13. TipsGoOn(w)
  <2>1. IsInjective(tp)
    BY FParts DEF TipInv
  <2>2. g \notin Held(w)
    BY <1>5, <1>6, <1>1
  <2>3. IsInjective(Tips(w))' /\ Held(w)' = Held(w) \union {g}
    BY <1>2a, <1>7, <1>8, <2>1, <2>2, PushRange DEF Held
  <2>4. ASSUME NEW h \in Held(w)'  PROVE Active(h)' /\ (h \in Held(w) \/ (h \in Frame /\ ~Active(h)))
    <3>1. CASE h = g
      BY <1>2a, <1>5, <3>1
    <3>2. CASE h = f
      BY <1>5, <1>6, <3>2
    <3>3. CASE h # f /\ h # g
      BY <1>6, <2>3, <2>4, <3>3
    <3>. QED  BY <3>1, <3>2, <3>3
  <2>. QED  BY <2>3, <2>4 DEF TipsGoOn
<1>14. SpawnsGoOn(w)
  <2>. SUFFICES ASSUME NEW h \in Helper, Running(h)', ~\E i \in 1..Len(Tips(w)') - 1 : Oldest(Tips(w)[i + 1])' = h
                PROVE  Running(h) /\ \A i \in 1..Len(tp) - 1 : Oldest(tp[i + 1]) # h
    BY <1>11 DEF SpawnsGoOn
  <2>1. \A i \in 1..n+1 : Oldest(Tips(w)'[i + 1]) # h
    BY <1>9 DEF Oldest
  <2>2. h # g
    <3>1. n + 1 \in 1..n+1 /\ Tips(w)'[(n + 1) + 1] = g
      BY <1>6, <1>9
    <3>. QED  BY <1>2a, <2>1, <3>1
  <2>3. Running(h)
    <3>1. CASE h = f
      BY <1>1, <3>1 DEF Active
    <3>2. CASE h # f
      BY <1>3, <2>2, <3>2, Kinds DEF Enters, Running
    <3>. QED  BY <3>1, <3>2
  <2>4. \A i \in 1..Len(tp) - 1 : i \in 1..n+1 /\ Tips(w)'[i + 1] = tp[i + 1]
    BY <1>6, <1>9, SMTT(30)
  <2>. QED  BY <2>1, <2>3, <2>4
<1>. QED  BY <1>1, <1>4, <1>8, <1>10, <1>11, <1>12, <1>13, <1>14, UserStep

(* Frames that stay where they are, and frames that stay as they are but for  *)
(* fields that no property here is about.                                     *)
AtsStay == \A h \in Frame : fr'[h].at = fr[h].at
FramesStay ==
  \A h \in Frame : fr'[h].at = fr[h].at /\ fr'[h].stolen = fr[h].stolen /\ fr'[h].unsynced = fr[h].unsynced

LEMMA AtStays ==
  ASSUME FInv, AtsStay, fr'[Root].stolen
  PROVE  /\ AtInv'
         /\ \A h \in Frame : /\ Active(h) => Active(h)'
                             /\ Running(h)' <=> Running(h)
                             /\ Over(h)' <=> Over(h)
                             /\ AtSync(h)' <=> AtSync(h)
                             /\ Prev(h)' = Prev(h)
<1>0. Typed /\ AtInv
  BY FParts
<1>1. \A h \in Frame : /\ Running(h)' <=> Running(h)
                       /\ Over(h)' <=> Over(h)
                       /\ AtSync(h)' <=> AtSync(h)
                       /\ Prev(h)' = Prev(h)
  BY DEF AtsStay, Running, Over, AtSync, Prev
<1>2. ASSUME NEW h \in Frame, Active(h)  PROVE Active(h)'
  <2>1. Running(h)' /\ Prev(h)' = Prev(h) /\ fr'[h].at = fr[h].at
    BY <1>1, <1>2 DEF Active, AtsStay
  <2>2. CASE fr[h].at > 1 /\ Prev(h) \notin Helper \union {SYNC}
    <3>1. Over(Prev(h)) /\ fr[h].at - 1 \in 1..Len(Body[h])
      BY <1>0, <1>2, <2>2, AtFacts DEF Active
    <3>2. PICK x \in Frame : x = Prev(h)
      BY <2>2, <3>1, BodyFacts DEF Prev, Instr
    <3>3. Over(x)'
      BY <1>1, <3>1, <3>2
    <3>4. Over(Prev(h))'
      BY <2>1, <3>2, <3>3
    <3>. QED  BY <2>1, <3>4 DEF Active
  <2>3. CASE ~(fr[h].at > 1 /\ Prev(h) \notin Helper \union {SYNC})
    BY <2>1, <2>3 DEF Active
  <2>. QED  BY <2>2, <2>3
<1>5. AtInv'
  <2>1. \A h \in Frame : fr'[h].at <= End(h) + 1
    BY <1>0 DEF AtInv, AtsStay
  <2>2. \A h \in Frame : \A i \in 1..Len(Body[h]) :
          i < fr'[h].at /\ Body[h][i] # SYNC => fr'[Body[h][i]].at # 0
    <3>. SUFFICES ASSUME NEW h \in Frame, NEW i \in 1..Len(Body[h]), i < fr'[h].at, Body[h][i] # SYNC
                  PROVE  fr'[Body[h][i]].at # 0
      OBVIOUS
    <3>1. Body[h][i] \in Frame
      BY BodyFacts DEF Instr
    <3>. QED  BY <1>0, <3>1 DEF AtInv, AtsStay
  <2>3. ASSUME NEW k \in Called, Running(k)'
        PROVE  fr'[Caller(k)].at \in 2..End(Caller(k)) /\ Prev(Caller(k))' = k
    <3>1. Running(k) /\ Caller(k) \in Frame
      BY <1>1, <2>3, Kinds, StackletOf
    <3>. QED  BY <1>0, <1>1, <3>1 DEF AtInv, AtsStay
  <2>. QED  BY <2>1, <2>2, <2>3 DEF AtInv
<1>. QED  BY <1>1, <1>2, <1>5

LEMMA StayAt ==
  ASSUME FInv, FramesStay
  PROVE  /\ AtInv' /\ UnsyncedInv' /\ SameFlags /\ \A f : OthersGoOn(f)
         /\ \A h \in Frame : /\ Active(h) => Active(h)'
                             /\ Running(h)' <=> Running(h)
                             /\ Over(h)' <=> Over(h)
                             /\ AtSync(h)' <=> AtSync(h)
                             /\ Prev(h)' = Prev(h)
         /\ \A h \in Frame : /\ FreshIn(fr, h) => FreshIn(fr', h)
                             /\ \A x : CoversIn(fr, x, h) => CoversIn(fr', x, h)
<1>1. /\ AtInv'
      /\ \A h \in Frame : /\ Active(h) => Active(h)'
                          /\ Running(h)' <=> Running(h)
                          /\ Over(h)' <=> Over(h)
                          /\ AtSync(h)' <=> AtSync(h)
                          /\ Prev(h)' = Prev(h)
  <2>1. fr'[Root].stolen /\ AtsStay
    BY FParts, Kinds DEF AtInv, FramesStay, AtsStay
  <2>. QED  BY <2>1, AtStays
<1>3. SameFlags
  BY DEF SameFlags, FramesStay
<1>4. ASSUME NEW f  PROVE OthersGoOn(f)
  BY <1>1, <1>3 DEF OthersGoOn, FramesStay
<1>6. UnsyncedInv'
  BY FParts DEF UnsyncedInv, FramesStay
<1>7. ASSUME NEW h \in Frame
      PROVE  /\ FreshIn(fr, h) => FreshIn(fr', h)
             /\ \A x : CoversIn(fr, x, h) => CoversIn(fr', x, h)
  <2>1. \A g \in Range(Stacklet[h]) : fr[g].stolen = fr'[g].stolen
    BY StackletOf DEF FramesStay
  <2>. QED  BY <2>1, CoverKept
<1>. QED  BY <1>1, <1>3, <1>4, <1>6, <1>7

LEMMA SlowSyncF ==
  ASSUME FInv, IInv', NEW w \in Worker, NEW f \in Frame, SlowSync(w, f)
  PROVE  FInv'
<1>1. /\ pc[w] = "user" /\ cur[w] = f /\ Active(f) /\ InUser(w, f) /\ good[w] = FALSE
  BY UserFrame DEF SlowSync
<1>2. fr[f].stolen /\ fr[f].unsynced /\ AtSync(f)
  BY FParts, WorkerAssumption DEF SlowSync, UnsyncedInv, NextInstr, AtSync
<1>3. ltq[w] = <<>> /\ Tips(w) = <<f>> /\ Tips(w)[1] = f
  BY <1>1, <1>2, StolenAlone
<1>4. pc' = [pc EXCEPT ![w] = "sync"] /\ pc'[w] = "sync" /\ \A v \in Worker \ {w} : pc'[v] = pc[v]
  <2>1. pc \in [Worker -> PC]
    BY FParts DEF Typed, TypedRuntime
  <2>. QED  BY <2>1 DEF SlowSync, Goto
<1>5. UserOnly(w) /\ Tips(w)' = Tips(w) /\ ltq'[w] = ltq[w] /\ cur'[w] = cur[w]
  <2>1. UserOnly(w)
    BY <1>1, <1>4 DEF SlowSync, UserOnly, fiberVars
  <2>. QED  BY <1>1, <1>4 , <2>1 DEF SlowSync, Tips
<1>6. FramesStay
  <2>1. fr \in [Frame -> FrameRecord]
    BY FParts DEF Typed, TypedRun
  <2>2. fr' = [fr EXCEPT ![f] = [fr[f] EXCEPT !.sp = on[w]]]
    BY DEF SlowSync
  <2>. QED  BY <2>1, <2>2 DEF FramesStay, FrameRecord
<1>7. AtInv' /\ UnsyncedInv' /\ OthersGoOn(f)
  BY <1>6, StayAt
<1>8. Len(Tips(w)) = 1 /\ Held(w)' = Held(w)
  BY <1>3, <1>5, OneEntry DEF Held
<1>9. ChainInv(w)'
  BY <1>3, <1>5, <1>8 DEF ChainInv
<1>10. CoverInv(w)' /\ Upper(w)' = Upper(w) /\ Oldest(Lower(w))' = Oldest(Lower(w)) /\ Upper(w)' # NULL
  BY <1>1, <1>3, <1>4, <1>5, <1>7, UserCoverKept
<1>11. StageInv(w)'
  <2>1. AtSync(f)' /\ fr'[f].unsynced /\ good'[w] = FALSE
    BY <1>1, <1>2, <1>5, <1>6, StayAt DEF FramesStay, UserOnly
  <2>2. AtSync(cur[w])'
    BY <1>1, <1>5, <2>1
  <2>. QED  BY <1>1, <1>4, <1>5, <2>1, <2>2 DEF StageInv
<1>12. TipsGoOn(w)
  BY <1>5, <1>6, <1>8, FParts, StayAt, TipsAre DEF TipsGoOn, TipInv
<1>13. SpawnsGoOn(w)
  <2>1. \A i \in 1..Len(Tips(w)) - 1 : FALSE
    BY <1>8
  <2>2. \A h \in Helper : Running(h)' => Running(h)
    BY <1>6, StayAt, Kinds
  <2>. QED  BY <1>10, <2>1, <2>2 DEF SpawnsGoOn
<1>. QED  BY <1>1, <1>5, <1>7, <1>9, <1>10, <1>11, <1>12, <1>13, UserStep

LEMMA EnterHandlerF ==
  ASSUME FInv, IInv', NEW w \in Worker, NEW f \in Frame, EnterHandler(w, f)
  PROVE  FInv'
<1>0. Leave(w, f) /\ f \in Helper /\ ltq[w] = <<>>
  BY DEF EnterHandler
<1>1. /\ pc[w] = "user" /\ cur[w] = f /\ cur'[w] = Caller(f) /\ \A v \in Worker \ {w} : cur'[v] = cur[v]
      /\ Advances(f) /\ fr[f].at = End(f) /\ Over(f)' /\ InUser(w, f)
      /\ OthersGoOn(f) /\ AtInv' /\ UnsyncedInv' /\ \A h \in Frame : Running(h)' => Running(h)
  BY <1>0, LeaveIs
<1>2. pc'[w] = "handler" /\ \A v \in Worker \ {w} : pc'[v] = pc[v]
  <2>1. pc \in [Worker -> PC]
    BY FParts DEF Typed, TypedRuntime
  <2>. QED  BY <2>1 DEF EnterHandler, Goto
<1>3. UserOnly(w) /\ Tips(w)' = <<>> /\ ltq'[w] = <<>>
  <2>1. UserOnly(w)
    BY <1>1, <1>2 DEF EnterHandler, UserOnly, fiberVars
  <2>. QED  BY <1>0, <1>2, <2>1 DEF EnterHandler, Tips
<1>4. Upper(w)' = NULL
  BY <1>2 DEF Upper
<1>5. Tips(w) = <<f>> /\ Tips(w)[1] = f /\ Len(Tips(w)) = 1 /\ Len(Tips(w)') = 0 /\ Held(w)' = {}
  <2>1. Tips(w) = <<f>> /\ Tips(w)[1] = f
    BY <1>0, <1>1, FParts, TipsAre DEF AtFrames
  <2>2. Held(w)' = {}
    <3>1. Held(w)' = Range(Tips(w)')
      BY DEF Held
    <3>2. Tips(w)' = <<>>
      BY <1>3
    <3>3. Tips(w)' \in Seq(Frame)
      BY <3>2
    <3>. QED  BY <3>1, <3>2, <3>3, EmptyRange
  <2>3. Len(Tips(w)) = 1 /\ Len(Tips(w)') = 0
    BY <1>3, <2>1, OneEntry
  <2>. QED  BY <2>1, <2>2, <2>3
<1>6. ChainInv(w)'
  BY <1>3, <1>5 DEF ChainInv
<1>7. CoverInv(w)'
  BY <1>4 DEF CoverInv
<1>8. StageInv(w)'
  <2>1. Covers(Hand(w), f)
    BY <1>1, <1>5, UserCover
  <2>2. cl[Hand(w)].frame \in {NULL, f}
    BY <1>0, <2>1, CoverTop, Kinds DEF Covers
  <2>3. Hand(w)' = Hand(w) /\ cl' = cl /\ good'[w] = FALSE
    BY <1>1, <1>3, UserOnlyKeeps, UserFrame DEF UserOnly
  <2>4. cl'[Hand(w)'].frame = NULL \/ Over(cl[Hand(w)].frame)'
    BY <1>1, <2>2, <2>3
  <2>. QED  BY <1>2, <2>3, <2>4 DEF StageInv
<1>9. TipsGoOn(w)
  <2>1. IsInjective(<<>>)
    BY DEF IsInjective
  <2>2. IsInjective(Tips(w))'
    BY <1>3, <2>1
  <2>. QED  BY <1>5, <2>2 DEF TipsGoOn
<1>10. SpawnsGoOn(w)
  <2>. SUFFICES ASSUME NEW h \in Helper, Running(h)'
                PROVE  Running(h) /\ h # f /\ \A i \in 1..Len(Tips(w)) - 1 : Oldest(Tips(w)[i + 1]) # h
    <3>1. Oldest(Tips(w)[1]) = f
      BY <1>0, <1>5, StackletOf, Kinds
    <3>. QED  BY <3>1 DEF SpawnsGoOn
  <2>1. Running(h)
    BY <1>1, Kinds
  <2>2. ~(Running(f)' /\ Over(f)')
    <3>1. f \in Frame /\ End(f) \in Nat
      BY BodyFacts
    <3>. QED  BY <3>1 DEF Running, Over
  <2>3. \A i \in 1..Len(Tips(w)) - 1 : FALSE
    BY <1>5
  <2>. QED  BY <1>1, <2>1, <2>2, <2>3
<1>. QED  BY <1>1, <1>3, <1>4, <1>6, <1>7, <1>8, <1>9, <1>10, UserStep

LEMMA FinishRootF ==
  ASSUME FInv, IInv', NEW w \in Worker, FinishRoot(w)
  PROVE  FInv'
<1>. DEFINE f == Root
<1>0. f \in Frame /\ f \notin Helper /\ f \notin Called
  BY Kinds
<1>1. /\ pc[w] = "user" /\ cur[w] = f /\ Active(f) /\ InUser(w, f) /\ fr[f].at = End(f)
  BY <1>0, UserFrame DEF FinishRoot
<1>2. pc'[w] = "back" /\ \A v \in Worker \ {w} : pc'[v] = pc[v]
  <2>1. pc \in [Worker -> PC]
    BY FParts DEF Typed, TypedRuntime
  <2>. QED  BY <2>1 DEF FinishRoot, Goto
<1>3. fr[f].stolen /\ ltq[w] = <<>> /\ Tips(w) = <<f>> /\ Tips(w)[1] = f
  BY <1>1, FParts, StolenAlone DEF AtInv
<1>4. Advances(f) /\ fr'[f].unsynced = fr[f].unsynced
  <2>1. fr' \in [Frame -> FrameRecord] /\ fr \in [Frame -> FrameRecord]
    BY FParts DEF IInv, Typed, TypedRun
  <2>2. fr[f] \in FrameRecord /\ fr' = [fr EXCEPT ![f] = [fr[f] EXCEPT !.at = fr[f].at + 1]]
    BY <1>0, <2>1 DEF FinishRoot
  <2>3. /\ fr'[f].at = fr[f].at + 1 /\ fr'[f].stolen = fr[f].stolen /\ fr'[f].unsynced = fr[f].unsynced
        /\ \A h \in Frame \ {f} : fr'[h] = fr[h]
    BY <1>0, <2>1, <2>2 DEF FrameRecord
  <2>. QED  BY <1>1, <2>1, <2>3 DEF Advances
<1>5. OthersGoOn(f) /\ AtInv' /\ UnsyncedInv' /\ Over(f)' /\ \A h \in Frame : Running(h)' => Running(h)
  BY <1>0, <1>1, <1>4, AdvanceGoesOn
<1>6. UserOnly(w) /\ Tips(w)' = <<>> /\ ltq'[w] = <<>> /\ done'
  <2>1. UserOnly(w) /\ done'
    BY <1>1, <1>2 DEF FinishRoot, UserOnly, treeVars, fiberVars
  <2>. QED  BY <1>2, <1>3, <2>1 DEF FinishRoot, Tips
<1>7. Upper(w)' = NULL
  BY <1>2 DEF Upper
<1>8. Len(Tips(w)) = 1 /\ Len(Tips(w)') = 0 /\ Held(w)' = {}
  <2>1. Held(w)' = {}
    <3>1. Held(w)' = Range(Tips(w)')
      BY DEF Held
    <3>2. Tips(w)' = <<>>
      BY <1>6
    <3>3. Tips(w)' \in Seq(Frame)
      BY <3>2
    <3>. QED  BY <3>1, <3>2, <3>3, EmptyRange
  <2>2. Len(Tips(w)) = 1 /\ Len(Tips(w)') = 0
    BY <1>3, <1>6, OneEntry
  <2>. QED  BY <2>1, <2>2
<1>9. ChainInv(w)' /\ CoverInv(w)'
  BY <1>6, <1>7, <1>8 DEF ChainInv, CoverInv
<1>10. StageInv(w)'
  <2>1. good'[w] = FALSE
    BY <1>0, <1>1, <1>6, UserFrame DEF UserOnly
  <2>. QED  BY <1>2, <1>6, <2>1 DEF StageInv
<1>11. TipsGoOn(w)
  <2>1. IsInjective(<<>>)
    BY DEF IsInjective
  <2>2. IsInjective(Tips(w))'
    BY <1>6, <2>1
  <2>. QED  BY <1>8, <2>2 DEF TipsGoOn
<1>12. SpawnsGoOn(w)
  <2>. SUFFICES ASSUME NEW h \in Helper, Running(h)'
                PROVE  Running(h) /\ h # f /\ \A i \in 1..Len(Tips(w)) - 1 : Oldest(Tips(w)[i + 1]) # h
    <3>1. Oldest(Tips(w)[1]) = f
      BY <1>0, <1>3, StackletOf
    <3>. QED  BY <3>1 DEF SpawnsGoOn
  <2>3. \A i \in 1..Len(Tips(w)) - 1 : FALSE
    BY <1>8
  <2>. QED  BY <1>0, <1>5, <2>3, Kinds
<1>. QED  BY <1>1, <1>5, <1>6, <1>7, <1>9, <1>10, <1>11, <1>12, UserStep

-----------------------------------------------------------------------------
(* The runtime.  Steps that leave the frames, the tree and the hands as they  *)
(* are, and of the closures write that of w at most.                          *)
RuntimeOnly(w) ==
  /\ FramesStay /\ SameTree /\ (done => done') /\ pc[w] # "user"
  /\ \A c \in Closure : c # Hand(w) => cl'[c].status = cl[c].status
  /\ \A v \in Worker : Hand(v)' = Hand(v)
  /\ \A v \in Worker \ {w} : Idles(v)
  /\ Tips(w)' = Tips(w) /\ ltq'[w] = <<>>
  /\ Upper(w)' # NULL => Upper(w)' = Upper(w) /\ Lower(w)' = Lower(w)
  /\ Upper(w)' = NULL => Upper(w) = NULL
  /\ pc[w] \in {"promoted", "finish"} => pc'[w] \in {"promoted", "finish"} /\ t'[w] = t[w]
  /\ t'[w] # NULL /\ cl'[t'[w]].status # "RETURNING" /\ pc'[w] \notin {"set_return", "set_return_parent"}
       => t[w] = t'[w] /\ cl[t[w]].status # "RETURNING" /\ pc[w] \notin {"set_return", "set_return_parent"}
  /\ Hand(w) # NULL /\ cl'[Hand(w)].status = "RETURNING" =>
       cl[Hand(w)].frame = NULL \/ Over(cl[Hand(w)].frame)

LEMMA RuntimeStep ==
  ASSUME FInv, IInv', NEW w \in Worker, RuntimeOnly(w), StageInv(w)'
  PROVE  FInv'
<1>1. /\ IInv /\ Typed /\ TypedTree /\ AtInv /\ TipInv /\ UnsyncedInv /\ NULL \notin Closure
      /\ \A v \in Worker : PlaceInv(v) /\ HandInv(v) /\ ChainInv(v) /\ CoverInv(v) /\ StageInv(v)
  BY FParts
<1>2. /\ AtInv' /\ UnsyncedInv' /\ SameFlags
      /\ \A h \in Frame : /\ Active(h) => Active(h)'
                          /\ Running(h)' <=> Running(h)
                          /\ Over(h)' <=> Over(h)
                          /\ AtSync(h)' <=> AtSync(h)
                          /\ Prev(h)' = Prev(h)
      /\ \A h \in Frame : /\ FreshIn(fr, h) => FreshIn(fr', h)
                          /\ \A x : CoversIn(fr, x, h) => CoversIn(fr', x, h)
  BY StayAt DEF RuntimeOnly
<1>3. Closure' = Closure /\ SameTree /\ FramesStay
  BY DEF RuntimeOnly, SameTree
<1>4. \A v \in Worker : Hand(v)' = Hand(v) /\ Tips(v)' = Tips(v) /\ Held(v)' = Held(v)
  <2>. TAKE v \in Worker
  <2>1. CASE v = w
    BY <2>1 DEF RuntimeOnly, Held
  <2>2. CASE v # w
    BY <2>2, IdleTips DEF RuntimeOnly
  <2>. QED  BY <2>1, <2>2
<1>5. ASSUME NEW c \in Closure, Parked(c)'  PROVE Parked(c)
  <2>0. cl'[c].frame = cl[c].frame /\ cl'[c].has_cilk_callee = cl[c].has_cilk_callee
    BY DEF RuntimeOnly, SameTree
  <2>1. CASE c # Hand(w)
    <3>1. cl'[c].status = cl[c].status
      BY <2>1 DEF RuntimeOnly
    <3>2. CASE cl[c].status = "SUSPENDED"
      BY <1>5, <2>0, <3>2 DEF Parked
    <3>3. CASE cl[c].status # "SUSPENDED"
      <4>1. PICK v \in Worker : t'[v] = c /\ cl'[c].status # "RETURNING" /\ pc'[v] \notin {"set_return", "set_return_parent"}
        BY <1>5, <3>1, <3>3 DEF Parked
      <4>2. Hand(v)' = c
        BY <1>1, <4>1 DEF Hand
      <4>3. v # w
        BY <1>4, <2>1, <4>2
      <4>4. t[v] = c /\ pc[v] \notin {"set_return", "set_return_parent"}
        BY <4>1, <4>3 DEF RuntimeOnly, Idles
      <4>. QED  BY <1>5, <2>0, <3>1, <4>1, <4>4 DEF Parked
    <3>. QED  BY <3>2, <3>3
  <2>2. CASE c = Hand(w)
    <3>1. cl'[c].status # "SUSPENDED"
      BY <1>1, <1>4, <2>2 DEF IInv, OneHand
    <3>2. PICK v \in Worker : t'[v] = c /\ cl'[c].status # "RETURNING" /\ pc'[v] \notin {"set_return", "set_return_parent"}
      BY <1>5, <3>1 DEF Parked
    <3>3. Hand(v)' = c
      BY <1>1, <3>2 DEF Hand
    <3>4. v = w
      BY <1>1, <1>4, <2>2, <3>3 DEF IInv, OneHand
    <3>5. t[w] = c /\ cl[c].status # "RETURNING" /\ pc[w] \notin {"set_return", "set_return_parent"}
      BY <1>1, <3>2, <3>4 DEF RuntimeOnly
    <3>. QED  BY <1>5, <2>0, <3>5 DEF Parked
  <2>. QED  BY <2>1, <2>2
<1>6. ASSUME NEW c \in Closure, BeingStolen(c)  PROVE BeingStolen(c)'
  <2>1. PICK v \in Worker : pc[v] \in {"promoted", "finish"} /\ t[v] = c
    BY <1>6 DEF BeingStolen
  <2>2. pc'[v] \in {"promoted", "finish"} /\ t'[v] = c
    <3>1. CASE v = w
      BY <2>1, <3>1 DEF RuntimeOnly
    <3>2. CASE v # w
      BY <2>1, <3>2 DEF RuntimeOnly, Idles
    <3>. QED  BY <3>1, <3>2
  <2>. QED  BY <2>2 DEF BeingStolen
<1>7. ASSUME NEW v \in Worker \ {w}
      PROVE  /\ ChainInv(v)' /\ CoverInv(v)' /\ StageInv(v)'
             /\ Upper(v)' = Upper(v) /\ (Upper(v) # NULL => Lower(v)' = Lower(v))
  <2>1. KeepsHand(v)
    <3>. SUFFICES ASSUME Hand(v) # NULL
                  PROVE  /\ cl'[Hand(v)].status = cl[Hand(v)].status /\ cl'[Hand(v)].frame = cl[Hand(v)].frame
                         /\ cl'[Hand(v)].call_parent = cl[Hand(v)].call_parent
                         /\ cl[Hand(v)].call_parent # NULL /\ cl[cl[Hand(v)].call_parent].frame # NULL =>
                              cl'[cl[Hand(v)].call_parent].frame = cl[cl[Hand(v)].call_parent].frame
      BY DEF KeepsHand
    <3>1. Hand(v) \in Closure /\ Hand(v) # Hand(w)
      BY <1>1, HandIs DEF IInv, OneHand
    <3>2. cl[Hand(v)].call_parent \in Closure \union {NULL}
      BY <1>1, <3>1 DEF TypedTree
    <3>. QED  BY <3>1, <3>2 DEF RuntimeOnly, SameTree
  <2>2. KeepsFrames(v)
    <3>1. ASSUME NEW h \in Held(v)
          PROVE  /\ fr'[h].at = fr[h].at /\ (fr[h].unsynced => fr'[h].unsynced)
                 /\ (FreshIn(fr, h) => FreshIn(fr', h))
      <4>1. h \in Frame
        BY <1>1, <3>1, TipsAre
      <4>. QED  BY <1>2, <1>3, <4>1 DEF FramesStay
    <3>2. pc[v] \in {"promoted", "finish"} => fr'[cl[t[v]].frame].stolen = fr[cl[t[v]].frame].stolen
      BY <1>3, ThiefParked DEF FramesStay
    <3>3. Upper(v) # NULL => /\ cl'[Upper(v)].frame = cl[Upper(v)].frame
                             /\ \A x : CoversIn(fr, x, Lower(v)) => CoversIn(fr', x, Lower(v))
      BY <1>2, <1>3, LowerIs DEF SameTree
    <3>4. good[v] => fr'[cl[t[v]].frame].at = fr[cl[t[v]].frame].at /\ Kids(t[v])' = {}
      <4>. SUFFICES ASSUME good[v]  PROVE fr'[cl[t[v]].frame].at = fr[cl[t[v]].frame].at /\ Kids(t[v])' = {}
        OBVIOUS
      <4>1. t[v] \in Closure /\ cl[t[v]].frame \in Frame /\ Kids(t[v]) = {}
        BY <1>1, GoodParked DEF StageInv
      <4>2. t'[v] = t[v]
        BY DEF RuntimeOnly, Idles
      <4>3. Kids(t[v])' = Kids(t[v])
        BY <1>3, <4>2 DEF Kids, SameTree
      <4>. QED  BY <1>3, <4>1, <4>3 DEF FramesStay
    <3>5. \A h \in Frame : Over(h) => Over(h)'
      BY <1>2
    <3>. QED  BY <3>1, <3>2, <3>3, <3>4, <3>5 DEF KeepsFrames
  <2>3. Idles(v) /\ (done => done')
    BY DEF RuntimeOnly
  <2>. QED  BY <2>1, <2>2, <2>3, IdleKeepsAll
<1>8. ASSUME NEW v \in Worker
      PROVE  /\ Upper(v)' # NULL => Upper(v)' = Upper(v) /\ Lower(v)' = Lower(v)
             /\ Upper(v)' = NULL => Upper(v) = NULL
  <2>1. CASE v = w
    BY <2>1 DEF RuntimeOnly
  <2>2. CASE v # w
    BY <1>7, <2>2
  <2>. QED  BY <2>1, <2>2
<1>9. /\ SpawnLink' /\ CallLink' /\ OneClosure' /\ CountInv' /\ KidsInv'
  <2>1. \A v \in Worker : Upper(v)' # NULL => Upper(v)' = Upper(v) /\ Oldest(Lower(v))' = Oldest(Lower(v))
    BY <1>8 DEF Oldest
  <2>. QED  BY <1>2, <1>3, <1>6, <2>1, TreeKept
<1>10. TipInv'
  <2>1. ASSUME NEW v \in Worker  PROVE IsInjective(Tips(v))' /\ \A h \in Held(v)' : Active(h)'
    BY <1>1, <1>2, <1>4, TipsAre DEF TipInv
  <2>2. \A u, v \in Worker : u # v => Held(u)' \intersect Held(v)' = {}
    BY <1>1, <1>4 DEF TipInv
  <2>3. ASSUME NEW c \in Closure, Parked(c)'
        PROVE  Active(cl[c].frame)' /\ \A v \in Worker : cl'[c].frame \notin Held(v)'
    <3>1. Parked(c) /\ cl'[c].frame = cl[c].frame
      BY <1>5, <2>3 DEF RuntimeOnly, SameTree
    <3>2. PICK x \in Frame : x = cl[c].frame
      BY <3>1, FrameOfClosure DEF Parked
    <3>3. Active(x)' /\ \A v \in Worker : x \notin Held(v)'
      BY <1>1, <1>2, <1>4, <3>1, <3>2 DEF TipInv
    <3>4. cl[c]'.frame = x
      BY <3>1, <3>2
    <3>. QED  BY <3>3, <3>4
  <2>. QED  BY <1>3, <2>1, <2>2, <2>3 DEF TipInv
<1>11. StatusInv'
  <2>. SUFFICES ASSUME NEW c \in Closure
                PROVE  /\ cl'[c].status = "RETURNING" => cl'[c].frame = NULL \/ Over(cl[c].frame)'
                       /\ cl'[c].status = "SUSPENDED" /\ ~cl'[c].has_cilk_callee =>
                            cl'[c].frame # NULL /\ AtSync(cl[c].frame)'
    BY <1>3 DEF StatusInv
  <2>0. cl'[c].frame = cl[c].frame /\ cl'[c].has_cilk_callee = cl[c].has_cilk_callee
    BY <1>3 DEF SameTree
  <2>1. CASE cl'[c].status = "RETURNING"
    <3>1. cl[c].frame = NULL \/ Over(cl[c].frame)
      <4>1. CASE c = Hand(w)
        BY <1>1, <2>1, <4>1 DEF RuntimeOnly
      <4>2. CASE c # Hand(w)
        BY <2>1, <4>2 DEF RuntimeOnly, FInv, StatusInv
      <4>. QED  BY <4>1, <4>2
    <3>2. CASE cl[c].frame # NULL
      <4>1. PICK x \in Frame : x = cl[c].frame
        BY <3>2, FrameOfClosure
      <4>2. Over(x)'
        BY <1>2, <3>1, <3>2, <4>1
      <4>3. Over(cl[c].frame)'
        BY <2>0, <4>1, <4>2
      <4>. QED  BY <2>1, <4>3
    <3>3. CASE cl[c].frame = NULL
      BY <2>0, <2>1, <3>3
    <3>. QED  BY <3>2, <3>3
  <2>2. CASE cl'[c].status = "SUSPENDED" /\ ~cl'[c].has_cilk_callee
    <3>1. c # Hand(w)
      BY <1>1, <1>4, <2>2 DEF IInv, OneHand
    <3>2. cl[c].status = "SUSPENDED" /\ ~cl[c].has_cilk_callee
      BY <2>0, <2>2, <3>1 DEF RuntimeOnly
    <3>3. cl[c].frame # NULL /\ AtSync(cl[c].frame) /\ cl[c].frame \in Frame
      BY <3>2, FrameOfClosure DEF FInv, StatusInv
    <3>4. AtSync(cl[c].frame)'
      BY <1>3, <2>0, <3>3 DEF AtSync, FramesStay
    <3>. QED  BY <2>0, <2>2, <3>3, <3>4
  <2>3. CASE cl'[c].status # "RETURNING" /\ ~(cl'[c].status = "SUSPENDED" /\ ~cl'[c].has_cilk_callee)
    BY <2>3
  <2>. QED  BY <2>1, <2>2, <2>3
<1>12. SpawnInv'
  <2>. SUFFICES ASSUME NEW h \in Helper, Running(h)'
                PROVE  \/ \E v \in Worker : \E i \in 1..Len(Tips(v)') - 1 : Oldest(Tips(v)[i + 1])' = h
                       \/ \E c \in Closure : Live(c)' /\ Begins(c, h)'
    BY <1>3 DEF SpawnInv
  <2>1. Running(h)
    BY <1>2, Kinds
  <2>2. CASE \E v \in Worker : \E i \in 1..Len(Tips(v)) - 1 : Oldest(Tips(v)[i + 1]) = h
    <3>1. PICK v \in Worker : \E i \in 1..Len(Tips(v)) - 1 : Oldest(Tips(v)[i + 1]) = h
      BY <2>2
    <3>2. Tips(v)' = Tips(v)
      BY <1>4
    <3>3. \E i \in 1..Len(Tips(v)') - 1 : Oldest(Tips(v)[i + 1])' = h
      BY <3>1, <3>2 DEF Oldest
    <3>. QED  BY <3>3
  <2>3. CASE \E c \in Closure : Live(c) /\ Begins(c, h)
    <3>1. PICK c \in Closure : Live(c) /\ Begins(c, h)
      BY <2>3
    <3>2. Live(c)' /\ cl'[c].frame = cl[c].frame
      BY <1>3, <3>1 DEF SameTree
    <3>3. CASE cl[c].frame = h
      BY <3>2, <3>3 DEF Begins
    <3>4. CASE cl[c].frame # h
      <4>1. cl[c].frame = NULL
        BY <3>1, <3>4 DEF Begins
      <4>2. PICK v \in Worker : Upper(v) = c /\ Oldest(Lower(v)) = h
        BY <3>1, <3>4 DEF Begins
      <4>3. Upper(v)' = Upper(v) /\ Lower(v)' = Lower(v)
        BY <1>1, <1>8, <4>2
      <4>4. Oldest(Lower(v))' = h
        BY <4>2, <4>3 DEF Oldest
      <4>. QED  BY <3>2, <4>1, <4>2, <4>3, <4>4 DEF Begins
    <3>. QED  BY <3>3, <3>4
  <2>. QED  BY <2>1, <2>2, <2>3 DEF FInv, SpawnInv
<1>13. \A v \in Worker : ChainInv(v)' /\ CoverInv(v)' /\ StageInv(v)'
  <2>. TAKE v \in Worker
  <2>1. CASE v # w
    BY <1>7, <2>1
  <2>2. CASE v = w
    <3>1. Len(Tips(w)) \in {0, 1}
      <4>1. ltq[w] = <<>>
        BY <1>1 DEF RuntimeOnly, ChainInv
      <4>2. Len(ltq[w]) = 0
        BY <4>1, OneEntry
      <4>. QED  BY <1>1, <4>2, TipsAre
    <3>2. ChainInv(w)'
      BY <1>4, <3>1 DEF ChainInv, RuntimeOnly
    <3>3. CoverInv(w)'
      <4>. SUFFICES ASSUME Upper(w)' # NULL  PROVE CoversIn(fr', cl'[Upper(w)'].frame, Lower(w)')
        BY DEF CoverInv, Covers
      <4>1. Upper(w)' = Upper(w) /\ Lower(w)' = Lower(w) /\ Upper(w) # NULL
        BY <1>8
      <4>2. Upper(w) \in Closure /\ Lower(w) \in Frame /\ CoversIn(fr, cl[Upper(w)].frame, Lower(w))
        BY <4>1, LowerIs DEF Covers
      <4>3. cl'[Upper(w)].frame = cl[Upper(w)].frame
        BY <1>3, <4>2 DEF SameTree
      <4>. QED  BY <1>2, <4>1, <4>2, <4>3
    <3>. QED  BY <2>2, <3>2, <3>3
  <2>. QED  BY <2>1, <2>2
<1>. QED  BY <1>2, <1>9, <1>10, <1>11, <1>12, <1>13 DEF FInv

(* A worker that takes no closure and gives none away, and writes none but    *)
(* its lock.                                                                  *)
Moves(w) ==
  /\ fr' = fr /\ ltq' = ltq /\ cur' = cur /\ good' = good /\ done' = done /\ t' = t /\ deque' = deque
  /\ SameClosures /\ \A v \in Worker \ {w} : pc'[v] = pc[v]

LEMMA MoveStep ==
  ASSUME FInv, IInv', NEW w \in Worker, Moves(w),
         \/ pc[w] = "set_return" /\ pc'[w] = "set_return_parent"
         \/ pc[w] = "back" /\ pc'[w] = "loop"
         \/ pc[w] = "loop" /\ pc'[w] = "do"
         \/ pc[w] = "loop" /\ pc'[w] = "idle" /\ t[w] = NULL
         \/ pc[w] = "do" /\ pc'[w] = "return" /\ cl[t[w]].status = "RETURNING"
         \/ pc[w] \in {"loop", "idle", "do"} /\ pc'[w] = "exit"
         \/ pc[w] \in {"idle", "steal"} /\ pc'[w] \in {"idle", "steal"}
         \/ pc[w] = "promoted" /\ pc'[w] = "finish"
  PROVE  FInv'
<1>1. /\ StageInv(w) /\ PlaceInv(w) /\ ChainInv(w) /\ NULL \notin Closure /\ OneHand /\ Typed /\ IInv
      /\ t[w] \in Closure \union {NULL}
  BY FParts DEF Typed, TypedRuntime, IInv
<1>2. /\ fr' = fr /\ ltq' = ltq /\ cur' = cur /\ good' = good /\ done' = done /\ t' = t /\ deque' = deque
      /\ Closure' = Closure /\ (\A v \in Worker \ {w} : pc'[v] = pc[v])
      /\ \A c \in Closure : /\ cl'[c].frame = cl[c].frame /\ cl'[c].spawn_parent = cl[c].spawn_parent
                            /\ cl'[c].call_parent = cl[c].call_parent /\ cl'[c].join_counter = cl[c].join_counter
                            /\ cl'[c].has_cilk_callee = cl[c].has_cilk_callee /\ cl'[c].status = cl[c].status
  BY DEF Moves, SameClosures
<1>3. \A v \in Worker : Hand(v)' = Hand(v)
  BY <1>2 DEF Hand
<1>4. FramesStay /\ SameTree /\ (done => done') /\ \A v \in Worker \ {w} : Idles(v)
  <2>1. SameTree
    BY <1>2, <1>3 DEF SameTree, Live
  <2>. QED  BY <1>2, <2>1 DEF FramesStay, Idles
<1>5. pc[w] # "user" /\ ltq'[w] = <<>>
  BY <1>1, <1>2 DEF ChainInv
<1>6. Tips(w)' = Tips(w)
  BY <1>2 DEF Tips
<1>7. /\ Upper(w)' # NULL => Upper(w)' = Upper(w) /\ Lower(w)' = Lower(w)
      /\ Upper(w)' = NULL => Upper(w) = NULL
      /\ pc[w] \in {"promoted", "finish"} => pc'[w] \in {"promoted", "finish"} /\ t'[w] = t[w]
  <2>1. CASE pc[w] = "promoted" /\ pc'[w] = "finish"
    <3>1. t[w] \in Closure
      BY <2>1, ThiefParked
    <3>. QED  BY <1>2, <2>1, <3>1 DEF Upper, Lower
  <2>2. CASE ~(pc[w] = "promoted" /\ pc'[w] = "finish")
    <3>1. Upper(w)' = NULL /\ Upper(w) = NULL
      BY <2>2 DEF Upper
    <3>. QED  BY <2>2, <3>1
  <2>. QED  BY <2>1, <2>2
<1>8. t'[w] # NULL /\ cl'[t'[w]].status # "RETURNING" /\ pc'[w] \notin {"set_return", "set_return_parent"}
       => t[w] = t'[w] /\ cl[t[w]].status # "RETURNING" /\ pc[w] \notin {"set_return", "set_return_parent"}
  BY <1>1, <1>2
<1>9. Hand(w) \in Closure \union {NULL}
  BY <1>1, HandIs
<1>10. Hand(w) # NULL /\ cl'[Hand(w)].status = "RETURNING" => cl[Hand(w)].frame = NULL \/ Over(cl[Hand(w)].frame)
  BY <1>2, <1>9 DEF FInv, StatusInv
<1>11. RuntimeOnly(w)
  BY <1>2, <1>3, <1>4, <1>5, <1>6, <1>7, <1>8, <1>10 DEF RuntimeOnly
<1>12. good[w] => /\ t'[w] # NULL /\ cl'[t'[w]].status # "RETURNING" /\ cl'[t'[w]].frame # NULL
                  /\ AtSync(cl[t[w]].frame)' /\ Kids(t[w])' = {}
  <2>. SUFFICES ASSUME good[w]
                PROVE  /\ t[w] # NULL /\ cl'[t[w]].status # "RETURNING" /\ cl'[t[w]].frame # NULL
                       /\ AtSync(cl[t[w]].frame)' /\ Kids(t[w])' = {}
    BY <1>2
  <2>1. /\ t[w] # NULL /\ cl[t[w]].status # "RETURNING" /\ cl[t[w]].frame # NULL
        /\ AtSync(cl[t[w]].frame) /\ Kids(t[w]) = {} /\ t[w] \in Closure
    BY <1>1 DEF StageInv
  <2>2. cl'[t[w]].frame = cl[t[w]].frame /\ cl'[t[w]].status = cl[t[w]].status
    BY <1>2, <2>1
  <2>3. AtSync(cl[t[w]].frame)'
    BY <1>2, <2>1, <2>2 DEF AtSync
  <2>4. Kids(t[w])' = Kids(t[w])
    BY <1>2, <1>4 DEF Kids, SameTree
  <2>. QED  BY <2>1, <2>2, <2>3, <2>4
<1>13. good[w] => pc'[w] \in {"loop", "do", "push", "exit"}
  <2>1. good[w] => pc[w] \in {"loop", "do", "push", "exit"} /\ cl[t[w]].status # "RETURNING" /\ t[w] # NULL
    BY <1>1 DEF StageInv
  <2>. QED  BY <2>1
<1>14. pc'[w] \in {"back", "loop"} /\ deque'[w] # <<>> /\ ~done' => cl'[Hand(w)'].status = "RETURNING"
  <2>. SUFFICES ASSUME pc'[w] \in {"back", "loop"}, deque[w] # <<>>, ~done  PROVE cl'[Hand(w)].status = "RETURNING"
    BY <1>2, <1>3
  <2>1. pc[w] = "back"
    OBVIOUS
  <2>2. Hand(w) \in Closure /\ cl[Hand(w)].status = "RETURNING"
    BY <1>1, <2>1, HandIs DEF StageInv
  <2>. QED  BY <1>2, <2>2
<1>15. pc'[w] \in {"set_return", "set_return_parent"} =>
         cl'[t'[w]].frame \in Called /\ Over(cl[t[w]].frame)' /\ HasFrame(cl[t[w]].call_parent, cur[w])'
  <2>. SUFFICES ASSUME pc[w] = "set_return"
                PROVE  cl'[t[w]].frame \in Called /\ Over(cl[t[w]].frame)' /\ HasFrame(cl[t[w]].call_parent, cur[w])'
    BY <1>2
  <2>1. /\ cl[t[w]].frame \in Called /\ Over(cl[t[w]].frame) /\ HasFrame(cl[t[w]].call_parent, cur[w])
        /\ t[w] \in Closure
    BY <1>1 DEF StageInv, PlaceInv
  <2>2. cl[t[w]].call_parent \in Closure /\ cl[cl[t[w]].call_parent].frame = cur[w]
    BY <2>1, FParts DEF HasFrame, TypedTree
  <2>3. cl'[t[w]].frame = cl[t[w]].frame /\ cl'[t[w]].call_parent = cl[t[w]].call_parent
    BY <1>2, <2>1
  <2>4. Over(cl[t[w]].frame)'
    BY <1>2, <2>1, <2>3 DEF Over
  <2>5. cl[t[w]].call_parent # NULL /\ cl'[cl[t[w]].call_parent].frame = cur[w]
    BY <1>1, <1>2, <2>2
  <2>. QED  BY <1>2, <2>1, <2>3, <2>4, <2>5 DEF HasFrame
<1>16. pc'[w] \in {"promoted", "finish"} => cl'[t'[w]].status # "RETURNING"
  <2>. SUFFICES ASSUME pc[w] = "promoted"  PROVE cl'[t[w]].status # "RETURNING"
    BY <1>2
  <2>1. t[w] \in Closure /\ cl[t[w]].status # "RETURNING"
    BY <1>1, ThiefParked DEF StageInv
  <2>. QED  BY <1>2, <2>1
<1>18. pc'[w] = "return" => cl'[t'[w]].status = "RETURNING"
  <2>. SUFFICES ASSUME pc'[w] = "return"  PROVE cl'[t[w]].status = "RETURNING"
    BY <1>2
  <2>1. pc[w] = "do" /\ cl[t[w]].status = "RETURNING"
    OBVIOUS
  <2>2. t[w] \in Closure
    BY <1>1, <2>1 DEF PlaceInv
  <2>. QED  BY <1>2, <2>1, <2>2
<1>17. StageInv(w)'
  <2>1. pc'[w] \notin {"sync", "handler", "push"}
    OBVIOUS
  <2>2. good'[w] => good[w]
    BY <1>2
  <2>3. good'[w] => /\ pc'[w] \in {"loop", "do", "push", "exit"} /\ t'[w] # NULL
                    /\ cl'[t'[w]].status # "RETURNING" /\ cl'[t'[w]].frame # NULL
                    /\ AtSync(cl[t[w]].frame)' /\ Kids(t[w])' = {}
    BY <1>12, <1>13, <2>2
  <2>. QED  BY <1>14, <1>15, <1>16, <1>18, <2>1, <2>3 DEF StageInv
<1>. QED  BY <1>11, <1>17, RuntimeStep

LEMMA LockOnly ==
  ASSUME FInv, NEW w \in Worker, NEW c \in Closure, cl' = [cl EXCEPT ![c].mutex = w]
  PROVE  SameClosures
<1>1. cl \in Seq(ClosureRecord) /\ Closure = DOMAIN cl
  BY FParts DEF Typed, TypedTree, Closure
<1>2. cl' = [cl EXCEPT ![c] = [cl[c] EXCEPT !.mutex = w]]
  OBVIOUS
<1>3. DOMAIN cl' = DOMAIN cl /\ cl'[c] = [cl[c] EXCEPT !.mutex = w] /\ \A d \in Closure \ {c} : cl'[d] = cl[d]
  BY <1>1, <1>2 DEF Closure
<1>4. Closure' = Closure
  BY <1>1, <1>3 DEF Closure
<1>5. cl[c] \in ClosureRecord
  BY <1>1, FParts, TreeIsSeq
<1>6. /\ cl'[c].frame = cl[c].frame /\ cl'[c].spawn_parent = cl[c].spawn_parent
      /\ cl'[c].call_parent = cl[c].call_parent /\ cl'[c].join_counter = cl[c].join_counter
      /\ cl'[c].has_cilk_callee = cl[c].has_cilk_callee /\ cl'[c].status = cl[c].status
  BY <1>3, <1>5 DEF ClosureRecord
<1>. QED  BY <1>3, <1>4, <1>6 DEF SameClosures

LEMMA GoesTo ==
  ASSUME FInv, NEW w \in Worker, NEW l, Goto(w, l)
  PROVE  pc'[w] = l /\ \A v \in Worker \ {w} : pc'[v] = pc[v]
<1>1. pc \in [Worker -> PC]
  BY FParts DEF Typed, TypedRuntime
<1>. QED  BY <1>1 DEF Goto

LEMMA SetReturnChildF ==
  ASSUME FInv, IInv', NEW w \in Worker, NEW c \in Closure, SetReturnChild(w, c)
  PROVE  FInv'
<1>1. pc[w] = "set_return" /\ Goto(w, "set_return_parent") /\ SameClosures
  BY LockOnly DEF SetReturnChild, At
<1>2. pc'[w] = "set_return_parent" /\ \A v \in Worker \ {w} : pc'[v] = pc[v]
  BY <1>1, GoesTo
<1>3. Moves(w)
  BY <1>1, <1>2 DEF SetReturnChild, Moves, runVars
<1>. QED  BY <1>1, <1>2, <1>3, MoveStep

LEMMA ReturnChildF ==
  ASSUME FInv, IInv', NEW w \in Worker, NEW c \in Closure, ReturnChild(w, c)
  PROVE  FInv'
<1>1. pc[w] = "do" /\ Goto(w, "return") /\ SameClosures /\ cl[t[w]].status = "RETURNING"
  BY LockOnly DEF ReturnChild, At
<1>2. pc'[w] = "return" /\ \A v \in Worker \ {w} : pc'[v] = pc[v]
  BY <1>1, GoesTo
<1>3. Moves(w)
  BY <1>1, <1>2 DEF ReturnChild, Moves, runVars
<1>. QED  BY <1>1, <1>2, <1>3, MoveStep

LEMMA MovesF ==
  ASSUME FInv, IInv', NEW w \in Worker, NEW v \in Worker,
         BackToRuntime(w) \/ HaveWork(w) \/ Exit(w) \/ TryVictim(w, v) \/ GiveUp(w, v) \/ ReleaseVictim(w, v)
  PROVE  FInv'
<1>1. cl' = cl => SameClosures
  BY DEF SameClosures, Closure
<1>2. CASE BackToRuntime(w)
  <2>1. pc[w] = "back" /\ Goto(w, "loop") /\ SameClosures
    BY <1>1, <1>2 DEF BackToRuntime, At, treeVars
  <2>2. pc'[w] = "loop" /\ \A u \in Worker \ {w} : pc'[u] = pc[u]
    BY <2>1, GoesTo
  <2>. QED  BY <1>2, <2>1, <2>2, MoveStep DEF BackToRuntime, Moves, treeVars
<1>3. CASE HaveWork(w)
  <2>1. pc[w] = "loop" /\ Goto(w, "do") /\ SameClosures
    BY <1>1, <1>3 DEF HaveWork, At, treeVars
  <2>2. pc'[w] = "do" /\ \A u \in Worker \ {w} : pc'[u] = pc[u]
    BY <2>1, GoesTo
  <2>. QED  BY <1>3, <2>1, <2>2, MoveStep DEF HaveWork, Moves, treeVars, runVars
<1>4. CASE Exit(w)
  <2>1. pc[w] \in {"loop", "idle", "do"} /\ Goto(w, "exit") /\ SameClosures
    BY <1>1, <1>4 DEF Exit, At, treeVars
  <2>2. pc'[w] = "exit" /\ \A u \in Worker \ {w} : pc'[u] = pc[u]
    BY <2>1, GoesTo
  <2>. QED  BY <1>4, <2>1, <2>2, MoveStep DEF Exit, Moves, treeVars, runVars
<1>5. CASE TryVictim(w, v)
  <2>1. pc[w] = "idle" /\ Goto(w, "steal") /\ SameClosures
    BY <1>1, <1>5 DEF TryVictim, At
  <2>2. pc'[w] = "steal" /\ \A u \in Worker \ {w} : pc'[u] = pc[u]
    BY <2>1, GoesTo
  <2>. QED  BY <1>5, <2>1, <2>2, MoveStep DEF TryVictim, Moves, runVars
<1>6. CASE GiveUp(w, v)
  <2>1. pc[w] = "steal" /\ Goto(w, "idle") /\ SameClosures
    BY <1>1, <1>6 DEF GiveUp, At
  <2>2. pc'[w] = "idle" /\ \A u \in Worker \ {w} : pc'[u] = pc[u]
    BY <2>1, GoesTo
  <2>. QED  BY <1>6, <2>1, <2>2, MoveStep DEF GiveUp, Moves, runVars
<1>7. CASE ReleaseVictim(w, v)
  <2>1. pc[w] = "promoted" /\ Goto(w, "finish") /\ SameClosures
    BY <1>1, <1>7 DEF ReleaseVictim, At
  <2>2. pc'[w] = "finish" /\ \A u \in Worker \ {w} : pc'[u] = pc[u]
    BY <2>1, GoesTo
  <2>. QED  BY <1>7, <2>1, <2>2, MoveStep DEF ReleaseVictim, Moves, runVars
<1>. QED  BY <1>2, <1>3, <1>4, <1>5, <1>6, <1>7

LEMMA ExtractF ==
  ASSUME FInv, IInv', NEW w \in Worker, Extract(w)
  PROVE  FInv'
<1>1. /\ pc[w] = "loop" /\ t[w] = NULL /\ ~done /\ cl' = cl /\ fr' = fr /\ ltq' = ltq /\ cur' = cur
      /\ good' = good /\ done' = done /\ Closure' = Closure
  BY DEF Extract, At, runVars, Closure
<1>2. /\ StageInv(w) /\ ChainInv(w) /\ NULL \notin Closure /\ OneHand /\ IInv /\ Typed
      /\ t \in [Worker -> Closure \union {NULL}] /\ deque \in [Worker -> Deques]
  BY FParts DEF Typed, TypedRuntime, IInv
<1>3. CASE deque[w] = <<>>
  <2>1. deque' = deque /\ t' = t /\ Goto(w, "idle") /\ SameClosures
    BY <1>1, <1>3 DEF Extract, SameClosures
  <2>2. pc'[w] = "idle" /\ \A v \in Worker \ {w} : pc'[v] = pc[v]
    BY <2>1, GoesTo
  <2>. QED  BY <1>1, <2>1, <2>2, MoveStep DEF Moves
<1>4. CASE deque[w] # <<>>
  <2>1. Goto(w, "do") /\ t' = [t EXCEPT ![w] = Bottom(w)] /\ deque' = [deque EXCEPT ![w] = Front(@)]
    BY <1>4 DEF Extract
  <2>2. pc'[w] = "do" /\ \A v \in Worker \ {w} : pc'[v] = pc[v]
    BY <2>1, GoesTo
  <2>3. Hand(w) \in Closure /\ Bottom(w) = Hand(w) /\ Front(deque[w]) = <<>>
    BY <1>2, <1>4, HandIs
  <2>4. t'[w] = Hand(w) /\ deque'[w] = <<>> /\ \A v \in Worker \ {w} : t'[v] = t[v] /\ deque'[v] = deque[v]
    BY <1>2, <2>1, <2>3
  <2>5. \A v \in Worker : Hand(v)' = Hand(v)
    <3>. TAKE v \in Worker
    <3>1. CASE v = w
      BY <1>2, <2>3, <2>4, <3>1 DEF Hand
    <3>2. CASE v # w
      BY <2>4, <3>2 DEF Hand
    <3>. QED  BY <3>1, <3>2
  <2>6. cl[Hand(w)].status = "RETURNING"
    BY <1>1, <1>2, <1>4 DEF StageInv
  <2>7. FramesStay /\ SameTree /\ \A v \in Worker \ {w} : Idles(v)
    BY <1>1, <2>2, <2>4, <2>5 DEF FramesStay, SameTree, Live, Idles
  <2>8. Tips(w)' = Tips(w) /\ Upper(w)' = NULL /\ Upper(w) = NULL
    BY <1>1, <2>2 DEF Tips, Upper
  <2>9. RuntimeOnly(w)
    <3>1. cl[Hand(w)].frame = NULL \/ Over(cl[Hand(w)].frame)
      BY <2>3, <2>6 DEF FInv, StatusInv
    <3>2. ltq'[w] = <<>>
      BY <1>1, <1>2 DEF ChainInv
    <3>. QED  BY <1>1, <2>2, <2>4, <2>5, <2>6, <2>7, <2>8, <3>1, <3>2 DEF RuntimeOnly
  <2>10. StageInv(w)'
    <3>1. good'[w] = FALSE
      BY <1>1, <1>2 DEF StageInv, Typed, TypedRuntime
    <3>. QED  BY <2>2, <3>1 DEF StageInv
  <2>. QED  BY <2>9, <2>10, RuntimeStep
<1>. QED  BY <1>3, <1>4

LEMMA HandlerF ==
  ASSUME FInv, IInv', NEW w \in Worker, NEW c \in Closure, Handler(w, c)
  PROVE  FInv'
<1>1. /\ pc[w] = "handler" /\ c = Bottom(w) /\ fr' = fr /\ ltq' = ltq /\ cur' = cur
      /\ good' = good /\ done' = done /\ t' = t /\ deque' = deque /\ Goto(w, "back")
      /\ cl' = [cl EXCEPT ![c] = [cl[c] EXCEPT !.status = "RETURNING"]]
  BY DEF Handler, At, runVars
<1>2. /\ StageInv(w) /\ PlaceInv(w) /\ ChainInv(w) /\ NULL \notin Closure /\ OneHand /\ IInv /\ Typed
      /\ cl \in Seq(ClosureRecord) /\ Closure = DOMAIN cl /\ cl[c] \in ClosureRecord
  BY FParts, TreeIsSeq DEF Typed, TypedRuntime, IInv, TypedTree, Closure
<1>3. c = Hand(w) /\ t[w] = NULL
  BY <1>1, <1>2, HandIs DEF PlaceInv
<1>4. /\ Closure' = Closure /\ cl'[c].status = "RETURNING" /\ \A d \in Closure \ {c} : cl'[d] = cl[d]
      /\ cl'[c].frame = cl[c].frame /\ cl'[c].spawn_parent = cl[c].spawn_parent
      /\ cl'[c].call_parent = cl[c].call_parent /\ cl'[c].join_counter = cl[c].join_counter
      /\ cl'[c].has_cilk_callee = cl[c].has_cilk_callee
  <2>1. DOMAIN cl' = DOMAIN cl /\ cl'[c] = [cl[c] EXCEPT !.status = "RETURNING"] /\ \A d \in Closure \ {c} : cl'[d] = cl[d]
    BY <1>1, <1>2
  <2>2. /\ cl'[c].status = "RETURNING"
        /\ cl'[c].frame = cl[c].frame /\ cl'[c].spawn_parent = cl[c].spawn_parent
        /\ cl'[c].call_parent = cl[c].call_parent /\ cl'[c].join_counter = cl[c].join_counter
        /\ cl'[c].has_cilk_callee = cl[c].has_cilk_callee
    BY <1>2, <2>1 DEF ClosureRecord, Status
  <2>. QED  BY <1>2, <2>1, <2>2 DEF Closure
<1>5. pc'[w] = "back" /\ \A v \in Worker \ {w} : pc'[v] = pc[v]
  BY <1>1, GoesTo
<1>6. \A v \in Worker : Hand(v)' = Hand(v)
  BY <1>1 DEF Hand
<1>7. FramesStay /\ SameTree /\ \A v \in Worker \ {w} : Idles(v)
  <2>1. \A d \in Closure : Live(d)' <=> Live(d)
    <3>. TAKE d \in Closure
    <3>1. CASE d = c
      BY <1>3, <1>6, <3>1 DEF Live
    <3>2. CASE d # c
      BY <1>4, <1>6, <3>2 DEF Live
    <3>. QED  BY <3>1, <3>2
  <2>2. SameTree
    BY <1>4, <2>1 DEF SameTree
  <2>. QED  BY <1>1, <1>5, <2>2 DEF FramesStay, Idles
<1>8. Tips(w)' = Tips(w) /\ Upper(w)' = NULL /\ Upper(w) = NULL /\ ltq'[w] = <<>>
  BY <1>1, <1>2, <1>5 DEF Tips, Upper, ChainInv
<1>9. RuntimeOnly(w)
  <2>1. cl[Hand(w)].frame = NULL \/ Over(cl[Hand(w)].frame)
    BY <1>1, <1>2 DEF StageInv
  <2>. QED  BY <1>1, <1>3, <1>4, <1>5, <1>6, <1>7, <1>8, <2>1 DEF RuntimeOnly
<1>10. StageInv(w)'
  <2>1. good'[w] = FALSE
    BY <1>1, <1>2, <1>3 DEF StageInv, Typed, TypedRuntime
  <2>2. cl'[Hand(w)'].status = "RETURNING"
    BY <1>3, <1>4, <1>6
  <2>. QED  BY <1>5, <2>1, <2>2 DEF StageInv
<1>. QED  BY <1>9, <1>10, RuntimeStep

LEMMA ExecuteF ==
  ASSUME FInv, IInv', NEW w \in Worker, NEW c \in Closure, Execute(w, c)
  PROVE  FInv'
<1>1. /\ pc[w] = "do" /\ c = t[w] /\ ltq' = [ltq EXCEPT ![w] = <<>>] /\ cur' = [cur EXCEPT ![w] = cl[c].frame]
      /\ good' = good /\ done' = done /\ t' = t /\ deque' = deque /\ Goto(w, "push")
      /\ cl[c].status = "READY" /\ fr' = [fr EXCEPT ![cl[c].frame] = [fr[cl[c].frame] EXCEPT !.worker = w]]
      /\ cl' = [cl EXCEPT ![c] = [cl[c] EXCEPT !.status = "RUNNING"]]
  BY DEF Execute, At
<1>2. /\ StageInv(w) /\ PlaceInv(w) /\ ChainInv(w) /\ NULL \notin Closure /\ OneHand /\ IInv /\ Typed
      /\ cl \in Seq(ClosureRecord) /\ Closure = DOMAIN cl /\ cl[c] \in ClosureRecord
      /\ fr \in [Frame -> FrameRecord] /\ ltq \in [Worker -> Seq(Frame)] /\ cur \in [Worker -> Frame \union {NULL}]
  BY FParts, TreeIsSeq DEF Typed, TypedRuntime, IInv, TypedTree, TypedRun, Closure
<1>3. c = Hand(w)
  BY <1>1, <1>2, HandIs
<1>4. /\ Closure' = Closure /\ cl'[c].status = "RUNNING" /\ \A d \in Closure \ {c} : cl'[d] = cl[d]
      /\ cl'[c].frame = cl[c].frame /\ cl'[c].spawn_parent = cl[c].spawn_parent
      /\ cl'[c].call_parent = cl[c].call_parent /\ cl'[c].join_counter = cl[c].join_counter
      /\ cl'[c].has_cilk_callee = cl[c].has_cilk_callee
  <2>1. DOMAIN cl' = DOMAIN cl /\ cl'[c] = [cl[c] EXCEPT !.status = "RUNNING"] /\ \A d \in Closure \ {c} : cl'[d] = cl[d]
    BY <1>1, <1>2
  <2>2. /\ cl'[c].status = "RUNNING"
        /\ cl'[c].frame = cl[c].frame /\ cl'[c].spawn_parent = cl[c].spawn_parent
        /\ cl'[c].call_parent = cl[c].call_parent /\ cl'[c].join_counter = cl[c].join_counter
        /\ cl'[c].has_cilk_callee = cl[c].has_cilk_callee
    BY <1>2, <2>1 DEF ClosureRecord, Status
  <2>. QED  BY <1>2, <2>1, <2>2 DEF Closure
<1>5. pc'[w] = "push" /\ \A v \in Worker \ {w} : pc'[v] = pc[v]
  BY <1>1, GoesTo
<1>6. \A v \in Worker : Hand(v)' = Hand(v)
  BY <1>1 DEF Hand
<1>7. /\ ltq'[w] = <<>> /\ cur'[w] = cl[c].frame
      /\ \A v \in Worker \ {w} : ltq'[v] = ltq[v] /\ cur'[v] = cur[v]
  BY <1>1, <1>2
<1>8. FramesStay
  <2>1. \A h \in Frame \ {cl[c].frame} : fr'[h] = fr[h]
    BY <1>1, <1>2
  <2>2. cl[c].frame \in Frame => fr'[cl[c].frame] = [fr[cl[c].frame] EXCEPT !.worker = w]
    BY <1>1, <1>2
  <2>. QED  BY <1>2, <2>1, <2>2, SMTT(30) DEF FramesStay, FrameRecord
<1>9. SameTree /\ \A v \in Worker \ {w} : Idles(v)
  <2>1. \A d \in Closure : Live(d)' <=> Live(d)
    <3>. TAKE d \in Closure
    <3>1. CASE d = c
      BY <1>3, <1>6, <3>1 DEF Live
    <3>2. CASE d # c
      BY <1>4, <1>6, <3>2 DEF Live
    <3>. QED  BY <3>1, <3>2
  <2>2. SameTree
    BY <1>4, <2>1 DEF SameTree
  <2>. QED  BY <1>1, <1>5, <1>7, <2>2 DEF Idles
<1>10. Tips(w)' = Tips(w) /\ Upper(w)' = NULL /\ Upper(w) = NULL
  BY <1>1, <1>5 DEF Tips, Upper
<1>11. RuntimeOnly(w)
  <2>1. /\ t'[w] = t[w] /\ cl[t[w]].status # "RETURNING" /\ cl'[Hand(w)].status # "RETURNING"
        /\ pc[w] \notin {"set_return", "set_return_parent"}
    BY <1>1, <1>3, <1>4
  <2>2. \A d \in Closure : d # Hand(w) => cl'[d].status = cl[d].status
    BY <1>3, <1>4
  <2>. QED  BY <1>1, <1>5, <1>6, <1>7, <1>8, <1>9, <1>10, <2>1, <2>2 DEF RuntimeOnly
<1>12. StageInv(w)'
  <2>1. cur'[w] = cl'[t'[w]].frame
    BY <1>1, <1>4, <1>7
  <2>2. good'[w] => /\ t'[w] # NULL /\ cl'[t'[w]].status # "RETURNING" /\ cl'[t'[w]].frame # NULL
                    /\ AtSync(cl[t[w]].frame)' /\ Kids(t[w])' = {}
    <3>. SUFFICES ASSUME good[w]
                  PROVE  /\ c # NULL /\ cl'[c].status # "RETURNING" /\ cl'[c].frame # NULL
                         /\ AtSync(cl[t[w]].frame)' /\ Kids(t[w])' = {}
      BY <1>1
    <3>1. cl[c].frame \in Frame /\ AtSync(cl[c].frame) /\ Kids(c) = {}
      BY <1>1, <1>2, GoodParked, SMTT(30) DEF StageInv
    <3>2. AtSync(cl[t[w]].frame)'
      BY <1>1, <1>4, <1>8, <3>1 DEF AtSync, FramesStay
    <3>3. Kids(t[w])' = Kids(c)
      BY <1>1, <1>9 DEF Kids, SameTree
    <3>. QED  BY <1>2, <1>4, <3>1, <3>2, <3>3, Kinds
  <2>. QED  BY <1>5, <2>1, <2>2 DEF StageInv
<1>. QED  BY <1>11, <1>12, RuntimeStep


-----------------------------------------------------------------------------
(* A worker goes back to user code, or to its frame's caller in the runtime.  *)

LEMMA OneTip ==
  ASSUME NEW w \in Worker, NEW x \in Frame, Tips(w)' = <<x>>
  PROVE  IsInjective(Tips(w))' /\ Held(w)' = {x} /\ Len(Tips(w)') = 1 /\ Tips(w)'[1] = x
<1>1. IsInjective(<<x>>)
  BY DEF IsInjective
<1>2. IsInjective(Tips(w))'
  BY <1>1
<1>3. Held(w)' = Range(Tips(w)')
  BY DEF Held
<1>. QED  BY <1>2, <1>3, OneEntry

LEMMA NoKids ==
  ASSUME FInv, NEW c \in Closure, cl[c].join_counter = 0
  PROVE  Kids(c) = {}
<1>1. Kids(c) \subseteq 1..Len(cl) /\ Len(cl) \in Nat
  BY FParts, TreeIsSeq DEF Kids
<1>2. IsFiniteSet(1..Len(cl))
  BY <1>1, FS_Interval
<1>3. IsFiniteSet(Kids(c))
  BY <1>1, <1>2, FS_Subset
<1>4. Cardinality(Kids(c)) = 0
  BY DEF FInv, CountInv
<1>. QED  BY <1>3, <1>4, FS_EmptySet

(* f, the stolen frame of what w has in hand, is its current frame.           *)
LEMMA ResumeUser ==
  ASSUME FInv, IInv', NEW w \in Worker, WorkerOnly(w), AtInv', UnsyncedInv',
         NEW f \in Frame, Mine(w, f), OthersGoOn(f), Tips(w)' = <<f>>, ltq'[w] = <<>>, pc'[w] = "user",
         good'[w] = FALSE, Active(f)', Hand(w) \in Closure, cl[Hand(w)].frame = f, fr'[f].stolen,
         \A h \in Helper : Running(h)' => Running(h), Len(Tips(w)) <= 1, Len(Tips(w)) \in Nat
  PROVE  FInv'
<1>1. IsInjective(Tips(w))' /\ Held(w)' = {f} /\ Len(Tips(w)') = 1 /\ Tips(w)'[1] = f
  BY OneTip
<1>2. Upper(w)' = Hand(w) /\ Lower(w)' = f /\ NULL \notin Closure
  BY <1>1, FParts DEF Upper, Lower, WorkerOnly
<1>3. ChainInv(w)'
  BY <1>1 DEF ChainInv
<1>4. CoverInv(w)'
  <2>1. cl'[Hand(w)].frame = f
    BY DEF WorkerOnly, SameClosures
  <2>2. CoversIn(fr', f, f)
    BY CoverTop
  <2>. QED  BY <1>2, <2>1, <2>2 DEF CoverInv, Covers
<1>5. StageInv(w)'
  BY DEF StageInv
<1>6. SpawnsGoOn(w)
  <2>1. \A i \in 1..Len(Tips(w)) - 1 : FALSE
    OBVIOUS
  <2>. QED  BY <1>2, <2>1 DEF SpawnsGoOn
<1>7. Upper(w)' \in Closure /\ cl[Upper(w)'].frame # NULL
  BY <1>2, Kinds
<1>. QED  BY <1>1, <1>3, <1>4, <1>5, <1>6, <1>7, WorkerStep

LEMMA PushAndRunF ==
  ASSUME FInv, IInv', NEW w \in Worker, NEW c \in Closure, PushAndRun(w, c)
  PROVE  FInv'
<1>1. /\ pc[w] = "push" /\ c = t[w] /\ cl' = cl /\ ltq' = ltq /\ cur' = cur /\ done' = done /\ Goto(w, "user")
      /\ t' = [t EXCEPT ![w] = NULL] /\ deque' = [deque EXCEPT ![w] = Append(@, c)]
      /\ good' = [good EXCEPT ![w] = FALSE]
  BY DEF PushAndRun, At
<1>2. /\ IInv /\ Typed /\ PlaceInv(w) /\ ChainInv(w) /\ StageInv(w) /\ TipInv /\ NULL \notin Closure
      /\ OneHand /\ CallInv /\ FrameInv /\ good \in [Worker -> BOOLEAN] /\ fr \in [Frame -> FrameRecord]
      /\ fr' \in [Frame -> FrameRecord]
  BY FParts DEF Typed, TypedRun, TypedRuntime, IInv
<1>3. pc'[w] = "user" /\ \A v \in Worker \ {w} : pc'[v] = pc[v]
  BY <1>1, GoesTo
<1>4. /\ t'[w] = NULL /\ deque'[w] = <<c>> /\ Hand(w)' = Hand(w) /\ Hand(w) = c
      /\ \A v \in Worker \ {w} : t'[v] = t[v] /\ deque'[v] = deque[v]
  BY <1>1, <1>2, PutBack DEF Closure
<1>5. WorkerOnly(w) /\ good'[w] = FALSE
  <2>1. SameClosures
    BY <1>1 DEF SameClosures, Closure
  <2>2. \A v \in Worker \ {w} : Idles(v)
    BY <1>1, <1>2, <1>3, <1>4 DEF Idles
  <2>3. \A v \in Worker : Hand(v)' = Hand(v)
    <3>. TAKE v \in Worker
    <3>1. CASE v # w
      BY <1>4, <3>1 DEF Hand
    <3>. QED  BY <1>4, <3>1
  <2>. QED  BY <1>1, <1>2, <1>3, <1>4, <2>1, <2>2, <2>3 DEF WorkerOnly
<1>0. PICK f \in Frame : f = cl[c].frame
  BY <1>1, <1>2, FrameOfClosure DEF PlaceInv
<1>6. cl[c].status = "RUNNING" /\ cur[w] = f /\ cl[c].frame = f /\ cl[c].frame # NULL
  BY <1>0, <1>1, <1>2 DEF PlaceInv, StageInv
<1>7. Parked(c) /\ Active(f)
  <2>1. ~cl[c].has_cilk_callee
    BY <1>2, <1>4, <1>6 DEF CallInv
  <2>2. Parked(c)
    BY <1>1, <1>6, <2>1 DEF Parked
  <2>. QED  BY <1>2, <1>6, <2>2 DEF TipInv
<1>8. fr[f].stolen
  <2>1. ~Entering(c)
    <3>. SUFFICES ASSUME NEW v \in Worker, pc[v] \in {"promoted", "finish"}, t[v] = c  PROVE FALSE
      BY DEF Entering
    <3>1. Hand(v) = c /\ v # w
      BY <1>1, <1>2 DEF Hand
    <3>. QED  BY <1>2, <1>4, <3>1 DEF OneHand
  <2>. QED  BY <1>2, <1>6, <2>1 DEF FrameInv
<1>9. /\ OthersGoOn(f) /\ AtInv' /\ UnsyncedInv' /\ Active(f)' /\ fr'[f].stolen
      /\ \A h \in Frame : Running(h)' => Running(h)
  <2>1. CASE good[w]
    <3>1. AtSync(f)
      BY <1>1, <1>2, <1>6, <2>1 DEF StageInv
    <3>2. fr' = [fr EXCEPT ![f] = [fr[f] EXCEPT !.at = fr[f].at + 1]]
      BY <1>6, <2>1 DEF PushAndRun
    <3>3. /\ fr'[f].at = fr[f].at + 1 /\ fr'[f].stolen = fr[f].stolen /\ fr'[f].unsynced = fr[f].unsynced
          /\ \A h \in Frame \ {f} : fr'[h] = fr[h]
      BY <1>2, <1>6, <3>2 DEF FrameRecord
    <3>4. Advances(f) /\ fr[f].at # End(f)
      BY <1>2, <1>6, <1>7, <3>1, <3>3, AtFacts DEF Advances, AtSync
    <3>. QED  BY <1>6, <1>8, <3>3, <3>4, AdvanceGoesOn
  <2>2. CASE ~good[w]
    <3>1. fr' = [fr EXCEPT ![f] = [fr[f] EXCEPT !.sp = cl[c].fiber]]
      BY <1>6, <2>2 DEF PushAndRun
    <3>2. FramesStay
      BY <1>2, <3>1 DEF FramesStay, FrameRecord
    <3>3. fr'[f].stolen = fr[f].stolen
      BY <1>6, <3>2 DEF FramesStay
    <3>. QED  BY <1>6, <1>7, <1>8, <3>2, <3>3, StayAt
  <2>. QED  BY <2>1, <2>2
<1>10. Tips(w) = <<>> /\ Len(Tips(w)) = 0 /\ ltq'[w] = <<>> /\ Tips(w)' = <<f>>
  <2>1. ltq[w] = <<>> /\ Tips(w) = <<>>
    BY <1>1, <1>2 DEF ChainInv, Tips
  <2>2. Tips(w)' = Append(<<>>, f)
    BY <1>1, <1>3, <1>6, <2>1 DEF Tips
  <2>. QED  BY <1>1, <2>1, <2>2, OneEntry
<1>11. Mine(w, f)
  BY <1>4, <1>6, <1>7 DEF Mine
<1>12. \A h \in Helper : Running(h)' => Running(h)
  BY <1>9, Kinds
<1>13. Len(Tips(w)) <= 1 /\ Len(Tips(w)) \in Nat
  BY <1>10
<1>. QED  BY <1>3, <1>4, <1>5, <1>6, <1>9, <1>10, <1>11, <1>12, <1>13, ResumeUser

(* setup_for_sync changes no link, frame, counter or status.                  *)
LEMMA SetUpSame ==
  ASSUME NEW c \in ClosureRecord
  PROVE  SetupForSync(c).join_counter = c.join_counter
<1>. DEFINE a == [c EXCEPT !.fiber = c.fiber_child]
            b == [a EXCEPT !.fiber_child = NULL]
            d == [b EXCEPT !.orig_rsp = NULL]
<1>1. NULL \in Ref
  BY DEF Ref
<1>2. a \in ClosureRecord /\ a.join_counter = c.join_counter
  BY DEF ClosureRecord
<1>3. SetupForSync(c) = d
  BY DEF SetupForSync
<1>. HIDE DEF a
<1>4. b \in ClosureRecord /\ b.join_counter = c.join_counter
  BY <1>1, <1>2 DEF ClosureRecord
<1>. HIDE DEF b
<1>5. d.join_counter = c.join_counter
  BY <1>4 DEF ClosureRecord
<1>. QED  BY <1>3, <1>5

(* The frame that a sync resumes is synced, and otherwise as it was.          *)
LEMMA SyncedFlags ==
  ASSUME Typed, NEW w \in Worker, NEW c \in ClosureRecord, c.frame \in Frame
  PROVE  LET q == SyncedFrame(w, c)
         IN q \in FrameRecord /\ q.at = fr[c.frame].at /\ q.stolen = fr[c.frame].stolen /\ ~q.unsynced
<1>. DEFINE f == c.frame
            a == [fr[f] EXCEPT !.unsynced = FALSE]
            b == [a EXCEPT !.sp = c.orig_rsp]
            d == [b EXCEPT !.worker = w]
<1>1. fr[f] \in FrameRecord /\ c.orig_rsp \in Ref
  BY DEF Typed, TypedRun, ClosureRecord
<1>2. SyncedFrame(w, c) = d
  BY DEF SyncedFrame
<1>. HIDE DEF f
<1>3. a \in FrameRecord /\ a.at = fr[f].at /\ a.stolen = fr[f].stolen /\ ~a.unsynced
  BY <1>1 DEF FrameRecord
<1>. HIDE DEF a
<1>4. b \in FrameRecord /\ b.at = fr[f].at /\ b.stolen = fr[f].stolen /\ ~b.unsynced
  BY <1>1, <1>3 DEF FrameRecord
<1>. HIDE DEF b
<1>5. d \in FrameRecord /\ d.at = fr[f].at /\ d.stolen = fr[f].stolen /\ ~d.unsynced
  BY <1>4 DEF FrameRecord
<1>. QED  BY <1>2, <1>5 DEF f

LEMMA SyncReadyF ==
  ASSUME FInv, IInv', NEW w \in Worker, NEW c \in Closure, SyncReady(w, c)
  PROVE  FInv'
<1>. DEFINE r == SetupForSync(cl[c])
            p == SyncedFrame(w, cl[c])
            q == [p EXCEPT !.at = @ + 1]
<1>1. /\ pc[w] = "sync" /\ c = Bottom(w) /\ ~Closure_has_children(c) /\ Goto(w, "user")
      /\ cl' = [cl EXCEPT ![c] = r] /\ fr' = [fr EXCEPT ![cl[c].frame] = q]
      /\ t' = t /\ deque' = deque /\ ltq' = ltq /\ cur' = cur /\ good' = good /\ done' = done
  BY DEF SyncReady, At
<1>2. /\ IInv /\ Typed /\ PlaceInv(w) /\ ChainInv(w) /\ StageInv(w) /\ TipInv /\ NULL \notin Closure
      /\ good \in [Worker -> BOOLEAN] /\ fr \in [Frame -> FrameRecord] /\ fr' \in [Frame -> FrameRecord]
      /\ cl \in Seq(ClosureRecord) /\ Closure = DOMAIN cl /\ cl[c] \in ClosureRecord
  BY FParts, TreeIsSeq DEF Typed, TypedRun, TypedRuntime, TypedTree, IInv, Closure
<1>3. pc'[w] = "user" /\ \A v \in Worker \ {w} : pc'[v] = pc[v]
  BY <1>1, GoesTo
<1>0. PICK f \in Frame : f = cur[w]
  BY <1>1, UserCover
<1>4. c = Hand(w) /\ cur[w] = f /\ f \in Held(w) /\ Active(f) /\ t[w] = NULL
  BY <1>0, <1>1, UserCover
<1>5. AtSync(f) /\ fr[f].unsynced /\ fr[f].stolen
  BY <1>1, <1>2, <1>4, FParts DEF StageInv, UnsyncedInv
<1>6. ltq[w] = <<>> /\ cl[c].frame = f /\ Tips(w) = <<f>>
  BY <1>1, <1>4, <1>5, StolenAlone
<1>7. r.frame = cl[c].frame /\ r.call_parent = cl[c].call_parent
      /\ r.spawn_parent = cl[c].spawn_parent /\ r.has_cilk_callee = cl[c].has_cilk_callee
      /\ r.status = cl[c].status /\ r.join_counter = cl[c].join_counter
  BY <1>2, SetUp, SetUpSame
<1>8. p \in FrameRecord /\ p.at = fr[f].at /\ p.stolen = fr[f].stolen /\ ~p.unsynced
  BY <1>2, <1>4, <1>6, SyncedFlags
<1>. HIDE DEF r, p
<1>9. Hand(w)' = Hand(w) /\ \A v \in Worker : Hand(v)' = Hand(v)
  BY <1>1 DEF Hand
<1>10. SameClosures
  <2>1. DOMAIN cl' = DOMAIN cl /\ cl'[c] = r /\ \A d \in Closure \ {c} : cl'[d] = cl[d]
    BY <1>1, <1>2
  <2>2. Closure' = Closure
    BY <1>2, <2>1 DEF Closure
  <2>. QED  BY <1>7, <2>1, <2>2 DEF SameClosures
<1>11. WorkerOnly(w) /\ good'[w] = FALSE
  <2>1. \A v \in Worker \ {w} : Idles(v)
    BY <1>1, <1>3 DEF Idles
  <2>2. good[w] = FALSE
    BY <1>1, <1>2 DEF StageInv
  <2>. QED  BY <1>1, <1>3, <1>4, <1>9, <1>10, <2>1, <2>2 DEF WorkerOnly
<1>12. /\ fr'[f].at = fr[f].at + 1 /\ fr'[f].stolen = fr[f].stolen /\ ~fr'[f].unsynced
       /\ \A h \in Frame \ {f} : fr'[h] = fr[h]
  <2>1. fr[f].at + 1 \in Nat
    BY <1>2, <1>4 DEF FrameRecord
  <2>2. q.at = fr[f].at + 1 /\ q.stolen = fr[f].stolen /\ ~q.unsynced
    BY <1>8, <2>1 DEF FrameRecord
  <2>. HIDE DEF q
  <2>. QED  BY <1>1, <1>2, <1>4, <1>6, <2>2
<1>13. Advances(f) /\ fr[f].at # End(f)
  BY <1>2, <1>4, <1>5, <1>12, AtFacts DEF Advances, AtSync
<1>14. \A d \in Closure : cl[d].frame = f => Kids(d) = {}
  <2>1. Kids(c) = {}
    BY <1>1, NoKids DEF Closure_has_children
  <2>2. \A d \in Closure : cl[d].frame = f => d = c
    BY <1>4, <1>6, Kinds DEF FInv, OneClosure
  <2>. QED  BY <2>1, <2>2
<1>15. OthersGoOn(f) /\ AtInv' /\ UnsyncedInv' /\ Active(f)' /\ \A h \in Helper : Running(h)' => Running(h)
  BY <1>4, <1>13, <1>14, AdvanceGoesOn, Kinds
<1>16. Tips(w)' = <<f>> /\ ltq'[w] = <<>>
  <2>1. Tips(w)' = Append(<<>>, f)
    BY <1>1, <1>3, <1>4, <1>6 DEF Tips
  <2>. QED  BY <1>1, <1>6, <2>1, OneEntry
<1>17. Len(Tips(w)) <= 1 /\ Len(Tips(w)) \in Nat
  BY <1>6, OneEntry
<1>18. Mine(w, f)
  BY <1>4 DEF Mine
<1>. QED  BY <1>3, <1>4, <1>5, <1>6, <1>11, <1>12, <1>15, <1>16, <1>17, <1>18, ResumeUser

LEMMA ReturnFullFrameF ==
  ASSUME FInv, IInv', NEW w \in Worker, NEW f \in Frame, ReturnFullFrame(w, f)
  PROVE  FInv'
<1>0. Leave(w, f) /\ f \in Called /\ fr[f].stolen /\ cl' = cl /\ ltq' = ltq /\ good' = good /\ done' = done
  BY DEF ReturnFullFrame, Called
<1>1. /\ pc[w] = "user" /\ cur[w] = f /\ cur'[w] = Caller(f) /\ \A v \in Worker \ {w} : cur'[v] = cur[v]
      /\ Advances(f) /\ fr'[f].stolen = fr[f].stolen /\ fr[f].at = End(f) /\ Over(f)' /\ f \in Held(w)
      /\ OthersGoOn(f) /\ AtInv' /\ UnsyncedInv' /\ \A h \in Frame : Running(h)' => Running(h)
  BY <1>0, LeaveIs
<1>2. /\ IInv /\ Typed /\ PlaceInv(w) /\ NULL \notin Closure /\ good \in [Worker -> BOOLEAN]
  BY FParts DEF Typed, TypedRuntime, IInv
<1>3. pc'[w] = "set_return" /\ \A v \in Worker \ {w} : pc'[v] = pc[v]
  BY GoesTo DEF ReturnFullFrame
<1>4. ltq[w] = <<>> /\ cl[Hand(w)].frame = f /\ Tips(w) = <<f>>
  BY <1>0, <1>1, StolenAlone
<1>5. /\ t'[w] = Hand(w) /\ t'[w] # NULL /\ deque'[w] = <<>> /\ Hand(w)' = Hand(w) /\ Hand(w) \in Closure
      /\ \A v \in Worker \ {w} : t'[v] = t[v] /\ deque'[v] = deque[v]
  <2>1. deque[w] # <<>> /\ Hand(w) \in Closure
    BY <1>1, <1>2, UserCover DEF PlaceInv
  <2>. QED  BY <1>0, <1>2, <2>1, TakeInHand DEF ReturnFullFrame, Closure
<1>6. WorkerOnly(w) /\ good'[w] = FALSE
  <2>1. \A v \in Worker \ {w} : Idles(v)
    BY <1>0, <1>1, <1>3, <1>5 DEF Idles
  <2>2. \A v \in Worker : Hand(v)' = Hand(v)
    <3>. TAKE v \in Worker
    <3>1. CASE v # w
      BY <1>5, <3>1 DEF Hand
    <3>. QED  BY <1>5, <3>1
  <2>3. SameClosures
    BY <1>0 DEF SameClosures, Closure
  <2>4. good[w] = FALSE
    BY <1>0, UserFrame DEF Leave
  <2>. QED  BY <1>0, <1>1, <1>3, <2>1, <2>2, <2>3, <2>4 DEF WorkerOnly
<1>7. PICK g \in Frame : g = Caller(f)
  BY <1>0, StackletOf
<1>8. g # f /\ ~Active(g) /\ Active(g)'
  BY <1>0, <1>1, <1>7, FParts, AdvanceAt
<1>9. Tips(w)' = <<g>> /\ ltq'[w] = <<>>
  <2>1. Tips(w)' = Append(<<>>, g)
    BY <1>0, <1>1, <1>3, <1>4, <1>7 DEF Tips
  <2>. QED  BY <1>0, <1>4, <2>1, OneEntry
<1>10. IsInjective(Tips(w))' /\ Held(w)' = {g} /\ Len(Tips(w)') = 1 /\ Tips(w)'[1] = g
  BY <1>9, OneTip
<1>11. ChainInv(w)' /\ Upper(w)' = NULL /\ CoverInv(w)'
  <2>1. Upper(w)' = NULL
    BY <1>3 DEF Upper
  <2>. QED  BY <1>9, <1>10, <2>1 DEF ChainInv, CoverInv
<1>12. StageInv(w)'
  <2>1. Live(Hand(w))
    BY DEF Live
  <2>2. HasFrame(cl[Hand(w)].call_parent, g)
    BY <1>0, <1>4, <1>5, <1>7, <2>1 DEF FInv, CallLink
  <2>3. cl'[t'[w]].frame \in Called /\ Over(cl[t[w]].frame)' /\ HasFrame(cl[t[w]].call_parent, cur[w])'
    <3>1. cl'[t'[w]].frame = f
      BY <1>0, <1>4, <1>5
    <3>2. Over(cl[t[w]].frame)'
      BY <1>1, <3>1
    <3>3. HasFrame(cl[t[w]].call_parent, cur[w])'
      BY <1>0, <1>1, <1>5, <1>7, <2>2 DEF HasFrame
    <3>. QED  BY <1>0, <3>1, <3>2, <3>3
  <2>. QED  BY <1>3, <1>6, <2>3 DEF StageInv
<1>13. SpawnsGoOn(w)
  <2>1. \A i \in 1..Len(Tips(w)) - 1 : FALSE
    BY <1>4, OneEntry
  <2>2. cl[Hand(w)].frame # NULL
    BY <1>4, Kinds
  <2>. QED  BY <1>1, <2>1, <2>2, Kinds DEF SpawnsGoOn
<1>14. Mine(w, f)
  BY <1>1 DEF Mine
<1>15. \A h \in Held(w)' : Active(h)' /\ (h \in Held(w) \/ h = f \/ (h \in Frame /\ ~Active(h)))
  BY <1>8, <1>10
<1>16. IsInjective(Tips(w))'
  BY <1>10
<1>. HIDE DEF ReturnFullFrame
<1>. QED  BY <1>1, <1>6, <1>11, <1>12, <1>13, <1>14, <1>15, <1>16, WorkerStep
=============================================================================
