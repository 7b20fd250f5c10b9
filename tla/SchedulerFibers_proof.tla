----------------------- MODULE SchedulerFibers_proof ------------------------
(***************************************************************************)
(* Proofs about the fibers and the workers of frames, for any number of    *)
(* workers and any program: a fiber is never used by two, lost or given    *)
(* back twice; a worker that runs a frame runs it on the fiber the frame   *)
(* is on, and is the frame's worker; and who returns finds its parent      *)
(* waiting for it, as the code asserts.                                    *)
(*                                                                         *)
(* FiberInv, the inductive invariant, goes on from FInv, SibInv and        *)
(* PosInv.  It says that every fiber has exactly one owner: the pool, a    *)
(* worker that will free it, or a closure (OwnInv); for every closure,     *)
(* when it has a fiber, and that the home of a frame that runs away from   *)
(* it is kept by the closure itself or by a line of children that leads to *)
(* it (FiberPart); and that a worker is on the fiber of the closure in its *)
(* hand, where the frames it holds have their home (WorkerFibers).         *)
(*                                                                         *)
(* ClaimInv goes on from it with the worker of each frame (WorkerOf), and  *)
(* says that a frame that waits for its callee has none, once the thief    *)
(* that makes it wait has finished (NullInv).                              *)
(***************************************************************************)
EXTENDS SchedulerProgram_proof

-----------------------------------------------------------------------------
(* The frames of a stacklet that have no closure, from f upwards, were called *)
(* on fiber x.                                                                *)
Opens(q, f, k) == \A i \in 1..k : ~q[Stacklet[f][i]].stolen
HomesIn(q, x, f) == \A k \in 1..Len(Stacklet[f]) : Opens(q, f, k) => q[Stacklet[f][k]].home = x

LEMMA HomesTop ==
  ASSUME NEW f \in Frame, NEW q, NEW x
  PROVE  /\ q[f].stolen => HomesIn(q, x, f)
         /\ HomesIn(q, x, f) /\ ~q[f].stolen => q[f].home = x
         /\ f \notin Called /\ (q[f].stolen \/ q[f].home = x) => HomesIn(q, x, f)
<1>1. Stacklet[f][1] = f /\ Len(Stacklet[f]) \in Nat \ {0} /\ (f \notin Called => Stacklet[f] = <<f>>)
  BY StackletOf
<1>2. 1 \in 1..Len(Stacklet[f])
  BY <1>1
<1>3. q[f].stolen => HomesIn(q, x, f)
  BY <1>1 DEF HomesIn, Opens
<1>4. HomesIn(q, x, f) /\ ~q[f].stolen => q[f].home = x
  BY <1>1, <1>2 DEF HomesIn, Opens
<1>5. ASSUME f \notin Called, q[f].stolen \/ q[f].home = x  PROVE HomesIn(q, x, f)
  <2>1. Len(Stacklet[f]) = 1
    BY <1>1, <1>5, OneEntry
  <2>. QED  BY <1>1, <1>5, <2>1 DEF HomesIn, Opens
<1>. QED  BY <1>3, <1>4, <1>5

LEMMA HomesKept ==
  ASSUME NEW f \in Frame, NEW q, NEW r, NEW x, HomesIn(q, x, f),
         \A g \in Range(Stacklet[f]) : r[g].home = q[g].home /\ (q[g].stolen => r[g].stolen)
  PROVE  HomesIn(r, x, f)
<1>1. \A i \in 1..Len(Stacklet[f]) : Stacklet[f][i] \in Range(Stacklet[f])
  <2>1. Range(Stacklet[f]) = {Stacklet[f][i] : i \in 1..Len(Stacklet[f])}
    BY StackletOf
  <2>. QED  BY <2>1
<1>2. ASSUME NEW k \in 1..Len(Stacklet[f]), Opens(r, f, k)  PROVE Opens(q, f, k)
  <2>1. \A i \in 1..k : i \in 1..Len(Stacklet[f])
    BY StackletOf
  <2>. QED  BY <1>1, <1>2, <2>1 DEF Opens
<1>. QED  BY <1>1, <1>2 DEF HomesIn

(* A called frame without a closure is at home where its caller is.           *)
LEMMA HomesShift ==
  ASSUME NEW g \in Called, NEW q, NEW x
  PROVE  /\ HomesIn(q, x, Caller(g)) /\ q[g].home = x => HomesIn(q, x, g)
         /\ HomesIn(q, x, g) /\ ~q[g].stolen => HomesIn(q, x, Caller(g))
<1>0. PICK s \in Seq(Frame), l \in Nat, r \in Seq(Frame), m \in Nat :
        s = Stacklet[g] /\ l = Len(s) /\ r = Stacklet[Caller(g)] /\ m = Len(r)
  BY StackletOf, Kinds
<1>1. l = m + 1 /\ s[1] = g /\ \A i \in 1..m : s[i + 1] = r[i]
  BY <1>0, StackletOf, Kinds
<1>2. ASSUME HomesIn(q, x, Caller(g)), q[g].home = x  PROVE HomesIn(q, x, g)
  <2>. SUFFICES ASSUME NEW k \in 1..l, \A i \in 1..k : ~q[s[i]].stolen  PROVE q[s[k]].home = x
    BY <1>0 DEF HomesIn, Opens
  <2>1. CASE k = 1
    BY <1>1, <1>2, <2>1
  <2>2. CASE k # 1
    <3>1. k - 1 \in 1..m /\ s[k] = r[k - 1]
      BY <1>1, <2>2
    <3>2. ASSUME NEW i \in 1..k - 1  PROVE ~q[r[i]].stolen
      <4>1. i \in 1..m /\ i + 1 \in 1..k
        BY <1>1
      <4>. QED  BY <1>1, <4>1
    <3>3. q[r[k - 1]].home = x
      BY <1>0, <1>2, <3>1, <3>2 DEF HomesIn, Opens
    <3>. QED  BY <3>1, <3>3
  <2>. QED  BY <2>1, <2>2
<1>3. ASSUME HomesIn(q, x, g), ~q[g].stolen  PROVE HomesIn(q, x, Caller(g))
  <2>. SUFFICES ASSUME NEW k \in 1..m, \A i \in 1..k : ~q[r[i]].stolen  PROVE q[r[k]].home = x
    BY <1>0 DEF HomesIn, Opens
  <2>1. k + 1 \in 1..l /\ s[k + 1] = r[k]
    BY <1>1
  <2>2. ASSUME NEW i \in 1..k + 1  PROVE ~q[s[i]].stolen
    <3>1. CASE i = 1
      BY <1>1, <1>3, <3>1
    <3>2. CASE i # 1
      <4>1. i - 1 \in 1..k /\ i - 1 \in 1..m /\ s[(i - 1) + 1] = r[i - 1] /\ (i - 1) + 1 = i
        BY <1>1, <3>2
      <4>. QED  BY <4>1
    <3>. QED  BY <3>1, <3>2
  <2>3. q[s[k + 1]].home = x
    BY <1>0, <1>3, <2>1, <2>2 DEF HomesIn, Opens
  <2>. QED  BY <2>1, <2>3
<1>. QED  BY <1>2, <1>3

-----------------------------------------------------------------------------
(* The fiber that the frame of a closure was called on; a closure that goes   *)
(* on while that one may still be in use; and what is on the fiber x when the *)
(* leftmost strand ends.                                                      *)
Home(c) == fr[cl[c].frame].home
Strays(c) == cl[c].frame # NULL /\ (fr[cl[c].frame].unsynced \/ BeingStolen(c))
Ends(k, x) == IF cl[k].frame = NULL THEN cl[k].fiber = x ELSE Home(k) = x

(* The fibers of a closure.  It has one unless it is suspended at a sync.     *)
(* Once stolen, and until it has synced, it strays from its home, which       *)
(* orig_rsp points into and fiber_child keeps when the leftmost child is      *)
(* back.  Otherwise it is at home; and so is its caller, for it to return.    *)
FiberPart(c) ==
  /\ Live(c) => (cl[c].fiber = NULL <=> cl[c].status = "SUSPENDED" /\ ~cl[c].has_cilk_callee)
  /\ cl[c].orig_rsp # NULL <=> Strays(c)
  /\ Strays(c) => cl[c].orig_rsp = Home(c)
  /\ cl[c].fiber_child # NULL => Strays(c) /\ cl[c].fiber_child = Home(c)
  /\ Strays(c) /\ cl[c].fiber_child = NULL =>
       \E k \in Kids(c) : (\A d \in Kids(c) : k <= d) /\ Ends(k, Home(c))
  /\ Live(c) /\ cl[c].frame # NULL /\ ~Strays(c) => cl[c].fiber = Home(c)
  /\ Live(c) /\ cl[c].call_parent # NULL => cl[c].frame # NULL /\ cl[cl[c].call_parent].fiber = Home(c)

(* The fibers of a worker: its frames without closures were called on the one *)
(* it is on, which is that of its closure.                                    *)
OnFiber == {"user", "sync", "handler", "set_return", "set_return_parent"}
WorkerFibers(w) ==
  /\ pc[w] \in {"user", "sync"} => \A f \in Held(w) : HomesIn(fr, cl[Hand(w)].fiber, f)
  /\ pc[w] = "user" => \A f \in Range(ltq[w]) : fr[f].sp = cl[Hand(w)].fiber
  /\ Thief(w) /\ ~fr[cl[t[w]].frame].stolen =>
       HomesIn(fr, cl[cl[t[w]].call_parent].fiber, cl[t[w]].frame)
  /\ pc[w] \in OnFiber => on[w] = cl[Hand(w)].fiber
  /\ good[w] => fr[cl[t[w]].frame].sp = cl[t[w]].fiber

(* A fiber has one owner: where, and which (for those in a pool, itself).     *)
Owns(k, i, x) ==
  \/ k = "pool" /\ i = x /\ x \in idle
  \/ k = "free" /\ i \in Worker /\ toFree[i] = x
  \/ k = "sync" /\ i \in Closure /\ cl[i].fiber_child = x
  \/ k = "run" /\ i \in Closure /\ cl[i].fiber = x /\ Live(i) /\ ~cl[i].has_cilk_callee
OwnInv == \A x \in Fiber : \E k, i : Owns(k, i, x) /\ \A l, j : Owns(l, j, x) => l = k /\ j = i

FiberTyped ==
  /\ idle \subseteq Fiber /\ \A w \in Worker : toFree[w] \in Fiber \union {NULL}
  /\ \A c \in Closure : /\ cl[c].fiber \in Fiber \union {NULL}
                        /\ cl[c].fiber_child \in Fiber \union {NULL}

FiberInv ==
  /\ PosInv /\ FiberTyped /\ OwnInv
  /\ \A c \in Closure : FiberPart(c)
  /\ \A w \in Worker : WorkerFibers(w)

(* Frames that were entered stay at home, and stolen ones stolen.             *)
HomesStay ==
  \A h \in Frame : fr[h].at # 0 => fr'[h].home = fr[h].home /\ (fr[h].stolen => fr'[h].stolen)

(* The frame of a closure, and those below a frame under way, were entered.   *)
LEMMA ClosureEntered ==
  ASSUME FInv
  PROVE  /\ \A c \in Closure : cl[c].frame # NULL => cl[c].frame \in Frame /\ fr[cl[c].frame].at # 0
         /\ HomesStay => \A c \in Closure : cl[c].frame # NULL => fr'[cl[c].frame].home = Home(c)
<1>1. \A c \in Closure : cl[c].frame # NULL => cl[c].frame \in Frame
  BY FParts, FrameOfClosure
<1>. QED  BY <1>1, FParts DEF IInv, FrameInv, HomesStay, Home

LEMMA HomesGoOn ==
  ASSUME FInv, HomesStay, NEW f \in Frame, fr[f].at # 0, NEW x, HomesIn(fr, x, f)
  PROVE  HomesIn(fr', x, f)
<1>1. \A g \in Range(Stacklet[f]) : g \in Frame /\ fr[g].at # 0
  BY FParts, StackletOf DEF IInv, EnteredInv
<1>. QED  BY <1>1, HomesKept DEF HomesStay

(* What a step that leaves the fibers of a closure, of its caller and of its  *)
(* children alone keeps.                                                      *)
LEMMA FiberStays ==
  ASSUME NEW c \in Closure, FiberPart(c),
         cl'[c].frame = cl[c].frame, cl'[c].call_parent = cl[c].call_parent, cl'[c].fiber = cl[c].fiber,
         cl'[c].fiber_child = cl[c].fiber_child, cl'[c].orig_rsp = cl[c].orig_rsp,
         Live(c)' => /\ Live(c)
                     /\ cl'[c].status = "SUSPENDED" /\ ~cl'[c].has_cilk_callee
                          <=> cl[c].status = "SUSPENDED" /\ ~cl[c].has_cilk_callee,
         Strays(c)' <=> Strays(c), cl[c].frame # NULL => Home(c)' = Home(c),
         Live(c)' /\ cl[c].call_parent # NULL => cl'[cl[c].call_parent].fiber = cl[cl[c].call_parent].fiber,
         Kids(c)' = Kids(c), \A k \in Kids(c) : \A x : Ends(k, x) => Ends(k, x)'
  PROVE  FiberPart(c)'
<1>1. Strays(c) => cl[c].frame # NULL
  BY DEF Strays
<1>2. /\ Live(c)' => (cl'[c].fiber = NULL <=> cl'[c].status = "SUSPENDED" /\ ~cl'[c].has_cilk_callee)
      /\ cl'[c].orig_rsp # NULL <=> Strays(c)'
      /\ Strays(c)' => cl'[c].orig_rsp = Home(c)'
      /\ cl'[c].fiber_child # NULL => Strays(c)' /\ cl'[c].fiber_child = Home(c)'
  BY <1>1 DEF FiberPart
<1>3. Strays(c)' /\ cl'[c].fiber_child = NULL =>
        \E k \in Kids(c)' : (\A d \in Kids(c)' : k <= d) /\ Ends(k, Home(c))'
  <2>. SUFFICES ASSUME Strays(c), cl[c].fiber_child = NULL
                PROVE  \E k \in Kids(c) : (\A d \in Kids(c) : k <= d) /\ Ends(k, Home(c))'
    OBVIOUS
  <2>1. PICK k \in Kids(c) : (\A d \in Kids(c) : k <= d) /\ Ends(k, Home(c))
    BY DEF FiberPart
  <2>2. PICK x : x = Home(c)
    OBVIOUS
  <2>3. Ends(k, x)' /\ Home(c)' = x
    BY <1>1, <2>1, <2>2
  <2>4. Ends(k, Home(c))'
    BY <2>3 DEF Ends
  <2>. QED  BY <2>1, <2>4
<1>4. Live(c)' /\ cl'[c].frame # NULL /\ ~Strays(c)' => cl'[c].fiber = Home(c)'
  BY DEF FiberPart
<1>5. Live(c)' /\ cl'[c].call_parent # NULL =>
        cl'[c].frame # NULL /\ cl'[cl'[c].call_parent].fiber = Home(c)'
  BY DEF FiberPart
<1>6. FiberPart(c)' <=>
        /\ Live(c)' => (cl'[c].fiber = NULL <=> cl'[c].status = "SUSPENDED" /\ ~cl'[c].has_cilk_callee)
        /\ cl'[c].orig_rsp # NULL <=> Strays(c)'
        /\ Strays(c)' => cl'[c].orig_rsp = Home(c)'
        /\ cl'[c].fiber_child # NULL => Strays(c)' /\ cl'[c].fiber_child = Home(c)'
        /\ Strays(c)' /\ cl'[c].fiber_child = NULL =>
             \E k \in Kids(c)' : (\A d \in Kids(c)' : k <= d) /\ Ends(k, Home(c))'
        /\ Live(c)' /\ cl'[c].frame # NULL /\ ~Strays(c)' => cl'[c].fiber = Home(c)'
        /\ Live(c)' /\ cl'[c].call_parent # NULL =>
             cl'[c].frame # NULL /\ cl'[cl'[c].call_parent].fiber = Home(c)'
  BY DEF FiberPart
<1>. QED  BY <1>2, <1>3, <1>4, <1>5, <1>6

(* Steps that write no fiber of a closure.                                    *)
LEMMA QuietFibers ==
  ASSUME FInv, \A c \in Closure : FiberPart(c), QuietTree, HomesStay,
         \A c \in Closure : Strays(c)' <=> Strays(c)
  PROVE  \A c \in Closure' : FiberPart(c)'
<1>1. Closure' = Closure /\ NULL \notin Closure
      /\ \A c \in Closure : cl[c].call_parent # NULL => cl[c].call_parent \in Closure
  BY FParts DEF QuietTree, TypedTree
<1>2. \A c \in Closure : /\ cl'[c].frame = cl[c].frame /\ cl'[c].call_parent = cl[c].call_parent
                         /\ cl'[c].fiber = cl[c].fiber /\ cl'[c].fiber_child = cl[c].fiber_child
                         /\ cl'[c].orig_rsp = cl[c].orig_rsp
                         /\ cl'[c].has_cilk_callee = cl[c].has_cilk_callee
                         /\ cl'[c].status = "SUSPENDED" <=> cl[c].status = "SUSPENDED"
                         /\ Live(c)' <=> Live(c)
  BY DEF QuietTree, SameSites
<1>3. \A c \in Closure : cl[c].frame # NULL => Home(c)' = Home(c)
  BY <1>2, ClosureEntered DEF Home
<1>4. \A c \in Closure : Kids(c)' = Kids(c) /\ Kids(c) \subseteq Closure
  BY QuietKids DEF Kids
<1>5. ASSUME NEW k \in Closure, NEW x, Ends(k, x)  PROVE Ends(k, x)'
  BY <1>2, <1>3, <1>5 DEF Ends
<1>6. ASSUME NEW c \in Closure  PROVE FiberPart(c)'
  <2>1. FiberPart(c)
    OBVIOUS
  <2>2. cl[c].call_parent # NULL => cl'[cl[c].call_parent].fiber = cl[cl[c].call_parent].fiber
    BY <1>1, <1>2
  <2>3. \A k \in Kids(c) : \A x : Ends(k, x) => Ends(k, x)'
    BY <1>4, <1>5
  <2>. QED  BY <1>2, <1>3, <1>4, <2>1, <2>2, <2>3, FiberStays
<1>. QED  BY <1>1, <1>6
LEMMA StraysStay ==
  ASSUME FInv, NEW c \in Closure, cl'[c].frame = cl[c].frame,
         cl[c].frame # NULL => (fr'[cl[c].frame].unsynced <=> fr[cl[c].frame].unsynced),
         BeingStolen(c)' <=> BeingStolen(c)
  PROVE  Strays(c)' <=> Strays(c)
BY DEF Strays

LEMMA ThiefStays ==
  ASSUME \A v \in Worker : Thief(v)' <=> Thief(v), \A v \in Worker : Thief(v) => t'[v] = t[v]
  PROVE  \A c : BeingStolen(c)' <=> BeingStolen(c)
BY DEF BeingStolen, Thief

(* The closure that a thief's waits for, until the frame it stole has one.    *)
LEMMA ThiefCaller ==
  ASSUME FInv, NEW v \in Worker, Thief(v), ~fr[cl[t[v]].frame].stolen
  PROVE  /\ t[v] \in Closure /\ Live(t[v]) /\ cl[t[v]].call_parent \in Closure
         /\ cl[cl[t[v]].call_parent].has_cilk_callee
         /\ Upper(v) = cl[t[v]].call_parent /\ Lower(v) = cl[t[v]].frame
<1>1. t[v] \in Closure /\ cl[t[v]].frame \in Frame /\ Hand(v) = t[v] /\ cl[t[v]].frame # NULL
  BY ThiefParked, Kinds DEF Thief
<1>2. cl[t[v]].call_parent # NULL
  BY <1>1, FParts DEF IInv, FrameInv, Entering
<1>3. Live(t[v])
  BY <1>1 DEF Live
<1>4. cl[t[v]].call_parent \in Closure /\ cl[cl[t[v]].call_parent].has_cilk_callee
  BY <1>1, <1>2, <1>3, FParts DEF IInv, CallInv, TypedTree
<1>. QED  BY <1>1, <1>3, <1>4 DEF Upper, Lower, Thief

(* A worker that does not move keeps its fiber: nobody changes the fiber of   *)
(* the closure it has, or of one that waits for a callee, or the stack        *)
(* pointer of a frame it is at.                                               *)
LEMMA OthersFibers ==
  ASSUME FInv, HomesStay, NEW v \in Worker, WorkerFibers(v), Idles(v), Hand(v)' = Hand(v), on'[v] = on[v],
         \A d \in Closure : cl'[d].fiber = cl[d].fiber \/ (~cl[d].has_cilk_callee /\ Hand(v) # d),
         Hand(v) # NULL => /\ cl'[Hand(v)].frame = cl[Hand(v)].frame
                           /\ cl'[Hand(v)].call_parent = cl[Hand(v)].call_parent,
         \A h \in Frame : fr'[h].sp = fr[h].sp \/ (h \notin Held(v) /\ (good[v] => cl[t[v]].frame # h))
  PROVE  WorkerFibers(v)'
<1>1. /\ pc'[v] = pc[v] /\ ltq'[v] = ltq[v] /\ cur'[v] = cur[v] /\ t'[v] = t[v] /\ good'[v] = good[v]
      /\ Hand(v) \in Closure \union {NULL} /\ NULL \notin Closure
      /\ IInv /\ Typed
  BY FParts, HandIs DEF Idles
<1>2. Hand(v) # NULL => cl'[Hand(v)].fiber = cl[Hand(v)].fiber
  BY <1>1
<1>3. Tips(v)' = Tips(v) /\ Held(v)' = Held(v)
  BY <1>1 DEF Tips, Held
<1>4. \A f \in Held(v) : f \in Frame /\ fr[f].at # 0
  BY <1>1, FParts, TipsAre, AtFacts DEF TipInv, Active, IInv
<1>5. pc[v] \in OnFiber => Hand(v) # NULL
  BY <1>1, FParts, HandIs DEF OnFiber, PlaceInv, IInv
<1>6. ASSUME pc[v] \in {"user", "sync"}, NEW f \in Held(v)  PROVE HomesIn(fr', cl'[Hand(v)].fiber, f)
  <2>1. HomesIn(fr, cl[Hand(v)].fiber, f) /\ cl'[Hand(v)].fiber = cl[Hand(v)].fiber
    BY <1>2, <1>5, <1>6 DEF WorkerFibers, OnFiber
  <2>. QED  BY <1>4, <2>1, HomesGoOn
<1>7. ASSUME pc[v] = "user", NEW f \in Range(ltq[v])  PROVE fr'[f].sp = cl'[Hand(v)].fiber
  <2>1. f \in Held(v) /\ f \in Frame
    BY <1>1, <1>4, <1>7, TipsAre, FParts DEF AtFrames, IInv
  <2>. QED  BY <1>2, <1>5, <1>7, <2>1 DEF WorkerFibers, OnFiber
<1>8. ASSUME Thief(v), ~fr'[cl'[t[v]].frame].stolen
      PROVE  HomesIn(fr', cl'[cl'[t[v]].call_parent].fiber, cl'[t[v]].frame)
  <2>1. /\ t[v] \in Closure /\ Hand(v) = t[v] /\ cl[t[v]].frame \in Frame /\ fr[cl[t[v]].frame].at # 0
        /\ cl'[t[v]].frame = cl[t[v]].frame /\ cl'[t[v]].call_parent = cl[t[v]].call_parent
    BY <1>1, <1>8, ThiefParked, ClosureEntered DEF Thief
  <2>2. ~fr[cl[t[v]].frame].stolen
    BY <1>8, <2>1 DEF HomesStay
  <2>3. cl[t[v]].call_parent \in Closure /\ cl[cl[t[v]].call_parent].has_cilk_callee
    BY <1>8, <2>2, ThiefCaller
  <2>4. HomesIn(fr, cl[cl[t[v]].call_parent].fiber, cl[t[v]].frame)
    BY <1>8, <2>2 DEF WorkerFibers
  <2>5. cl'[cl[t[v]].call_parent].fiber = cl[cl[t[v]].call_parent].fiber
    BY <2>3
  <2>. QED  BY <2>1, <2>4, <2>5, HomesGoOn
<1>9. pc[v] \in OnFiber => on'[v] = cl'[Hand(v)].fiber
  BY <1>2, <1>5 DEF WorkerFibers
<1>10. ASSUME good[v]  PROVE fr'[cl'[t[v]].frame].sp = cl'[t[v]].fiber
  <2>1. t[v] \in Closure /\ Hand(v) = t[v] /\ cl[t[v]].frame \in Frame /\ cl'[t[v]].frame = cl[t[v]].frame
    BY <1>1, <1>10, GoodParked
  <2>. QED  BY <1>1, <1>2, <1>10, <2>1 DEF WorkerFibers
<1>11. WorkerFibers(v)' <=>
         /\ pc'[v] \in {"user", "sync"} => \A f \in Held(v)' : HomesIn(fr', cl'[Hand(v)'].fiber, f)
         /\ pc'[v] = "user" => \A f \in Range(ltq'[v]) : fr'[f].sp = cl'[Hand(v)'].fiber
         /\ Thief(v)' /\ ~fr'[cl'[t'[v]].frame].stolen =>
              HomesIn(fr', cl'[cl'[t'[v]].call_parent].fiber, cl'[t'[v]].frame)
         /\ pc'[v] \in OnFiber => on'[v] = cl'[Hand(v)'].fiber
         /\ good'[v] => fr'[cl'[t'[v]].frame].sp = cl'[t'[v]].fiber
  BY DEF WorkerFibers, OnFiber
<1>12. Thief(v)' <=> Thief(v)
  BY <1>1 DEF Thief
<1>. QED  BY <1>1, <1>3, <1>6, <1>7, <1>8, <1>9, <1>10, <1>11, <1>12

(* No fiber changes hands.                                                    *)
LEMMA OwnStays ==
  ASSUME FiberTyped, OwnInv, Typed, idle' = idle, toFree' = toFree, made' = made, Closure \subseteq Closure',
         \A c \in Closure : /\ cl'[c].fiber = cl[c].fiber /\ cl'[c].fiber_child = cl[c].fiber_child
                            /\ Live(c)' /\ ~cl'[c].has_cilk_callee <=> Live(c) /\ ~cl[c].has_cilk_callee,
         \A c \in Closure' \ Closure : /\ cl'[c].fiber \in Fiber \union {NULL} /\ cl'[c].fiber_child = NULL
                                       /\ cl'[c].has_cilk_callee
  PROVE  FiberTyped' /\ OwnInv'
<1>1. Fiber' = Fiber /\ NULL \notin Fiber
  BY WorkerAssumption DEF Fiber, Typed, TypedRuntime
<1>2. FiberTyped'
  BY <1>1 DEF FiberTyped
<1>3. ASSUME NEW x \in Fiber, NEW k, NEW i  PROVE Owns(k, i, x)' <=> Owns(k, i, x)
  BY <1>1 DEF Owns
<1>4. OwnInv' <=> \A x \in Fiber' : \E k, i : Owns(k, i, x)' /\ \A l, j : Owns(l, j, x)' => l = k /\ j = i
  BY DEF OwnInv
<1>5. OwnInv'
  BY <1>1, <1>3, <1>4 DEF OwnInv
<1>. QED  BY <1>2, <1>5
(* The parts, and a step that writes no fiber of a closure.                   *)
LEMMA FiberNext ==
  ASSUME PosInv', FiberTyped', OwnInv', \A c \in Closure' : FiberPart(c)', \A v \in Worker : WorkerFibers(v)'
  PROVE  FiberInv'
BY DEF FiberInv

LEMMA StepKeeps ==
  ASSUME FInv, FiberInv, PosInv', NEW w \in Worker, QuietTree, HomesStay,
         (idle' = idle /\ toFree' = toFree /\ made' = made) \/ (FiberTyped' /\ OwnInv'),
         \A c \in Closure : Strays(c)' <=> Strays(c),
         \A v \in Worker \ {w} : Idles(v) /\ Hand(v)' = Hand(v) /\ on'[v] = on[v],
         \A h \in Frame : \A v \in Worker \ {w} :
           fr'[h].sp = fr[h].sp \/ (h \notin Held(v) /\ (good[v] => cl[t[v]].frame # h)),
         WorkerFibers(w)'
  PROVE  FiberInv'
<1>1. \A c \in Closure' : FiberPart(c)'
  BY QuietFibers DEF FiberInv
<1>2. /\ Closure' = Closure
      /\ \A c \in Closure : /\ cl'[c].fiber = cl[c].fiber /\ cl'[c].fiber_child = cl[c].fiber_child
                            /\ cl'[c].frame = cl[c].frame /\ cl'[c].call_parent = cl[c].call_parent
                            /\ cl'[c].has_cilk_callee = cl[c].has_cilk_callee /\ (Live(c)' <=> Live(c))
  BY DEF QuietTree, SameSites
<1>3. FiberTyped' /\ OwnInv'
  <2>1. CASE idle' = idle /\ toFree' = toFree /\ made' = made
    BY <1>2, <2>1, OwnStays, FParts DEF FiberInv
  <2>. QED  BY <2>1
<1>4. ASSUME NEW v \in Worker \ {w}  PROVE WorkerFibers(v)'
  <2>1. Hand(v) \in Closure \union {NULL} /\ NULL \notin Closure
    BY FParts, HandIs
  <2>2. WorkerFibers(v) /\ Idles(v) /\ Hand(v)' = Hand(v) /\ on'[v] = on[v]
    BY DEF FiberInv
  <2>. QED  BY <1>2, <2>1, <2>2, OthersFibers
<1>. QED  BY <1>1, <1>3, <1>4, FiberNext

(* Nobody else is at a frame that a worker is at.                             *)
LEMMA HeldApart ==
  ASSUME FInv, NEW w \in Worker, NEW f \in Held(w), NEW v \in Worker \ {w}
  PROVE  f \notin Held(v) /\ (good[v] => cl[t[v]].frame # f)
BY GoodParked, FParts DEF TipInv

(* A worker goes on in user code, or stops at a sync.                         *)
LEMMA UserGoesOn ==
  ASSUME FInv, NEW w \in Worker, WorkerFibers(w), HomesStay, pc[w] = "user", pc'[w] \in {"user", "sync"},
         cl' = cl, Hand(w)' = Hand(w), on'[w] = on[w], good'[w] = FALSE,
         \A h \in Held(w)' : h \in Held(w) \/ HomesIn(fr', cl[Hand(w)].fiber, h),
         pc'[w] = "user" => \A h \in Range(ltq'[w]) : fr'[h].sp = cl[Hand(w)].fiber
  PROVE  WorkerFibers(w)'
<1>1. \A f \in Held(w) : f \in Frame /\ fr[f].at # 0
  BY FParts, TipsAre, AtFacts DEF TipInv, Active, IInv
<1>2. \A f \in Held(w) : HomesIn(fr', cl[Hand(w)].fiber, f)
  BY <1>1, HomesGoOn DEF WorkerFibers
<1>3. on'[w] = cl'[Hand(w)'].fiber
  BY DEF WorkerFibers, OnFiber
<1>4. \A h \in Held(w)' : HomesIn(fr', cl'[Hand(w)'].fiber, h)
  BY <1>2
<1>5. ~Thief(w)'
  BY DEF Thief
<1>6. WorkerFibers(w)' <=>
         /\ pc'[w] \in {"user", "sync"} => \A f \in Held(w)' : HomesIn(fr', cl'[Hand(w)'].fiber, f)
         /\ pc'[w] = "user" => \A f \in Range(ltq'[w]) : fr'[f].sp = cl'[Hand(w)'].fiber
         /\ Thief(w)' /\ ~fr'[cl'[t'[w]].frame].stolen =>
              HomesIn(fr', cl'[cl'[t'[w]].call_parent].fiber, cl'[t'[w]].frame)
         /\ pc'[w] \in OnFiber => on'[w] = cl'[Hand(w)'].fiber
         /\ good'[w] => fr'[cl'[t'[w]].frame].sp = cl'[t'[w]].fiber
  BY DEF WorkerFibers, OnFiber
<1>. QED  BY <1>3, <1>4, <1>5, <1>6

(* A worker that is not in user code, nor about to be.                        *)
LEMMA RuntimeFibers ==
  ASSUME NEW w \in Worker, pc'[w] \notin {"user", "sync"}, ~Thief(w)',
         pc'[w] \in OnFiber => on'[w] = cl'[Hand(w)'].fiber,
         good'[w] => fr'[cl'[t'[w]].frame].sp = cl'[t'[w]].fiber
  PROVE  WorkerFibers(w)'
BY DEF WorkerFibers, OnFiber
(* User code: the worker writes only frames it is at, or enters.              *)
LEMMA UserStepFibers ==
  ASSUME FInv, FiberInv, PosInv', NEW w \in Worker, pc[w] = "user", cl' = cl,
         idle' = idle, toFree' = toFree, made' = made, on' = on,
         \A v \in Worker : Hand(v)' = Hand(v), \A v \in Worker \ {w} : Idles(v), ~Thief(w)',
         HomesStay, \A h \in Frame : fr[h].at # 0 => (fr'[h].unsynced <=> fr[h].unsynced),
         \A h \in Frame : fr'[h].sp = fr[h].sp \/ h \in Held(w) \/ fr[h].at = 0,
         WorkerFibers(w)'
  PROVE  FiberInv'
<1>1. QuietTree
  BY NothingWritten
<1>2. \A v \in Worker : (Thief(v)' <=> Thief(v)) /\ (Thief(v) => t'[v] = t[v])
  BY DEF Thief, Idles
<1>3. \A c \in Closure : Strays(c)' <=> Strays(c)
  <2>. TAKE c \in Closure
  <2>1. BeingStolen(c)' <=> BeingStolen(c)
    BY <1>2, ThiefStays
  <2>. QED  BY <2>1, ClosureEntered, StraysStay
<1>4. ASSUME NEW h \in Frame, NEW v \in Worker \ {w}
      PROVE  fr'[h].sp = fr[h].sp \/ (h \notin Held(v) /\ (good[v] => cl[t[v]].frame # h))
  <2>1. CASE h \in Held(w)
    BY <2>1, HeldApart
  <2>2. CASE fr[h].at = 0
    <3>1. h \notin Held(v)
      BY <2>2, FParts, AtFacts DEF TipInv, Active
    <3>2. good[v] => cl[t[v]].frame # h
      BY <2>2, GoodParked, ClosureEntered, Kinds
    <3>. QED  BY <3>1, <3>2
  <2>. QED  BY <2>1, <2>2
<1>. QED  BY <1>1, <1>3, <1>4, StepKeeps

LEMMA UserOwnFiber ==
  ASSUME FInv, FiberInv, NEW w \in Worker, NEW f \in Frame, InUser(w, f)
  PROVE  /\ on[w] = cl[Hand(w)].fiber /\ HomesIn(fr, on[w], f) /\ f \in Held(w) /\ fr[f].at # 0
         /\ pc[w] = "user" /\ cur[w] = f /\ good[w] = FALSE
         /\ Tips(w) = Append(ltq[w], f) /\ Held(w) = Range(ltq[w]) \union {f} /\ ltq[w] \in Seq(Frame)
         /\ \A h \in Range(ltq[w]) : h # f /\ h \in Frame /\ fr[h].sp = on[w]
<1>1. pc[w] = "user" /\ f \in Held(w) /\ fr[f].at # 0 /\ cur[w] = f /\ good[w] = FALSE /\ Active(f)
  BY UserFrame
<1>2. on[w] = cl[Hand(w)].fiber /\ HomesIn(fr, on[w], f) /\ \A h \in Range(ltq[w]) : fr[h].sp = on[w]
  BY <1>1 DEF FiberInv, WorkerFibers, OnFiber
<1>3. Tips(w) = Append(ltq[w], f) /\ Held(w) = Range(ltq[w]) \union {f} /\ ltq[w] \in Seq(Frame)
      /\ \A h \in Range(ltq[w]) : h \in Frame
  <2>1. PlaceInv(w) /\ Typed
    BY FParts DEF IInv
  <2>. QED  BY <1>1, <2>1, TipsAre DEF AtFrames
<1>4. f \notin Range(ltq[w])
  <2>1. IsInjective(Tips(w)) /\ Len(ltq[w]) \in Nat
    BY <1>1, <1>3, FParts, PushFacts DEF TipInv
  <2>2. Tips(w)[Len(ltq[w]) + 1] = f /\ Tips(w) \in Seq(Frame) /\ Len(Tips(w)) = Len(ltq[w]) + 1
        /\ \A i \in 1..Len(ltq[w]) : Tips(w)[i] = ltq[w][i]
    BY <1>3, PushFacts
  <2>3. ASSUME NEW i \in 1..Len(ltq[w]), ltq[w][i] = f
        PROVE  FALSE
    <3>1. i \in DOMAIN Tips(w) /\ Len(ltq[w]) + 1 \in DOMAIN Tips(w) /\ i # Len(ltq[w]) + 1
      BY <2>1, <2>2, <2>3
    <3>. QED  BY <2>1, <2>2, <2>3, <3>1 DEF IsInjective
  <2>. QED  BY <1>3, <2>3 DEF Range
<1>. QED  BY <1>1, <1>2, <1>3, <1>4

LEMMA SpawnFibers ==
  ASSUME FInv, IInv', FiberInv, PosInv', NEW w \in Worker, NEW f \in Frame, Spawn(w, f)
  PROVE  FiberInv'
<1>1. PICK g \in Helper : g = NextInstr(f) /\ Enters(f, g)
  BY SpawnEnters
<1>2. g \in Frame /\ g # f /\ fr[g].at = 0 /\ fr \in [Frame -> FrameRecord] /\ Typed
  BY <1>1, EnterAt, FParts, Kinds DEF Typed, TypedRun
<1>3. fr' = [fr EXCEPT ![f].at = @ + 1, ![f].sp = on[w], ![g] = NewFrame(w, on[w])]
  BY <1>1 DEF Spawn
<1>4. fr'[g] = NewFrame(w, on[w]) /\ fr'[f].sp = on[w] /\ fr'[f].home = fr[f].home
      /\ \A h \in Frame \ {f, g} : fr'[h] = fr[h]
  BY <1>2, <1>3 DEF FrameRecord
<1>5. fr'[g].home = on[w] /\ g \notin Called
  BY <1>1, <1>4, Kinds DEF NewFrame
<1>6. InUser(w, f) /\ cl' = cl /\ t' = t /\ deque' = deque /\ pc' = pc /\ on' = on /\ good' = good
      /\ idle' = idle /\ made' = made /\ toFree' = toFree
      /\ ltq' = [ltq EXCEPT ![w] = Append(@, f)] /\ cur' = [cur EXCEPT ![w] = g]
  BY <1>1 DEF Spawn, treeVars, fiberVars
<1>7. /\ on[w] = cl[Hand(w)].fiber /\ f \in Held(w) /\ pc[w] = "user" /\ good[w] = FALSE
      /\ Held(w) = Range(ltq[w]) \union {f} /\ ltq[w] \in Seq(Frame) /\ ltq \in [Worker -> Seq(Frame)]
      /\ cur \in [Worker -> Frame \union {NULL}]
      /\ \A h \in Range(ltq[w]) : h # f /\ h \in Frame /\ fr[h].sp = on[w] /\ fr[h].at # 0
  <2>1. /\ on[w] = cl[Hand(w)].fiber /\ f \in Held(w) /\ pc[w] = "user" /\ good[w] = FALSE
        /\ Held(w) = Range(ltq[w]) \union {f} /\ ltq[w] \in Seq(Frame)
        /\ \A h \in Range(ltq[w]) : h # f /\ h \in Frame /\ fr[h].sp = on[w]
    BY <1>6, UserOwnFiber
  <2>2. \A h \in Held(w) : h \in Frame => fr[h].at # 0
    <3>. TAKE h \in Held(w)
    <3>1. Active(h)
      BY FParts DEF TipInv
    <3>. QED  BY <1>2, <3>1, AtFacts DEF Active
  <2>3. ltq \in [Worker -> Seq(Frame)] /\ cur \in [Worker -> Frame \union {NULL}]
    BY <1>2 DEF Typed, TypedRun
  <2>. QED  BY <2>1, <2>2, <2>3
<1>8. ltq'[w] = Append(ltq[w], f) /\ cur'[w] = g /\ Tips(w)' = Append(ltq'[w], g)
  BY <1>6, <1>7 DEF Tips
<1>9. Range(ltq'[w]) = Range(ltq[w]) \union {f} /\ Held(w)' = Range(ltq[w]) \union {f, g}
  <2>1. Range(ltq'[w]) = Range(ltq[w]) \union {f} /\ ltq'[w] \in Seq(Frame)
    BY <1>7, <1>8, PushRange, PushFacts
  <2>2. g \in Frame
    BY <1>2
  <2>3. Range(Append(ltq'[w], g)) = Range(ltq'[w]) \union {g}
    BY <2>1, <2>2, PushRange
  <2>. QED  BY <1>8, <2>1, <2>3 DEF Held
<1>10. HomesStay
  BY <1>1, <1>2, <1>4 DEF HomesStay, Enters
<1>11. \A v \in Worker : Hand(v)' = Hand(v)
  BY <1>6 DEF Hand
<1>12. \A v \in Worker \ {w} : Idles(v)
  BY <1>6, <1>7 DEF Idles
<1>13. WorkerFibers(w)'
  <2>1. \A h \in Held(w)' : h \in Held(w) \/ HomesIn(fr', cl[Hand(w)].fiber, h)
    <3>1. HomesIn(fr', cl[Hand(w)].fiber, g)
      <4>1. fr'[g].home = cl[Hand(w)].fiber
        BY <1>5, <1>7
      <4>. QED  BY <1>2, <1>5, <4>1, HomesTop
    <3>. QED  BY <1>7, <1>9, <3>1
  <2>2. \A h \in Range(ltq'[w]) : fr'[h].sp = cl[Hand(w)].fiber
    BY <1>2, <1>4, <1>7, <1>9
  <2>. QED  BY <1>6, <1>7, <1>10, <1>11, <2>1, <2>2, UserGoesOn DEF FiberInv
<1>14. \A h \in Frame : fr[h].at # 0 => (fr'[h].unsynced <=> fr[h].unsynced)
  BY <1>1, <1>2 DEF Enters
<1>15. \A h \in Frame : fr'[h].sp = fr[h].sp \/ h \in Held(w) \/ fr[h].at = 0
  BY <1>2, <1>4, <1>7
<1>16. ~Thief(w)'
  BY <1>6, <1>7 DEF Thief
<1>. QED  BY <1>6, <1>7, <1>10, <1>11, <1>12, <1>13, <1>14, <1>15, <1>16, UserStepFibers
(* A step in user code that leaves the worker there, or at a sync.            *)
LEMMA UserMoves ==
  ASSUME FInv, FiberInv, PosInv', NEW w \in Worker, NEW f \in Frame, InUser(w, f),
         cl' = cl, t' = t, deque' = deque, good' = good, on' = on,
         idle' = idle, toFree' = toFree, made' = made,
         pc'[w] \in {"user", "sync"},
         \A v \in Worker \ {w} : pc'[v] = pc[v] /\ ltq'[v] = ltq[v] /\ cur'[v] = cur[v],
         HomesStay, \A h \in Frame : fr[h].at # 0 => (fr'[h].unsynced <=> fr[h].unsynced),
         \A h \in Frame : fr'[h].sp = fr[h].sp \/ h \in Held(w) \/ fr[h].at = 0,
         \A h \in Held(w)' : h \in Held(w) \/ HomesIn(fr', on[w], h),
         pc'[w] = "user" => \A h \in Range(ltq'[w]) : fr'[h].sp = on[w]
  PROVE  FiberInv'
<1>1. on[w] = cl[Hand(w)].fiber /\ pc[w] = "user" /\ good[w] = FALSE
  BY UserOwnFiber
<1>2. \A v \in Worker : Hand(v)' = Hand(v)
  BY DEF Hand
<1>3. \A v \in Worker \ {w} : Idles(v)
  BY DEF Idles
<1>4. WorkerFibers(w)
  BY DEF FiberInv
<1>5. WorkerFibers(w)'
  BY <1>1, <1>2, <1>4, UserGoesOn
<1>6. ~Thief(w)'
  BY DEF Thief
<1>. QED  BY <1>1, <1>2, <1>3, <1>5, <1>6, UserStepFibers

(* ... and one that takes it to the runtime.                                  *)
LEMMA UserLeaves ==
  ASSUME FInv, FiberInv, PosInv', NEW w \in Worker, NEW f \in Frame, InUser(w, f),
         cl' = cl, good' = good, on' = on, idle' = idle, toFree' = toFree, made' = made,
         \A v \in Worker : Hand(v)' = Hand(v), \A v \in Worker \ {w} : Idles(v),
         pc'[w] \in {"handler", "set_return", "back"},
         \A h \in Frame : /\ fr'[h].home = fr[h].home /\ fr'[h].stolen = fr[h].stolen
                          /\ fr'[h].unsynced = fr[h].unsynced /\ fr'[h].sp = fr[h].sp
  PROVE  FiberInv'
<1>1. on[w] = cl[Hand(w)].fiber /\ pc[w] = "user" /\ good[w] = FALSE
  BY UserOwnFiber
<1>2. WorkerFibers(w)'
  BY <1>1, RuntimeFibers DEF Thief
<1>3. HomesStay
  BY DEF HomesStay
<1>4. ~Thief(w)'
  BY DEF Thief
<1>. QED  BY <1>1, <1>2, <1>3, <1>4, UserStepFibers

(* A frame is called.                                                         *)
LEMMA CallFibers ==
  ASSUME FInv, IInv', FiberInv, PosInv', NEW w \in Worker, NEW f \in Frame, Call(w, f)
  PROVE  FiberInv'
<1>1. PICK g \in Frame \ Helper : g = NextInstr(f) /\ Enters(f, g)
  BY CallEnters
<1>2. g \in Frame /\ g # f /\ fr[g].at = 0 /\ fr \in [Frame -> FrameRecord] /\ g # Root /\ Caller(g) = f
      /\ Typed
  BY <1>1, EnterAt, FParts DEF Typed, TypedRun
<1>3. fr' = [fr EXCEPT ![f].at = @ + 1, ![g] = NewFrame(w, on[w])]
  BY <1>1 DEF Call
<1>4. fr'[g] = NewFrame(w, on[w]) /\ fr'[f].sp = fr[f].sp /\ fr'[f].home = fr[f].home
      /\ \A h \in Frame \ {f, g} : fr'[h] = fr[h]
  BY <1>2, <1>3 DEF FrameRecord
<1>5. fr'[g].home = on[w] /\ g \in Called
  BY <1>1, <1>2, <1>4 DEF NewFrame, Called
<1>6. InUser(w, f) /\ cl' = cl /\ t' = t /\ deque' = deque /\ pc' = pc /\ on' = on /\ good' = good
      /\ idle' = idle /\ made' = made /\ toFree' = toFree /\ ltq' = ltq /\ cur' = [cur EXCEPT ![w] = g]
  BY <1>1 DEF Call, treeVars, fiberVars
<1>7. /\ HomesIn(fr, on[w], f) /\ f \in Held(w) /\ fr[f].at # 0 /\ pc[w] = "user"
      /\ Held(w) = Range(ltq[w]) \union {f} /\ ltq[w] \in Seq(Frame)
      /\ \A h \in Range(ltq[w]) : h # f /\ h \in Frame /\ fr[h].sp = on[w]
  BY <1>6, UserOwnFiber
<1>8. cur'[w] = g /\ \A v \in Worker \ {w} : cur'[v] = cur[v]
  BY <1>2, <1>6 DEF Typed, TypedRun
<1>9. Held(w)' = Range(ltq[w]) \union {g}
  <2>1. Tips(w)' = Append(ltq[w], g)
    BY <1>6, <1>7, <1>8 DEF Tips
  <2>2. Range(Append(ltq[w], g)) = Range(ltq[w]) \union {g}
    BY <1>2, <1>7, PushRange
  <2>. QED  BY <2>1, <2>2 DEF Held
<1>10. HomesStay
  BY <1>1, <1>2, <1>4 DEF HomesStay, Enters
<1>11. HomesIn(fr', on[w], g)
  <2>1. HomesIn(fr', on[w], f)
    BY <1>7, <1>10, HomesGoOn
  <2>. QED  BY <1>2, <1>5, <2>1, HomesShift
<1>12. \A h \in Range(ltq[w]) : fr'[h].sp = on[w]
  <2>. TAKE h \in Range(ltq[w])
  <2>1. h \in Frame \ {f} /\ fr[h].sp = on[w] /\ h \in Held(w)
    BY <1>7
  <2>2. h # g
    BY <1>2, <2>1, FParts, AtFacts DEF TipInv, Active
  <2>. QED  BY <1>4, <2>1, <2>2
<1>13. \A h \in Frame : fr[h].at # 0 => (fr'[h].unsynced <=> fr[h].unsynced)
  BY <1>1, <1>2 DEF Enters
<1>14. \A h \in Frame : fr'[h].sp = fr[h].sp \/ h \in Held(w) \/ fr[h].at = 0
  BY <1>2, <1>4, <1>7
<1>15. pc'[w] \in {"user", "sync"}
  BY <1>6, <1>7
<1>16. \A h \in Held(w)' : h \in Held(w) \/ HomesIn(fr', on[w], h)
  BY <1>7, <1>9, <1>11
<1>17. \A h \in Range(ltq'[w]) : fr'[h].sp = on[w]
  BY <1>6, <1>12
<1>18. \A v \in Worker \ {w} : pc'[v] = pc[v] /\ ltq'[v] = ltq[v] /\ cur'[v] = cur[v]
  BY <1>6, <1>8
<1>. QED  BY <1>6, <1>10, <1>13, <1>14, <1>15, <1>16, <1>17, <1>18, UserMoves

(* A frame passes a sync, or stops at one and saves its stack pointer.        *)
LEMMA AtSyncFibers ==
  ASSUME FInv, IInv', FiberInv, PosInv', NEW w \in Worker, NEW f \in Frame, FastSync(w, f) \/ SlowSync(w, f)
  PROVE  FiberInv'
<1>1. InUser(w, f) /\ cl' = cl /\ t' = t /\ deque' = deque /\ on' = on /\ good' = good
      /\ idle' = idle /\ made' = made /\ toFree' = toFree /\ ltq' = ltq /\ cur' = cur
      /\ (pc' = pc \/ Goto(w, "sync"))
  BY DEF FastSync, SlowSync, treeVars, fiberVars
<1>2. /\ f \in Held(w) /\ pc[w] = "user" /\ ltq[w] \in Seq(Frame)
      /\ \A h \in Range(ltq[w]) : h # f /\ h \in Frame /\ fr[h].sp = on[w]
  BY <1>1, UserOwnFiber
<1>3. fr \in [Frame -> FrameRecord]
  BY FParts DEF Typed, TypedRun
<1>4. /\ fr'[f].home = fr[f].home /\ fr'[f].stolen = fr[f].stolen /\ fr'[f].unsynced = fr[f].unsynced
      /\ \A h \in Frame \ {f} : fr'[h] = fr[h]
  <2>1. CASE FastSync(w, f)
    BY <1>3, <2>1 DEF FastSync, FrameRecord
  <2>2. CASE SlowSync(w, f)
    BY <1>3, <2>2 DEF SlowSync, FrameRecord
  <2>. QED  BY <2>1, <2>2
<1>5. pc'[w] \in {"user", "sync"} /\ \A v \in Worker \ {w} : pc'[v] = pc[v] /\ ltq'[v] = ltq[v] /\ cur'[v] = cur[v]
  BY <1>1, <1>2, GoesTo
<1>6. Held(w)' = Held(w)
  BY <1>1, <1>2, <1>5 DEF Held, Tips
<1>7. HomesStay
  BY <1>4 DEF HomesStay
<1>8. \A h \in Range(ltq'[w]) : fr'[h].sp = on[w]
  BY <1>1, <1>2, <1>4
<1>9. \A h \in Frame : fr[h].at # 0 => (fr'[h].unsynced <=> fr[h].unsynced)
  BY <1>4
<1>10. \A h \in Frame : fr'[h].sp = fr[h].sp \/ h \in Held(w) \/ fr[h].at = 0
  BY <1>2, <1>4
<1>. QED  BY <1>1, <1>5, <1>6, <1>7, <1>8, <1>9, <1>10, UserMoves
(* A frame ends: nothing of it but its place is written.                      *)
LEMMA LeaveFibers ==
  ASSUME FInv, NEW w \in Worker, NEW f \in Frame, fr' = [fr EXCEPT ![f].at = @ + 1]
  PROVE  \A h \in Frame : /\ fr'[h].home = fr[h].home /\ fr'[h].stolen = fr[h].stolen
                          /\ fr'[h].unsynced = fr[h].unsynced /\ fr'[h].sp = fr[h].sp
<1>1. fr \in [Frame -> FrameRecord]
  BY FParts DEF Typed, TypedRun
<1>. QED  BY <1>1 DEF FrameRecord

(* Back to the caller, or to the parent on the shadow stack.                  *)
LEMMA BelowFibers ==
  ASSUME FInv, IInv', FiberInv, PosInv', NEW w \in Worker, NEW f \in Frame, ReturnToCaller(w, f) \/ PopParent(w, f)
  PROVE  FiberInv'
<1>1. InUser(w, f) /\ cl' = cl /\ t' = t /\ deque' = deque /\ pc' = pc /\ on' = on /\ good' = good
      /\ idle' = idle /\ made' = made /\ toFree' = toFree /\ Leave(w, f)
      /\ (ltq' = ltq \/ ltq' = [ltq EXCEPT ![w] = Front(@)])
  BY DEF ReturnToCaller, PopParent, Leave, treeVars, fiberVars
<1>2. /\ f \in Held(w) /\ pc[w] = "user" /\ HomesIn(fr, on[w], f) /\ fr[f].at # 0 /\ cur[w] = f
      /\ ltq[w] \in Seq(Frame) /\ Held(w) = Range(ltq[w]) \union {f}
      /\ \A h \in Range(ltq[w]) : h # f /\ h \in Frame /\ fr[h].sp = on[w]
  BY <1>1, UserOwnFiber
<1>3. \A h \in Frame : /\ fr'[h].home = fr[h].home /\ fr'[h].stolen = fr[h].stolen
                       /\ fr'[h].unsynced = fr[h].unsynced /\ fr'[h].sp = fr[h].sp
  BY <1>1, LeaveFibers DEF Leave
<1>4. HomesStay
  BY <1>3 DEF HomesStay
<1>5. cur'[w] = Caller(f) /\ \A v \in Worker \ {w} : cur'[v] = cur[v]
  BY <1>1, LeaveIs
<1>6. \A v \in Worker \ {w} : ltq'[v] = ltq[v]
  BY <1>1, FParts DEF Typed, TypedRun
<1>7. (\A h \in Held(w)' : h \in Held(w) \/ HomesIn(fr', on[w], h))
      /\ \A h \in Range(ltq'[w]) : h \in Range(ltq[w])
  <2>1. CASE ReturnToCaller(w, f)
    <3>1. ltq' = ltq /\ f \in Called /\ ~fr[f].stolen
      BY <2>1 DEF ReturnToCaller, Called
    <3>2. HomesIn(fr', on[w], f)
      BY <1>2, <1>4, HomesGoOn
    <3>3. HomesIn(fr', on[w], Caller(f))
      BY <1>3, <3>1, <3>2, HomesShift
    <3>4. Caller(f) \in Frame
      BY <3>1, StackletOf
    <3>5. Tips(w)' = Append(ltq[w], Caller(f))
      BY <1>1, <1>2, <1>5, <3>1 DEF Tips
    <3>6. Range(Append(ltq[w], Caller(f))) = Range(ltq[w]) \union {Caller(f)}
      BY <1>2, <3>4, PushRange
    <3>7. Held(w)' = Range(ltq[w]) \union {Caller(f)}
      BY <3>5, <3>6 DEF Held
    <3>. QED  BY <1>2, <3>1, <3>3, <3>7
  <2>2. CASE PopParent(w, f)
    <3>1. f \in Helper /\ ltq[w] # <<>> /\ ltq' = [ltq EXCEPT ![w] = Front(@)]
      BY <2>2 DEF PopParent
    <3>2. ltq'[w] = Front(ltq[w])
      BY <3>1, FParts DEF Typed, TypedRun
    <3>3. Len(ltq[w]) \in Nat \ {0} /\ Caller(f) = ltq[w][Len(ltq[w])]
      BY <1>2, <3>1, LastIsCaller
    <3>4. /\ Front(ltq[w]) \in Seq(Frame) /\ Len(Front(ltq[w])) = Len(ltq[w]) - 1
          /\ \A i \in 1..Len(ltq[w]) - 1 : Front(ltq[w])[i] = ltq[w][i]
      BY <1>2, <3>1, PopFacts
    <3>5. \A h \in Range(Front(ltq[w])) : h \in Range(ltq[w])
      <4>. TAKE h \in Range(Front(ltq[w]))
      <4>1. PICK i \in 1..Len(Front(ltq[w])) : Front(ltq[w])[i] = h
        BY <3>4 DEF Range
      <4>2. i \in 1..Len(ltq[w]) /\ ltq[w][i] = h
        BY <3>3, <3>4, <4>1
      <4>. QED  BY <1>2, <4>2 DEF Range
    <3>6. Caller(f) \in Range(ltq[w])
      BY <1>2, <3>3 DEF Range
    <3>7. Tips(w)' = Append(Front(ltq[w]), Caller(f))
      BY <1>1, <1>2, <1>5, <3>2 DEF Tips
    <3>8. Range(Append(Front(ltq[w]), Caller(f))) = Range(Front(ltq[w])) \union {Caller(f)}
      BY <1>2, <3>4, <3>6, PushRange
    <3>9. Held(w)' = Range(Front(ltq[w])) \union {Caller(f)}
      BY <3>7, <3>8 DEF Held
    <3>. QED  BY <1>2, <3>2, <3>5, <3>6, <3>9
  <2>. QED  BY <2>1, <2>2
<1>8. \A h \in Range(ltq'[w]) : fr'[h].sp = on[w]
  BY <1>2, <1>3, <1>7
<1>9. pc'[w] \in {"user", "sync"} /\ \A v \in Worker \ {w} : pc'[v] = pc[v] /\ ltq'[v] = ltq[v] /\ cur'[v] = cur[v]
  BY <1>1, <1>2, <1>5, <1>6
<1>. QED  BY <1>1, <1>3, <1>4, <1>7, <1>8, <1>9, UserMoves

(* To the runtime.                                                            *)
LEMMA LeavingFibers ==
  ASSUME FInv, IInv', FiberInv, PosInv', NEW w \in Worker, NEW f \in Frame,
         EnterHandler(w, f) \/ ReturnFullFrame(w, f) \/ (FinishRoot(w) /\ f = Root)
  PROVE  FiberInv'
<1>1. InUser(w, f) /\ cl' = cl /\ on' = on /\ good' = good /\ ltq' = ltq
      /\ idle' = idle /\ made' = made /\ toFree' = toFree /\ fr' = [fr EXCEPT ![f].at = @ + 1]
      /\ (Leave(w, f) \/ cur' = cur)
      /\ (Goto(w, "handler") \/ Goto(w, "set_return") \/ Goto(w, "back"))
  BY DEF EnterHandler, ReturnFullFrame, FinishRoot, Leave, treeVars, fiberVars
<1>2. \A v \in Worker \ {w} : cur'[v] = cur[v]
  BY <1>1, LeaveIs
<1>3. pc'[w] \in {"handler", "set_return", "back"} /\ \A v \in Worker \ {w} : pc'[v] = pc[v]
  BY <1>1, GoesTo
<1>4. (\A v \in Worker : Hand(v)' = Hand(v)) /\ \A v \in Worker \ {w} : t'[v] = t[v] /\ deque'[v] = deque[v]
  <2>1. CASE ReturnFullFrame(w, f)
    <3>1. \A v \in Worker : Hand(v)' = Hand(v)
      BY <2>1, HandMoves DEF HandQuiet
    <3>2. \A v \in Worker \ {w} : t'[v] = t[v] /\ deque'[v] = deque[v]
      BY <2>1 DEF ReturnFullFrame
    <3>. QED  BY <3>1, <3>2
  <2>2. CASE EnterHandler(w, f) \/ FinishRoot(w)
    <3>1. t' = t /\ deque' = deque
      BY <2>2 DEF EnterHandler, FinishRoot, treeVars
    <3>. QED  BY <3>1, HandsStay
  <2>. QED  BY <2>1, <2>2
<1>5. \A v \in Worker \ {w} : Idles(v)
  BY <1>1, <1>2, <1>3, <1>4 DEF Idles
<1>6. \A h \in Frame : /\ fr'[h].home = fr[h].home /\ fr'[h].stolen = fr[h].stolen
                       /\ fr'[h].unsynced = fr[h].unsynced /\ fr'[h].sp = fr[h].sp
  BY <1>1, LeaveFibers
<1>. QED  BY <1>1, <1>3, <1>4, <1>5, <1>6, UserLeaves
(* What steps of the runtime leave of the frames.                             *)
FrameFibers ==
  \A h \in Frame : /\ fr'[h].home = fr[h].home /\ fr'[h].stolen = fr[h].stolen
                   /\ fr'[h].unsynced = fr[h].unsynced /\ fr'[h].sp = fr[h].sp

(* A step in the runtime, by a worker that is no thief.                       *)
LEMMA RuntimeMoves ==
  ASSUME FInv, FiberInv, PosInv', NEW w \in Worker, QuietTree, FrameFibers,
         (idle' = idle /\ toFree' = toFree /\ made' = made) \/ (FiberTyped' /\ OwnInv'),
         \A v \in Worker : Hand(v)' = Hand(v), \A v \in Worker \ {w} : Idles(v) /\ on'[v] = on[v],
         ~Thief(w), ~Thief(w)', pc'[w] \notin {"user", "sync"},
         pc'[w] \in OnFiber => pc[w] \in OnFiber /\ on'[w] = on[w] /\ Hand(w) \in Closure,
         good'[w] => good[w] /\ t'[w] = t[w]
  PROVE  FiberInv'
<1>1. HomesStay
  BY DEF HomesStay, FrameFibers
<1>2. \A v \in Worker : (Thief(v)' <=> Thief(v)) /\ (Thief(v) => t'[v] = t[v])
  BY DEF Thief, Idles
<1>3. \A c \in Closure : Strays(c)' <=> Strays(c)
  <2>. TAKE c \in Closure
  <2>1. BeingStolen(c)' <=> BeingStolen(c)
    BY <1>2, ThiefStays
  <2>2. cl'[c].frame = cl[c].frame
    BY DEF QuietTree, SameSites
  <2>3. cl[c].frame # NULL => (fr'[cl[c].frame].unsynced <=> fr[cl[c].frame].unsynced)
    BY ClosureEntered DEF FrameFibers
  <2>. QED  BY <2>1, <2>2, <2>3, StraysStay
<1>4. WorkerFibers(w)
  BY DEF FiberInv
<1>5. pc'[w] \in OnFiber => on'[w] = cl'[Hand(w)'].fiber
  BY <1>4 DEF WorkerFibers, QuietTree, SameSites
<1>6. good'[w] => fr'[cl'[t'[w]].frame].sp = cl'[t'[w]].fiber
  <2>. HAVE good'[w]
  <2>1. t[w] \in Closure /\ cl[t[w]].frame \in Frame /\ t'[w] = t[w] /\ good[w]
    BY GoodParked
  <2>2. cl'[t[w]].frame = cl[t[w]].frame /\ cl'[t[w]].fiber = cl[t[w]].fiber
    BY <2>1 DEF QuietTree, SameSites
  <2>. QED  BY <1>4, <2>1, <2>2 DEF WorkerFibers, FrameFibers
<1>7. WorkerFibers(w)'
  BY <1>5, <1>6, RuntimeFibers
<1>8. \A h \in Frame : \A v \in Worker \ {w} :
        fr'[h].sp = fr[h].sp \/ (h \notin Held(v) /\ (good[v] => cl[t[v]].frame # h))
  BY DEF FrameFibers
<1>. QED  BY <1>1, <1>3, <1>7, <1>8, StepKeeps

(* The steps that write the lock or the status of the closure a worker has.   *)
LEMMA WriteFibers ==
  ASSUME FInv, FiberInv, PosInv', NEW w \in Worker, NEW c \in Closure,
         Handler(w, c) \/ SetReturnChild(w, c) \/ ReturnChild(w, c) \/ Execute(w, c)
  PROVE  FiberInv'
<1>1. QuietTree /\ c = Hand(w) /\ (\A v \in Worker : Hand(v)' = Hand(v)) /\ t' = t /\ deque' = deque
  BY WriteQuiet
<1>2. idle' = idle /\ made' = made /\ toFree' = toFree /\ on' = on /\ good' = good
  BY DEF Handler, SetReturnChild, ReturnChild, Execute, fiberVars, runVars
<1>3. /\ \A v \in Worker \ {w} : pc'[v] = pc[v] /\ ltq'[v] = ltq[v] /\ cur'[v] = cur[v]
      /\ pc[w] \in {"handler", "set_return", "do"} /\ pc'[w] \in {"back", "set_return_parent", "return", "push"}
      /\ (pc'[w] = "set_return_parent" => pc[w] = "set_return")
  <2>1. CASE Handler(w, c)
    BY <2>1, GoesTo DEF Handler, runVars, At
  <2>2. CASE SetReturnChild(w, c)
    BY <2>2, GoesTo DEF SetReturnChild, runVars, At
  <2>3. CASE ReturnChild(w, c)
    BY <2>3, GoesTo DEF ReturnChild, runVars, At
  <2>4. CASE Execute(w, c)
    BY <2>4, GoesTo, FParts DEF Execute, At, Typed, TypedRun
  <2>. QED  BY <2>1, <2>2, <2>3, <2>4
<1>4. FrameFibers
  <2>1. fr \in [Frame -> FrameRecord]
    BY FParts DEF Typed, TypedRun
  <2>2. fr' = fr \/ fr' = [fr EXCEPT ![cl[c].frame].worker = w]
    BY DEF Handler, SetReturnChild, ReturnChild, Execute, runVars
  <2>. QED  BY <2>1, <2>2 DEF FrameFibers, FrameRecord
<1>5. \A v \in Worker \ {w} : Idles(v)
  BY <1>1, <1>2, <1>3 DEF Idles
<1>6. ~Thief(w) /\ ~Thief(w)' /\ pc'[w] \notin {"user", "sync"}
  BY <1>3 DEF Thief
<1>7. pc'[w] \in OnFiber => pc[w] \in OnFiber /\ on'[w] = on[w] /\ Hand(w) \in Closure
  BY <1>1, <1>2, <1>3 DEF OnFiber
<1>. QED  BY <1>1, <1>2, <1>4, <1>5, <1>6, <1>7, RuntimeMoves

(* The steps that write no closure, nor a pool.                               *)
LEMMA LocalFibers ==
  ASSUME FInv, FiberInv, PosInv', NEW w \in Worker,
         \/ HaveWork(w) \/ Exit(w) \/ Extract(w)
         \/ \E v \in Worker : TryVictim(w, v) \/ GiveUp(w, v)
  PROVE  FiberInv'
<1>1. cl' = cl /\ \A v \in Worker : Hand(v)' = Hand(v)
  <2>1. CASE Extract(w)
    BY <2>1, HandMoves DEF HandQuiet
  <2>2. CASE HaveWork(w) \/ Exit(w) \/ \E v \in Worker : TryVictim(w, v) \/ GiveUp(w, v)
    <3>1. RuntimeQuiet(w)
      BY <2>2 DEF RuntimeQuiet
    <3>. QED  BY <3>1, StaysPut, HandsStay
  <2>. QED  BY <2>1, <2>2
<1>2. QuietTree
  BY <1>1, NothingWritten
<1>3. /\ idle' = idle /\ made' = made /\ toFree' = toFree /\ on' = on /\ good' = good /\ fr' = fr
      /\ ltq' = ltq /\ cur' = cur
  BY DEF HaveWork, Exit, Extract, TryVictim, GiveUp, fiberVars, runVars
<1>4. /\ \A v \in Worker \ {w} : pc'[v] = pc[v]
      /\ pc[w] \in {"loop", "idle", "do", "steal"} /\ pc'[w] \in {"do", "exit", "idle", "steal"}
  <2>1. CASE HaveWork(w)
    BY <2>1, GoesTo DEF HaveWork, At
  <2>2. CASE Exit(w)
    BY <2>2, GoesTo DEF Exit, At
  <2>3. CASE Extract(w)
    BY <2>3, GoesTo DEF Extract, At
  <2>4. CASE \E v \in Worker : TryVictim(w, v) \/ GiveUp(w, v)
    BY <2>4, GoesTo DEF TryVictim, GiveUp, At
  <2>. QED  BY <2>1, <2>2, <2>3, <2>4
<1>5. \A v \in Worker \ {w} : t'[v] = t[v] /\ deque'[v] = deque[v]
  <2>1. CASE Extract(w)
    BY <2>1, FParts DEF Extract, Typed, TypedRuntime
  <2>2. CASE ~Extract(w)
    BY <2>2 DEF HaveWork, Exit, TryVictim, GiveUp, treeVars
  <2>. QED  BY <2>1, <2>2
<1>6. good'[w] => good[w] /\ t'[w] = t[w]
  <2>1. CASE Extract(w)
    <3>1. good[w] => t[w] # NULL
      BY FParts DEF StageInv
    <3>. QED  BY <1>3, <2>1, <3>1 DEF Extract
  <2>2. CASE ~Extract(w)
    BY <1>3, <2>2 DEF HaveWork, Exit, TryVictim, GiveUp
  <2>. QED  BY <2>1, <2>2
<1>7. FrameFibers
  BY <1>3 DEF FrameFibers
<1>8. \A v \in Worker \ {w} : Idles(v)
  BY <1>3, <1>4, <1>5 DEF Idles
<1>9. ~Thief(w) /\ ~Thief(w)' /\ pc'[w] \notin {"user", "sync"} /\ pc'[w] \notin OnFiber
  BY <1>4 DEF Thief, OnFiber
<1>. QED  BY <1>1, <1>2, <1>3, <1>6, <1>7, <1>8, <1>9, RuntimeMoves
(* Fibers that change hands.                                                  *)
LEMMA OwnerIs ==
  ASSUME OwnInv, NEW x \in Fiber, NEW k, NEW i, Owns(k, i, x)
  PROVE  \A l, j : Owns(l, j, x) <=> l = k /\ j = i
<1>1. PICK m, n : Owns(m, n, x) /\ \A l, j : Owns(l, j, x) => l = m /\ j = n
  BY DEF OwnInv
<1>. QED  BY <1>1

LEMMA OwnMoves ==
  ASSUME OwnInv,
         \A x \in Fiber' : \/ x \in Fiber /\ \A k, i : Owns(k, i, x)' <=> Owns(k, i, x)
                           \/ \E k, i : \A l, j : Owns(l, j, x)' <=> l = k /\ j = i
  PROVE  OwnInv'
<1>1. OwnInv' <=> \A x \in Fiber' : \E k, i : Owns(k, i, x)' /\ \A l, j : Owns(l, j, x)' => l = k /\ j = i
  BY DEF OwnInv
<1>2. ASSUME NEW x \in Fiber'
      PROVE  \E k, i : Owns(k, i, x)' /\ \A l, j : Owns(l, j, x)' => l = k /\ j = i
  <2>1. CASE x \in Fiber /\ \A k, i : Owns(k, i, x)' <=> Owns(k, i, x)
    <3>1. PICK m, n : Owns(m, n, x) /\ \A l, j : Owns(l, j, x) => l = m /\ j = n
      BY <2>1 DEF OwnInv
    <3>. QED  BY <2>1, <3>1
  <2>2. CASE \E k, i : \A l, j : Owns(l, j, x)' <=> l = k /\ j = i
    BY <2>2
  <2>. QED  BY <1>2, <2>1, <2>2
<1>. QED  BY <1>1, <1>2

(* The owners of the next state, spelled out.                                 *)
LEMMA OwnsNext ==
  ASSUME NEW k, NEW i, NEW x
  PROVE  Owns(k, i, x)' <=>
           \/ k = "pool" /\ i = x /\ x \in idle'
           \/ k = "free" /\ i \in Worker /\ toFree'[i] = x
           \/ k = "sync" /\ i \in Closure' /\ cl'[i].fiber_child = x
           \/ k = "run" /\ i \in Closure' /\ cl'[i].fiber = x /\ Live(i)' /\ ~cl'[i].has_cilk_callee
  BY DEF Owns

(* A worker that is back in the runtime frees what it left.                   *)
LEMMA BackFibers ==
  ASSUME FInv, FiberInv, PosInv', NEW w \in Worker, BackToRuntime(w)
  PROVE  FiberInv'
<1>1. cl' = cl /\ t' = t /\ deque' = deque /\ \A v \in Worker : Hand(v)' = Hand(v)
  <2>1. RuntimeQuiet(w)
    BY DEF RuntimeQuiet
  <2>. QED  BY <2>1, StaysPut, HandsStay
<1>2. QuietTree
  BY <1>1, NothingWritten
<1>3. /\ made' = made /\ good' = good /\ fr' = fr /\ ltq' = ltq /\ cur' = cur
      /\ idle' = idle \union Free({toFree[w]}) /\ toFree' = [toFree EXCEPT ![w] = NULL]
      /\ on' = [on EXCEPT ![w] = NULL] /\ pc[w] = "back"
  BY DEF BackToRuntime, At
<1>4. pc'[w] = "loop" /\ \A v \in Worker \ {w} : pc'[v] = pc[v]
  BY GoesTo DEF BackToRuntime
<1>5. toFree \in [Worker -> Ref] /\ on \in [Worker -> Ref] /\ NULL \notin Fiber
  BY FParts, WorkerAssumption DEF Typed, TypedRun, TypedRuntime, Fiber
<1>6. toFree'[w] = NULL /\ \A v \in Worker \ {w} : toFree'[v] = toFree[v] /\ on'[v] = on[v]
  BY <1>3, <1>5
<1>7. FiberTyped /\ OwnInv
  BY DEF FiberInv
<1>8. FiberTyped'
  <2>1. idle' \subseteq Fiber
    BY <1>3, <1>7 DEF FiberTyped, Free
  <2>2. \A v \in Worker : toFree'[v] \in Fiber \union {NULL}
    BY <1>6, <1>7 DEF FiberTyped
  <2>3. Fiber' = Fiber /\ Closure' = Closure
    BY <1>1, <1>3 DEF Fiber, Closure
  <2>. QED  BY <1>1, <1>7, <2>1, <2>2, <2>3 DEF FiberTyped
<1>9. Closure' = Closure /\ \A c \in Closure : Live(c)' <=> Live(c)
  BY <1>2 DEF QuietTree
<1>10. OwnInv'
  <2>1. ASSUME NEW x \in Fiber, x # toFree[w], NEW k, NEW i
        PROVE  Owns(k, i, x)' <=> Owns(k, i, x)
    <3>1. x \in idle' <=> x \in idle
      BY <1>3, <2>1 DEF Free
    <3>2. \A v \in Worker : toFree'[v] = x <=> toFree[v] = x
      BY <1>5, <1>6, <2>1
    <3>. QED  BY <1>1, <1>9, <3>1, <3>2, OwnsNext DEF Owns
  <2>2. ASSUME NEW x \in Fiber, x = toFree[w]
        PROVE  \A l, j : Owns(l, j, x)' <=> l = "pool" /\ j = x
    <3>1. \A l, j : Owns(l, j, x) <=> l = "free" /\ j = w
      <4>1. Owns("free", w, x)
        BY <2>2 DEF Owns
      <4>. QED  BY <1>7, <4>1, OwnerIs
    <3>2. x \in idle' /\ \A v \in Worker : toFree'[v] # x
      <4>1. x \in idle'
        BY <1>3, <1>5, <2>2 DEF Free
      <4>2. \A v \in Worker \ {w} : toFree[v] # x
        BY <3>1 DEF Owns
      <4>. QED  BY <1>5, <1>6, <4>1, <4>2
    <3>3. \A c \in Closure : cl[c].fiber_child # x /\ ~(cl[c].fiber = x /\ Live(c) /\ ~cl[c].has_cilk_callee)
      BY <3>1 DEF Owns
    <3>. QED  BY <1>1, <1>9, <3>2, <3>3, OwnsNext
  <2>3. Fiber' = Fiber
    BY <1>3 DEF Fiber
  <2>4. \A x \in Fiber' : \/ x \in Fiber /\ \A k, i : Owns(k, i, x)' <=> Owns(k, i, x)
                          \/ \E k, i : \A l, j : Owns(l, j, x)' <=> l = k /\ j = i
    BY <2>1, <2>2, <2>3
  <2>. QED  BY <1>7, <2>4, OwnMoves
<1>11. \A v \in Worker \ {w} : Idles(v)
  BY <1>1, <1>3, <1>4 DEF Idles
<1>12. FrameFibers
  BY <1>3 DEF FrameFibers
<1>13. ~Thief(w) /\ ~Thief(w)' /\ pc'[w] \notin {"user", "sync"} /\ pc'[w] \notin OnFiber
  BY <1>3, <1>4 DEF Thief, OnFiber
<1>14. good'[w] => good[w] /\ t'[w] = t[w]
  BY <1>1, <1>3
<1>. QED  BY <1>1, <1>2, <1>6, <1>8, <1>10, <1>11, <1>12, <1>13, <1>14, RuntimeMoves

(* A thief lets go of its victim's deque.                                     *)
LEMMA ReleaseFibers ==
  ASSUME FInv, FiberInv, PosInv', NEW w \in Worker, NEW v \in Worker, ReleaseVictim(w, v)
  PROVE  FiberInv'
<1>1. cl' = cl /\ t' = t /\ deque' = deque /\ \A u \in Worker : Hand(u)' = Hand(u)
  <2>1. RuntimeQuiet(w)
    BY DEF RuntimeQuiet
  <2>. QED  BY <2>1, StaysPut, HandsStay
<1>2. QuietTree
  BY <1>1, NothingWritten
<1>3. /\ idle' = idle /\ made' = made /\ toFree' = toFree /\ on' = on /\ good' = good /\ fr' = fr
      /\ ltq' = ltq /\ cur' = cur /\ pc[w] = "promoted"
  BY DEF ReleaseVictim, fiberVars, runVars, At
<1>4. pc'[w] = "finish" /\ \A u \in Worker \ {w} : pc'[u] = pc[u]
  BY GoesTo DEF ReleaseVictim
<1>5. \A u \in Worker : (Thief(u)' <=> Thief(u)) /\ (Thief(u) => t'[u] = t[u])
  BY <1>1, <1>3, <1>4 DEF Thief
<1>6. \A c \in Closure : Strays(c)' <=> Strays(c)
  <2>. TAKE c \in Closure
  <2>1. BeingStolen(c)' <=> BeingStolen(c)
    BY <1>5, ThiefStays
  <2>. QED  BY <1>1, <1>3, <2>1, StraysStay
<1>7. HomesStay
  BY <1>3 DEF HomesStay
<1>8. WorkerFibers(w)'
  <2>1. WorkerFibers(w)
    BY DEF FiberInv
  <2>2. good[w] = FALSE
    BY <1>3, NotGood
  <2>. QED  BY <1>1, <1>3, <1>4, <1>5, <2>1, <2>2 DEF WorkerFibers, OnFiber
<1>9. \A u \in Worker \ {w} : Idles(u)
  BY <1>1, <1>3, <1>4 DEF Idles
<1>. QED  BY <1>1, <1>2, <1>3, <1>6, <1>7, <1>8, <1>9, StepKeeps
(* The thief of a frame that had a closure marks it: it strays, as before.    *)
LEMMA FinishFullFibers ==
  ASSUME FInv, FiberInv, PosInv', NEW w \in Worker, NEW y \in Closure, FinishPromote(w, y), fr[cl[y].frame].stolen
  PROVE  FiberInv'
<1>1. QuietTree /\ y = Hand(w) /\ (\A v \in Worker : Hand(v)' = Hand(v)) /\ t' = t /\ deque' = deque
  BY WriteQuiet
<1>2. /\ idle' = idle /\ made' = made /\ toFree' = toFree /\ on' = on /\ good' = good /\ ltq' = ltq /\ cur' = cur
      /\ pc[w] = "finish" /\ t[w] = y /\ fr' = [fr EXCEPT ![cl[y].frame].unsynced = TRUE]
  BY DEF FinishPromote, FinishFullFrame, fiberVars, At
<1>3. pc'[w] = "do" /\ \A v \in Worker \ {w} : pc'[v] = pc[v]
  BY GoesTo DEF FinishPromote
<1>4. cl[y].frame \in Frame /\ fr \in [Frame -> FrameRecord]
  BY <1>2, ThiefParked, FParts DEF Typed, TypedRun
<1>5. /\ \A h \in Frame : fr'[h].home = fr[h].home /\ fr'[h].stolen = fr[h].stolen /\ fr'[h].sp = fr[h].sp
      /\ fr'[cl[y].frame].unsynced /\ \A h \in Frame \ {cl[y].frame} : fr'[h].unsynced = fr[h].unsynced
  BY <1>2, <1>4 DEF FrameRecord
<1>6. HomesStay
  BY <1>5 DEF HomesStay
<1>7. \A v \in Worker \ {w} : Idles(v)
  BY <1>1, <1>2, <1>3 DEF Idles
<1>8. \A c \in Closure : Strays(c)' <=> Strays(c)
  <2>. TAKE c \in Closure
  <2>1. cl'[c].frame = cl[c].frame
    BY <1>1 DEF QuietTree, SameSites
  <2>2. CASE c = y
    <3>1. BeingStolen(y)
      BY <1>2 DEF BeingStolen
    <3>. QED  BY <1>4, <1>5, <2>1, <2>2, <3>1 DEF Strays
  <2>3. CASE c # y
    <3>1. BeingStolen(c)' <=> BeingStolen(c)
      BY <1>1, <1>2, <1>3, <2>3 DEF BeingStolen
    <3>2. cl[c].frame # NULL => cl[c].frame \in Frame /\ cl[c].frame # cl[y].frame
      <4>1. OneClosure
        BY DEF FInv
      <4>. QED  BY <2>3, <4>1, ClosureEntered DEF OneClosure
    <3>. QED  BY <1>5, <2>1, <3>1, <3>2 DEF Strays
  <2>. QED  BY <2>2, <2>3
<1>9. WorkerFibers(w)'
  <2>1. good'[w] = FALSE
    BY <1>2, NotGood
  <2>. QED  BY <1>3, <2>1, RuntimeFibers DEF Thief, OnFiber
<1>10. \A h \in Frame : \A v \in Worker \ {w} :
         fr'[h].sp = fr[h].sp \/ (h \notin Held(v) /\ (good[v] => cl[t[v]].frame # h))
  BY <1>5
<1>. QED  BY <1>1, <1>2, <1>6, <1>7, <1>8, <1>9, <1>10, StepKeeps

(* A closure runs, on its fiber: its frame goes on, at its sync or behind its *)
(* last spawn.                                                                *)
LEMMA PushFibers ==
  ASSUME FInv, FiberInv, PosInv', NEW w \in Worker, NEW c \in Closure, PushAndRun(w, c)
  PROVE  FiberInv'
<1>1. cl' = cl /\ \A v \in Worker : Hand(v)' = Hand(v)
  BY HandMoves DEF HandQuiet
<1>2. QuietTree
  BY <1>1, NothingWritten
<1>3. /\ idle' = idle /\ made' = made /\ toFree' = toFree /\ ltq' = ltq /\ cur' = cur /\ pc[w] = "push" /\ t[w] = c
  BY DEF PushAndRun, fiberVars, At
<1>4. pc'[w] = "user" /\ \A v \in Worker \ {w} : pc'[v] = pc[v]
  BY GoesTo DEF PushAndRun
<1>5. \A v \in Worker \ {w} : t'[v] = t[v] /\ deque'[v] = deque[v] /\ good'[v] = good[v] /\ on'[v] = on[v]
  <2>1. \A v \in Worker \ {w} : t'[v] = t[v] /\ deque'[v] = deque[v] /\ good'[v] = good[v]
    BY FParts DEF PushAndRun, Typed, TypedRuntime
  <2>2. on \in [Worker -> Ref]
    BY FParts DEF Typed, TypedRun
  <2>3. \A v \in Worker \ {w} : on'[v] = on[v]
    BY <2>2 DEF PushAndRun
  <2>. QED  BY <2>1, <2>3
<1>6. good'[w] = FALSE
  BY FParts DEF PushAndRun, Typed, TypedRuntime
<1>7. /\ cl[c].frame \in Frame /\ fr[cl[c].frame].stolen /\ Hand(w) = c /\ cur[w] = cl[c].frame /\ ltq[w] = <<>>
      /\ \A v \in Worker \ {w} : cl[c].frame \notin Held(v) /\ (good[v] => cl[t[v]].frame # cl[c].frame)
  <2>1. StageInv(w) /\ ChainInv(w)
    BY FParts
  <2>. QED  BY <1>3, <2>1, PushedApart DEF StageInv, ChainInv
<1>8. on'[w] = cl[c].fiber
  <2>1. on \in [Worker -> Ref]
    BY FParts DEF Typed, TypedRun
  <2>2. CASE good[w]
    <3>1. fr[cl[c].frame].sp = cl[c].fiber
      BY <1>3, <2>2 DEF FiberInv, WorkerFibers
    <3>. QED  BY <2>1, <2>2, <3>1 DEF PushAndRun
  <2>3. CASE ~good[w]
    BY <2>1, <2>3 DEF PushAndRun
  <2>. QED  BY <2>2, <2>3
<1>9. /\ \A h \in Frame : fr'[h].home = fr[h].home /\ fr'[h].stolen = fr[h].stolen /\ fr'[h].unsynced = fr[h].unsynced
      /\ \A h \in Frame \ {cl[c].frame} : fr'[h].sp = fr[h].sp
  <2>1. fr \in [Frame -> FrameRecord]
    BY FParts DEF Typed, TypedRun
  <2>2. \/ fr' = [fr EXCEPT ![cl[c].frame].at = @ + 1]
        \/ fr' = [fr EXCEPT ![cl[c].frame].sp = cl[c].fiber]
    BY DEF PushAndRun
  <2>. QED  BY <2>1, <2>2 DEF FrameRecord
<1>10. HomesStay
  BY <1>9 DEF HomesStay
<1>11. \A v \in Worker : (Thief(v)' <=> Thief(v)) /\ (Thief(v) => t'[v] = t[v])
  BY <1>3, <1>4, <1>5 DEF Thief
<1>12. \A d \in Closure : Strays(d)' <=> Strays(d)
  <2>. TAKE d \in Closure
  <2>1. BeingStolen(d)' <=> BeingStolen(d)
    BY <1>11, ThiefStays
  <2>2. cl'[d].frame = cl[d].frame /\ (cl[d].frame # NULL => (fr'[cl[d].frame].unsynced <=> fr[cl[d].frame].unsynced))
    BY <1>1, <1>9, ClosureEntered
  <2>. QED  BY <2>1, <2>2, StraysStay
<1>13. WorkerFibers(w)'
  <2>1. Tips(w)' = <<cl[c].frame>>
    <3>1. Tips(w)' = Append(ltq'[w], cur'[w])
      BY <1>4 DEF Tips
    <3>. QED  BY <1>3, <1>7, <3>1, OneEntry
  <2>2. Held(w)' = {cl[c].frame}
    BY <1>7, <2>1, OneTip
  <2>3. HomesIn(fr', cl[c].fiber, cl[c].frame)
    BY <1>7, <1>9, HomesTop
  <2>4. Range(ltq'[w]) = {}
    BY <1>3, <1>7, EmptyRange, FParts DEF Typed, TypedRun
  <2>5. Hand(w)' = c /\ cl'[c].fiber = cl[c].fiber
    BY <1>1, <1>7
  <2>. QED  BY <1>4, <1>6, <1>8, <2>2, <2>3, <2>4, <2>5 DEF WorkerFibers, Thief
<1>14. \A v \in Worker \ {w} : Idles(v) /\ Hand(v)' = Hand(v) /\ on'[v] = on[v]
  BY <1>1, <1>3, <1>4, <1>5 DEF Idles
<1>15. \A h \in Frame : \A v \in Worker \ {w} :
         fr'[h].sp = fr[h].sp \/ (h \notin Held(v) /\ (good[v] => cl[t[v]].frame # h))
  BY <1>7, <1>9
<1>. QED  BY <1>2, <1>3, <1>10, <1>12, <1>13, <1>14, <1>15, StepKeeps
(* A sync: what it leaves alone.                                              *)
LEMMA SyncLeaves ==
  ASSUME FInv, FiberInv, NEW w \in Worker, NEW c \in Closure, SyncNotReady(w, c) \/ SyncReady(w, c)
  PROVE  /\ \A h \in Frame : fr'[h].home = fr[h].home /\ fr'[h].stolen = fr[h].stolen
         /\ \A h \in Frame \ {cur[w]} : fr'[h] = fr[h]
         /\ (\A v \in Worker \ {w} : Idles(v) /\ on'[v] = on[v] /\ toFree'[v] = toFree[v])
         /\ \A d \in Closure : BeingStolen(d)' <=> BeingStolen(d)
         /\ ~Thief(w)' /\ good'[w] = FALSE
         /\ Live(c) /\ ~cl[c].has_cilk_callee /\ cl[c].status # "SUSPENDED" /\ FiberPart(c) /\ Strays(c)
         /\ cl[c].fiber \in Fiber /\ ~BeingStolen(c)
         /\ \A d \in Closure : Live(d) /\ cl[d].call_parent # NULL => cl[d].call_parent \in Closure \ {c}
<1>1. /\ pc[w] = "sync" /\ c = Hand(w) /\ cl[c].frame = cur[w] /\ cur[w] \in Frame /\ fr[cur[w]].unsynced
      /\ good[w] = FALSE /\ ~cl[c].has_cilk_callee
  <2>1. pc[w] = "sync" /\ c = Hand(w) /\ cl[c].frame = cur[w] /\ cur[w] \in Frame /\ fr[cur[w]].unsynced
    BY SyncFrame
  <2>2. good[w] = FALSE
    BY <2>1, NotGood
  <2>. QED  BY <2>1, <2>2, UserCover
<1>2. fr \in [Frame -> FrameRecord]
  BY FParts DEF Typed, TypedRun
<1>3. /\ \A h \in Frame : fr'[h].home = fr[h].home /\ fr'[h].stolen = fr[h].stolen
      /\ \A h \in Frame \ {cur[w]} : fr'[h] = fr[h]
  <2>1. CASE SyncNotReady(w, c)
    <3>1. fr' = [fr EXCEPT ![cur[w]].worker = NULL]
      BY <1>1, <2>1 DEF SyncNotReady
    <3>. QED  BY <1>1, <1>2, <3>1 DEF FrameRecord
  <2>2. CASE SyncReady(w, c)
    <3>1. fr' = [fr EXCEPT ![cur[w]] = [SyncedFrame(w, cl[c]) EXCEPT !.at = @ + 1]]
      BY <1>1, <2>2 DEF SyncReady
    <3>2. fr[cur[w]] \in FrameRecord /\ SyncedFrame(w, cl[c]) = [fr[cur[w]] EXCEPT !.unsynced = FALSE, !.sp = cl[c].orig_rsp, !.worker = w]
      BY <1>1, <1>2 DEF SyncedFrame
    <3>3. LET q == [SyncedFrame(w, cl[c]) EXCEPT !.at = @ + 1]
          IN q.home = fr[cur[w]].home /\ q.stolen = fr[cur[w]].stolen
      BY <3>2 DEF FrameRecord
    <3>. QED  BY <1>1, <1>2, <3>1, <3>3
  <2>. QED  BY <2>1, <2>2
<1>4. /\ t' = t /\ ltq' = ltq /\ cur' = cur /\ good' = good /\ (Goto(w, "back") \/ Goto(w, "user"))
      /\ toFree' = [toFree EXCEPT ![w] = cl[c].fiber]
      /\ (deque' = deque \/ deque' = [deque EXCEPT ![w] = Front(@)])
      /\ (on' = on \/ on' = [on EXCEPT ![w] = cl[c].orig_rsp])
  BY DEF SyncNotReady, SyncReady
<1>5. pc'[w] \in {"back", "user"} /\ \A v \in Worker \ {w} : pc'[v] = pc[v]
  BY <1>4, GoesTo
<1>6. \A v \in Worker \ {w} : toFree'[v] = toFree[v] /\ on'[v] = on[v] /\ deque'[v] = deque[v]
  <2>1. toFree \in [Worker -> Ref] /\ on \in [Worker -> Ref] /\ deque \in [Worker -> Deques]
    BY FParts DEF Typed, TypedRun, TypedRuntime
  <2>. QED  BY <1>4, <2>1
<1>7. \A v \in Worker \ {w} : Idles(v)
  BY <1>4, <1>5, <1>6 DEF Idles
<1>8. (\A v \in Worker : Thief(v)' <=> Thief(v)) /\ (\A v \in Worker : Thief(v) => t'[v] = t[v])
  BY <1>1, <1>4, <1>5 DEF Thief
<1>9. \A d \in Closure : BeingStolen(d)' <=> BeingStolen(d)
  BY <1>8, ThiefStays
<1>10. cl[c].status # "SUSPENDED" /\ Live(c)
  <2>1. OneHand /\ NULL \notin Closure
    BY FParts DEF IInv
  <2>. QED  BY <1>1, <2>1 DEF OneHand, Live
<1>11. FiberPart(c) /\ Strays(c) /\ FiberTyped
  BY <1>1, Kinds DEF FiberInv, Strays
<1>12. cl[c].fiber \in Fiber
  BY <1>10, <1>11 DEF FiberPart, FiberTyped
<1>13. ~BeingStolen(c)
  <2>1. OneHand
    BY FParts DEF IInv
  <2>2. ASSUME NEW v \in Worker, Thief(v), t[v] = c
        PROVE  FALSE
    <3>1. Hand(v) = c /\ Hand(v) # NULL
      BY <2>2, ThiefParked, FParts DEF Thief
    <3>. QED  BY <1>1, <2>1, <2>2, <3>1 DEF OneHand, Thief
  <2>. QED  BY <2>2 DEF BeingStolen, Thief
<1>14. ASSUME NEW d \in Closure, Live(d), cl[d].call_parent # NULL
       PROVE  cl[d].call_parent \in Closure \ {c}
  <2>1. CallInv /\ TypedTree
    BY FParts DEF IInv
  <2>. QED  BY <1>1, <1>14, <2>1 DEF CallInv, TypedTree
<1>. QED  BY <1>1, <1>3, <1>4, <1>5, <1>6, <1>7, <1>8, <1>9, <1>10, <1>11, <1>12, <1>13, <1>14 DEF Thief

LEMMA SyncOthers ==
  ASSUME FInv, FiberInv, NEW w \in Worker, NEW c \in Closure, SyncNotReady(w, c) \/ SyncReady(w, c)
  PROVE  /\ \A d \in Closure \ {c} : FiberPart(d)'
         /\ \A v \in Worker \ {w} : WorkerFibers(v)'
<1>1. /\ Closure' = Closure /\ \A d \in Closure \ {c} : cl'[d] = cl[d]
      /\ \A d \in Closure : /\ cl'[d].call_parent = cl[d].call_parent /\ cl'[d].frame = cl[d].frame
                            /\ cl'[d].has_cilk_callee = cl[d].has_cilk_callee /\ (Live(d)' <=> Live(d))
      /\ (\A p : Kids(p)' = Kids(p)) /\ c = Hand(w) /\ \A v \in Worker \ {w} : Hand(v)' = Hand(v)
  BY SyncTree
<1>2. cl[c].frame = cur[w] /\ cur[w] \in Held(w) /\ cur[w] \in Frame
  BY SyncFrame
<1>3. /\ \A h \in Frame : fr'[h].home = fr[h].home /\ fr'[h].stolen = fr[h].stolen
      /\ \A h \in Frame \ {cur[w]} : fr'[h] = fr[h]
      /\ \A v \in Worker \ {w} : Idles(v) /\ on'[v] = on[v]
      /\ \A d \in Closure : BeingStolen(d)' <=> BeingStolen(d)
      /\ ~cl[c].has_cilk_callee
      /\ \A d \in Closure : Live(d) /\ cl[d].call_parent # NULL => cl[d].call_parent \in Closure \ {c}
  BY SyncLeaves
<1>4. HomesStay /\ \A d \in Closure : cl[d].frame # NULL => Home(d)' = Home(d)
  <2>1. HomesStay
    BY <1>3 DEF HomesStay
  <2>. QED  BY <1>1, <2>1, ClosureEntered DEF Home
<1>5. \A k \in Closure : \A x : Ends(k, x)' <=> Ends(k, x)
  <2>. TAKE k \in Closure
  <2>. TAKE x
  <2>1. CASE cl[k].frame = NULL
    <3>1. k # c /\ cl'[k] = cl[k]
      BY <1>1, <1>2, <2>1, Kinds
    <3>. QED  BY <2>1, <3>1 DEF Ends
  <2>2. CASE cl[k].frame # NULL
    BY <1>1, <1>4, <2>2 DEF Ends
  <2>. QED  BY <2>1, <2>2
<1>6. ASSUME NEW d \in Closure \ {c}
      PROVE  FiberPart(d)'
  <2>1. FiberPart(d) /\ d \in Closure /\ cl'[d] = cl[d]
    BY <1>1 DEF FiberInv
  <2>2. Strays(d)' <=> Strays(d)
    <3>1. cl[d].frame # NULL => cl[d].frame \in Frame \ {cur[w]}
      <4>1. OneClosure
        BY DEF FInv
      <4>. QED  BY <1>2, <4>1, ClosureEntered DEF OneClosure
    <3>. QED  BY <1>3, <2>1, <3>1, StraysStay
  <2>3. Live(d)' /\ cl[d].call_parent # NULL => cl'[cl[d].call_parent].fiber = cl[cl[d].call_parent].fiber
    BY <1>1, <1>3
  <2>4. Kids(d)' = Kids(d) /\ \A k \in Kids(d) : \A x : Ends(k, x) => Ends(k, x)'
    BY <1>1, <1>5 DEF Kids
  <2>5. Live(d)' => Live(d)
    BY <1>1
  <2>. QED  BY <1>4, <2>1, <2>2, <2>3, <2>4, <2>5, FiberStays
<1>7. ASSUME NEW v \in Worker \ {w}
      PROVE  WorkerFibers(v)'
  <2>1. WorkerFibers(v) /\ Idles(v) /\ on'[v] = on[v] /\ Hand(v)' = Hand(v)
    BY <1>1, <1>3 DEF FiberInv
  <2>2. Hand(v) # NULL => Hand(v) \in Closure /\ Hand(v) # c
    <3>1. OneHand /\ IInv /\ NULL \notin Closure
      BY FParts DEF IInv
    <3>2. Hand(v) # NULL => Hand(v) \in Closure
      BY <3>1, HandIs
    <3>. QED  BY <1>1, <3>1, <3>2 DEF OneHand
  <2>3. \A d \in Closure : cl'[d].fiber = cl[d].fiber \/ (~cl[d].has_cilk_callee /\ Hand(v) # d)
    BY <1>1, <1>3, <2>2, FParts
  <2>4. Hand(v) # NULL => /\ cl'[Hand(v)].frame = cl[Hand(v)].frame
                          /\ cl'[Hand(v)].call_parent = cl[Hand(v)].call_parent
    BY <1>1, <2>2
  <2>5. \A h \in Frame : fr'[h].sp = fr[h].sp \/ (h \notin Held(v) /\ (good[v] => cl[t[v]].frame # h))
    BY <1>2, <1>3, HeldApart
  <2>. QED  BY <1>4, <2>1, <2>3, <2>4, <2>5, OthersFibers
<1>. QED  BY <1>6, <1>7
(* The fiber it ran on is the worker's to free, and one left before is freed; *)
(* a sync that succeeds goes on with the one kept for it.                     *)
LEMMA SyncOwners ==
  ASSUME FInv, FiberInv, NEW w \in Worker, NEW c \in Closure, SyncNotReady(w, c) \/ SyncReady(w, c)
  PROVE  FiberTyped' /\ OwnInv'
<1>1. /\ Closure' = Closure /\ \A d \in Closure \ {c} : cl'[d] = cl[d]
      /\ cl'[c] = IF Closure_has_children(c) THEN [cl[c] EXCEPT !.status = "SUSPENDED", !.fiber = NULL]
                                             ELSE SetupForSync(cl[c])
      /\ \A d \in Closure : cl'[d].has_cilk_callee = cl[d].has_cilk_callee /\ (Live(d)' <=> Live(d))
  BY SyncTree
<1>2. PICK ready \in BOOLEAN : ready <=> ~Closure_has_children(c)
  OBVIOUS
<1>3. /\ cl'[c].fiber = IF ready THEN cl[c].fiber_child ELSE NULL
      /\ cl'[c].fiber_child = IF ready THEN NULL ELSE cl[c].fiber_child
  <2>1. cl[c] \in ClosureRecord
    BY FParts, TreeIsSeq
  <2>. QED  BY <1>1, <1>2, <2>1 DEF SetupForSync, ClosureRecord
<1>4. /\ made' = made /\ idle' = idle \union Free({toFree[w]})
      /\ toFree' = [toFree EXCEPT ![w] = cl[c].fiber]
  BY DEF SyncNotReady, SyncReady, LeftFiber
<1>5. toFree \in [Worker -> Ref] /\ NULL \notin Fiber /\ NULL \notin Closure
  BY FParts, WorkerAssumption DEF Typed, TypedRun, TypedRuntime, Fiber
<1>6. /\ toFree'[w] = cl[c].fiber /\ \A v \in Worker \ {w} : toFree'[v] = toFree[v]
  BY <1>4, <1>5
<1>7. FiberTyped /\ OwnInv /\ cl[c].fiber \in Fiber /\ Live(c) /\ ~cl[c].has_cilk_callee
  BY SyncLeaves DEF FiberInv
<1>8. FiberTyped'
  <2>1. idle' \subseteq Fiber
    BY <1>4, <1>7 DEF FiberTyped, Free
  <2>2. \A v \in Worker : toFree'[v] \in Fiber \union {NULL}
    BY <1>6, <1>7 DEF FiberTyped
  <2>3. Fiber' = Fiber
    BY <1>4 DEF Fiber
  <2>4. \A d \in Closure : cl'[d].fiber \in Fiber \union {NULL} /\ cl'[d].fiber_child \in Fiber \union {NULL}
    BY <1>1, <1>3, <1>7 DEF FiberTyped
  <2>. QED  BY <1>1, <2>1, <2>2, <2>3, <2>4 DEF FiberTyped
<1>9. \A x \in Fiber : x \in idle' <=> x \in idle \/ x = toFree[w]
  BY <1>4, <1>5 DEF Free
<1>10. ASSUME NEW x \in Fiber, x # toFree[w], x # cl[c].fiber, ready => x # cl[c].fiber_child, NEW k, NEW i
       PROVE  Owns(k, i, x)' <=> Owns(k, i, x)
  <2>1. \A v \in Worker : toFree'[v] = x <=> toFree[v] = x
    BY <1>6, <1>10
  <2>2. \A d \in Closure : /\ cl'[d].fiber_child = x <=> cl[d].fiber_child = x
                           /\ cl'[d].fiber = x <=> cl[d].fiber = x
    BY <1>1, <1>3, <1>5, <1>10
  <2>. QED  BY <1>1, <1>9, <1>10, <2>1, <2>2, OwnsNext DEF Owns
<1>11. ASSUME NEW x \in Fiber, x = toFree[w]
       PROVE  \A l, j : Owns(l, j, x)' <=> l = "pool" /\ j = x
  <2>1. \A l, j : Owns(l, j, x) <=> l = "free" /\ j = w
    <3>1. Owns("free", w, x)
      BY <1>11 DEF Owns
    <3>. QED  BY <1>7, <3>1, OwnerIs
  <2>2. cl[c].fiber # x /\ cl[c].fiber_child # x
    BY <1>7, <2>1 DEF Owns
  <2>3. \A v \in Worker : toFree'[v] # x
    BY <1>6, <2>1, <2>2 DEF Owns
  <2>4. \A d \in Closure : cl'[d].fiber_child # x /\ ~(cl'[d].fiber = x /\ Live(d) /\ ~cl[d].has_cilk_callee)
    <3>1. \A d \in Closure : cl[d].fiber_child # x /\ ~(cl[d].fiber = x /\ Live(d) /\ ~cl[d].has_cilk_callee)
      BY <2>1 DEF Owns
    <3>2. cl'[c].fiber # x /\ cl'[c].fiber_child # x
      BY <1>3, <1>5, <2>2
    <3>. QED  BY <1>1, <3>1, <3>2
  <2>5. ASSUME NEW l, NEW j  PROVE Owns(l, j, x)' <=> l = "pool" /\ j = x
    <3>1. Owns(l, j, x)' <=>
            \/ l = "pool" /\ j = x /\ x \in idle'
            \/ l = "free" /\ j \in Worker /\ toFree'[j] = x
            \/ l = "sync" /\ j \in Closure' /\ cl'[j].fiber_child = x
            \/ l = "run" /\ j \in Closure' /\ cl'[j].fiber = x /\ Live(j)' /\ ~cl'[j].has_cilk_callee
      BY OwnsNext
    <3>2. \A d \in Closure' : cl'[d].fiber_child # x /\ ~(cl'[d].fiber = x /\ Live(d)' /\ ~cl'[d].has_cilk_callee)
      BY <1>1, <2>4
    <3>. QED  BY <1>9, <1>11, <2>3, <3>1, <3>2
  <2>. QED  BY <2>5
<1>12. ASSUME NEW x \in Fiber, x = cl[c].fiber
       PROVE  \A l, j : Owns(l, j, x)' <=> l = "free" /\ j = w
  <2>1. \A l, j : Owns(l, j, x) <=> l = "run" /\ j = c
    <3>1. Owns("run", c, x)
      BY <1>7, <1>12 DEF Owns
    <3>. QED  BY <1>7, <3>1, OwnerIs
  <2>2. toFree[w] # x /\ x \notin idle /\ cl[c].fiber_child # x
    BY <2>1 DEF Owns
  <2>3. \A v \in Worker : toFree'[v] = x <=> v = w
    BY <1>6, <1>12, <2>1 DEF Owns
  <2>4. \A d \in Closure : cl'[d].fiber_child # x /\ ~(cl'[d].fiber = x /\ Live(d) /\ ~cl[d].has_cilk_callee)
    <3>1. \A d \in Closure \ {c} : cl[d].fiber_child # x /\ ~(cl[d].fiber = x /\ Live(d) /\ ~cl[d].has_cilk_callee)
      BY <2>1 DEF Owns
    <3>2. cl'[c].fiber # x /\ cl'[c].fiber_child # x
      <4>1. ready => x # cl[c].fiber_child
        BY <2>2
      <4>. QED  BY <1>3, <1>5, <2>2, <4>1
    <3>. QED  BY <1>1, <3>1, <3>2
  <2>5. ASSUME NEW l, NEW j  PROVE Owns(l, j, x)' <=> l = "free" /\ j = w
    <3>1. Owns(l, j, x)' <=>
            \/ l = "pool" /\ j = x /\ x \in idle'
            \/ l = "free" /\ j \in Worker /\ toFree'[j] = x
            \/ l = "sync" /\ j \in Closure' /\ cl'[j].fiber_child = x
            \/ l = "run" /\ j \in Closure' /\ cl'[j].fiber = x /\ Live(j)' /\ ~cl'[j].has_cilk_callee
      BY OwnsNext
    <3>2. \A d \in Closure' : cl'[d].fiber_child # x /\ ~(cl'[d].fiber = x /\ Live(d)' /\ ~cl'[d].has_cilk_callee)
      BY <1>1, <2>4
    <3>. QED  BY <1>9, <2>2, <2>3, <3>1, <3>2
  <2>. QED  BY <2>5
<1>13. ASSUME NEW x \in Fiber, ready, x = cl[c].fiber_child
       PROVE  \A l, j : Owns(l, j, x)' <=> l = "run" /\ j = c
  <2>1. \A l, j : Owns(l, j, x) <=> l = "sync" /\ j = c
    <3>1. Owns("sync", c, x)
      BY <1>13 DEF Owns
    <3>. QED  BY <1>7, <3>1, OwnerIs
  <2>2. toFree[w] # x /\ x \notin idle /\ cl[c].fiber # x
    BY <1>7, <2>1 DEF Owns
  <2>3. \A v \in Worker : toFree'[v] # x
    BY <1>6, <2>1, <2>2 DEF Owns
  <2>4. \A d \in Closure : cl'[d].fiber_child # x /\ (cl'[d].fiber = x /\ Live(d) /\ ~cl[d].has_cilk_callee <=> d = c)
    BY <1>1, <1>3, <1>5, <1>7, <1>13, <2>1 DEF Owns
  <2>. QED  BY <1>1, <1>9, <1>13, <2>2, <2>3, <2>4, OwnsNext
<1>14. \A x \in Fiber' : \/ x \in Fiber /\ \A k, i : Owns(k, i, x)' <=> Owns(k, i, x)
                         \/ \E k, i : \A l, j : Owns(l, j, x)' <=> l = k /\ j = i
  <2>1. Fiber' = Fiber
    BY <1>4 DEF Fiber
  <2>2. ASSUME NEW x \in Fiber
        PROVE  \/ \A k, i : Owns(k, i, x)' <=> Owns(k, i, x)
               \/ \E k, i : \A l, j : Owns(l, j, x)' <=> l = k /\ j = i
    <3>1. CASE x = toFree[w]
      BY <1>11, <3>1
    <3>2. CASE x = cl[c].fiber
      BY <1>12, <3>2
    <3>3. CASE ready /\ x = cl[c].fiber_child
      BY <1>13, <3>3
    <3>4. CASE x # toFree[w] /\ x # cl[c].fiber /\ (ready => x # cl[c].fiber_child)
      BY <1>10, <3>4
    <3>. QED  BY <3>1, <3>2, <3>3, <3>4
  <2>. QED  BY <2>1, <2>2
<1>. QED  BY <1>7, <1>8, <1>14, OwnMoves

LEMMA SyncNotReadyFibers ==
  ASSUME FInv, FiberInv, PosInv', NEW w \in Worker, NEW c \in Closure, SyncNotReady(w, c)
  PROVE  FiberInv'
<1>1. /\ Closure' = Closure /\ cl[c] \in ClosureRecord /\ \A d \in Closure \ {c} : cl'[d] = cl[d]
      /\ cl'[c] = [cl[c] EXCEPT !.status = "SUSPENDED", !.fiber = NULL]
      /\ \A d \in Closure : /\ cl'[d].call_parent = cl[d].call_parent /\ cl'[d].frame = cl[d].frame
                            /\ cl'[d].has_cilk_callee = cl[d].has_cilk_callee /\ (Live(d)' <=> Live(d))
      /\ \A p : Kids(p)' = Kids(p)
  <2>1. Closure_has_children(c) /\ cl[c] \in ClosureRecord
    BY FParts, TreeIsSeq DEF SyncNotReady
  <2>. QED  BY <2>1, SyncTree
<1>2. cl[c].frame = cur[w] /\ cur[w] \in Frame /\ fr[cur[w]].unsynced
  BY SyncFrame
<1>3. /\ \A h \in Frame : fr'[h].home = fr[h].home /\ fr'[h].stolen = fr[h].stolen
      /\ \A d \in Closure : BeingStolen(d)' <=> BeingStolen(d)
      /\ ~Thief(w)' /\ good'[w] = FALSE /\ FiberPart(c) /\ Strays(c) /\ Live(c) /\ ~cl[c].has_cilk_callee
      /\ \A d \in Closure : Live(d) /\ cl[d].call_parent # NULL => cl[d].call_parent \in Closure \ {c}
  BY SyncLeaves
<1>4. fr'[cur[w]].unsynced
  <2>1. fr \in [Frame -> FrameRecord]
    BY FParts DEF Typed, TypedRun
  <2>2. fr' = [fr EXCEPT ![cur[w]].worker = NULL]
    BY <1>2 DEF SyncNotReady
  <2>. QED  BY <1>2, <2>1, <2>2 DEF FrameRecord
<1>5. Strays(c)' /\ Home(c)' = Home(c)
  BY <1>1, <1>2, <1>3, <1>4, Kinds DEF Strays, Home
<1>6. \A k \in Closure : \A x : Ends(k, x) => Ends(k, x)'
  <2>. TAKE k \in Closure
  <2>. TAKE x
  <2>. HAVE Ends(k, x)
  <2>1. CASE cl[k].frame = NULL
    <3>1. k # c /\ cl'[k] = cl[k]
      BY <1>1, <1>2, <2>1, Kinds
    <3>. QED  BY <2>1, <3>1 DEF Ends
  <2>2. CASE cl[k].frame # NULL
    <3>1. cl[k].frame \in Frame
      BY <2>2, ClosureEntered
    <3>. QED  BY <1>1, <1>3, <2>2, <3>1 DEF Ends, Home
  <2>. QED  BY <2>1, <2>2
<1>7. /\ cl'[c].fiber = NULL /\ cl'[c].status = "SUSPENDED" /\ cl'[c].orig_rsp = cl[c].orig_rsp
      /\ cl'[c].fiber_child = cl[c].fiber_child
  BY <1>1 DEF ClosureRecord
<1>8. FiberPart(c)'
  <2>1. FiberPart(c)' <=>
          /\ Live(c)' => (cl'[c].fiber = NULL <=> cl'[c].status = "SUSPENDED" /\ ~cl'[c].has_cilk_callee)
          /\ cl'[c].orig_rsp # NULL <=> Strays(c)'
          /\ Strays(c)' => cl'[c].orig_rsp = Home(c)'
          /\ cl'[c].fiber_child # NULL => Strays(c)' /\ cl'[c].fiber_child = Home(c)'
          /\ Strays(c)' /\ cl'[c].fiber_child = NULL =>
               \E k \in Kids(c)' : (\A d \in Kids(c)' : k <= d) /\ Ends(k, Home(c))'
          /\ Live(c)' /\ cl'[c].frame # NULL /\ ~Strays(c)' => cl'[c].fiber = Home(c)'
          /\ Live(c)' /\ cl'[c].call_parent # NULL => cl'[c].frame # NULL /\ cl'[cl'[c].call_parent].fiber = Home(c)'
    BY DEF FiberPart
  <2>2. Kids(c) \subseteq Closure
    BY DEF Kids
  <2>3. cl[c].fiber_child = NULL => \E k \in Kids(c)' : (\A d \in Kids(c)' : k <= d) /\ Ends(k, Home(c))'
    <3>. HAVE cl[c].fiber_child = NULL
    <3>1. PICK k \in Kids(c) : (\A d \in Kids(c) : k <= d) /\ Ends(k, Home(c))
      BY <1>3 DEF FiberPart
    <3>2. Ends(k, Home(c))'
      <4>1. \A x : x = Home(c)' => Ends(k, x)'
        BY <1>5, <1>6, <2>2, <3>1
      <4>. QED  BY <4>1 DEF Ends
    <3>. QED  BY <1>1, <3>1, <3>2
  <2>4. cl[c].call_parent # NULL => cl'[c].frame # NULL /\ cl'[cl[c].call_parent].fiber = Home(c)'
    BY <1>1, <1>3, <1>5 DEF FiberPart
  <2>. QED  BY <1>1, <1>3, <1>5, <1>7, <2>1, <2>3, <2>4 DEF FiberPart
<1>9. WorkerFibers(w)'
  <2>1. pc'[w] = "back"
    BY GoesTo DEF SyncNotReady
  <2>. QED  BY <1>3, <2>1, RuntimeFibers DEF OnFiber
<1>10. \A d \in Closure \ {c} : FiberPart(d)'
  BY SyncOthers
<1>11. \A d \in Closure' : FiberPart(d)'
  BY <1>1, <1>8, <1>10
<1>12. \A v \in Worker : WorkerFibers(v)'
  BY <1>9, SyncOthers
<1>. QED  BY <1>11, <1>12, SyncOwners, FiberNext
(* A sync that succeeds goes on on the fiber that its frame was called on.    *)
LEMMA SyncReadyFibers ==
  ASSUME FInv, FiberInv, PosInv', NEW w \in Worker, NEW c \in Closure, SyncReady(w, c)
  PROVE  FiberInv'
<1>1. /\ Closure' = Closure /\ \A d \in Closure \ {c} : cl'[d] = cl[d]
      /\ cl'[c] = SetupForSync(cl[c]) /\ cl[c] \in ClosureRecord
      /\ \A d \in Closure : /\ cl'[d].call_parent = cl[d].call_parent /\ cl'[d].frame = cl[d].frame
                            /\ cl'[d].has_cilk_callee = cl[d].has_cilk_callee
                            /\ Live(d)' <=> Live(d)
  <2>1. ~Closure_has_children(c) /\ cl[c] \in ClosureRecord
    BY FParts, TreeIsSeq DEF SyncReady
  <2>. QED  BY <2>1, SyncTree
<1>2. /\ cl[c].frame = cur[w] /\ cur[w] \in Frame /\ fr[cur[w]].stolen /\ ltq[w] = <<>>
      /\ c = Hand(w) /\ pc[w] = "sync"
  BY SyncFrame
<1>3. /\ \A h \in Frame : fr'[h].home = fr[h].home /\ fr'[h].stolen = fr[h].stolen
      /\ \A d \in Closure : BeingStolen(d)' <=> BeingStolen(d)
      /\ ~Thief(w)' /\ good'[w] = FALSE /\ FiberPart(c) /\ Strays(c) /\ Live(c) /\ ~cl[c].has_cilk_callee
      /\ cl[c].status # "SUSPENDED" /\ ~BeingStolen(c) /\ cl[c].fiber \in Fiber
      /\ \A d \in Closure : Live(d) /\ cl[d].call_parent # NULL => cl[d].call_parent \in Closure \ {c}
  BY SyncLeaves
<1>4. Kids(c) = {}
  BY NoKids DEF SyncReady, Closure_has_children
<1>5. cl[c].fiber_child # NULL /\ cl[c].fiber_child = Home(c) /\ cl[c].orig_rsp = Home(c)
  BY <1>3, <1>4 DEF FiberPart
<1>6. /\ cl'[c].fiber = Home(c) /\ cl'[c].fiber_child = NULL /\ cl'[c].orig_rsp = NULL
      /\ cl'[c].status = cl[c].status
  BY <1>1, <1>5 DEF SetupForSync, ClosureRecord
<1>7. ~fr'[cur[w]].unsynced
  <2>1. fr \in [Frame -> FrameRecord]
    BY FParts DEF Typed, TypedRun
  <2>2. fr' = [fr EXCEPT ![cur[w]] = [SyncedFrame(w, cl[c]) EXCEPT !.at = @ + 1]]
    BY <1>2 DEF SyncReady
  <2>3. SyncedFrame(w, cl[c]) = [fr[cur[w]] EXCEPT !.unsynced = FALSE, !.sp = cl[c].orig_rsp, !.worker = w]
    BY <1>2 DEF SyncedFrame
  <2>4. fr[cur[w]] \in FrameRecord
    BY <1>2, <2>1
  <2>5. ~[SyncedFrame(w, cl[c]) EXCEPT !.at = @ + 1].unsynced
    BY <2>3, <2>4 DEF FrameRecord
  <2>. QED  BY <1>2, <2>1, <2>2, <2>5
<1>8. ~Strays(c)' /\ Home(c)' = Home(c)
  BY <1>1, <1>2, <1>3, <1>7 DEF Strays, Home
<1>9. FiberPart(c)'
  <2>1. FiberPart(c)' <=>
          /\ Live(c)' => (cl'[c].fiber = NULL <=> cl'[c].status = "SUSPENDED" /\ ~cl'[c].has_cilk_callee)
          /\ cl'[c].orig_rsp # NULL <=> Strays(c)'
          /\ Strays(c)' => cl'[c].orig_rsp = Home(c)'
          /\ cl'[c].fiber_child # NULL => Strays(c)' /\ cl'[c].fiber_child = Home(c)'
          /\ Strays(c)' /\ cl'[c].fiber_child = NULL =>
               \E k \in Kids(c)' : (\A d \in Kids(c)' : k <= d) /\ Ends(k, Home(c))'
          /\ Live(c)' /\ cl'[c].frame # NULL /\ ~Strays(c)' => cl'[c].fiber = Home(c)'
          /\ Live(c)' /\ cl'[c].call_parent # NULL => cl'[c].frame # NULL /\ cl'[cl'[c].call_parent].fiber = Home(c)'
    BY DEF FiberPart
  <2>2. Live(c) /\ cl[c].call_parent # NULL => cl'[c].frame # NULL /\ cl'[cl[c].call_parent].fiber = Home(c)'
    BY <1>1, <1>3, <1>8 DEF FiberPart
  <2>3. cl'[c].fiber # NULL
    BY <1>5, <1>6
  <2>. QED  BY <1>1, <1>3, <1>6, <1>8, <2>1, <2>2, <2>3
<1>10. WorkerFibers(w)'
  <2>1. pc'[w] = "user"
    BY GoesTo DEF SyncReady
  <2>2. t' = t /\ deque' = deque /\ ltq' = ltq /\ cur' = cur /\ on' = [on EXCEPT ![w] = cl[c].orig_rsp]
    BY DEF SyncReady
  <2>3. Hand(w)' = c
    BY <1>2, <2>2, HandsStay
  <2>4. on'[w] = cl'[c].fiber
    <3>1. on \in [Worker -> Ref]
      BY FParts DEF Typed, TypedRun
    <3>. QED  BY <1>5, <1>6, <2>2, <3>1
  <2>5. Tips(w)' = <<cur[w]>>
    <3>1. Tips(w)' = Append(ltq'[w], cur'[w])
      BY <2>1 DEF Tips
    <3>. QED  BY <1>2, <2>2, <3>1, OneEntry
  <2>6. Held(w)' = {cur[w]}
    BY <1>2, <2>5, OneTip
  <2>7. HomesIn(fr', cl'[c].fiber, cur[w])
    BY <1>2, <1>3, HomesTop
  <2>8. Range(ltq'[w]) = {}
    BY <1>2, <2>2, EmptyRange, FParts DEF Typed, TypedRun
  <2>. QED  BY <1>3, <2>1, <2>3, <2>4, <2>6, <2>7, <2>8 DEF WorkerFibers, Thief
<1>11. \A d \in Closure' : FiberPart(d)'
  BY <1>1, <1>9, SyncOthers
<1>12. \A v \in Worker : WorkerFibers(v)'
  BY <1>10, SyncOthers
<1>. QED  BY <1>11, <1>12, SyncOwners, FiberNext

(* A closure whose frame has ended strays no more.                            *)
LEMMA EndedStrays ==
  ASSUME FInv, PosInv, NEW w \in Worker, NEW c \in Closure, c = Hand(w), ~Thief(w),
         cl[c].frame = NULL \/ Over(cl[c].frame)
  PROVE  ~Strays(c)
<1>1. NULL \notin Frame /\ NULL \notin Closure /\ OneHand
  BY Kinds, FParts DEF IInv
<1>2. ASSUME cl[c].frame # NULL  PROVE ~fr[cl[c].frame].unsynced
  <2>1. cl[c].frame \in Frame
    BY <1>2, ClosureEntered
  <2>2. fr[cl[c].frame].at >= End(cl[c].frame) /\ fr[cl[c].frame].at \in Nat
    <3>1. fr[cl[c].frame].at = End(cl[c].frame) + 1 /\ End(cl[c].frame) \in Nat
      BY <1>2, <2>1, BodyFacts DEF Over
    <3>. QED  BY <3>1
  <2>3. ~Spawning(cl[c].frame)
    BY <2>1, <2>2, SyncedAtEnd
  <2>. QED  BY <2>1, <2>3 DEF PosInv
<1>3. ASSUME NEW v \in Worker, Thief(v), t[v] = c  PROVE FALSE
  <2>1. Hand(v) = c /\ v # w
    BY <1>3, ThiefParked, FParts DEF Thief
  <2>. QED  BY <1>1, <2>1 DEF OneHand
<1>. QED  BY <1>2, <1>3 DEF Strays, BeingStolen, Thief

(* A called full frame that returns is at home, where its caller goes on:     *)
(* the caller's closure has the fiber back that it lent.                      *)
LEMMA ReturnsHome ==
  ASSUME FInv, FiberInv, NEW w \in Worker, NEW c \in Closure, NEW p \in Closure, SetReturnParent(w, c, p)
  PROVE  /\ cl[c].fiber \in Fiber /\ cl[p].fiber = cl[c].fiber /\ on[w] = cl[c].fiber
         /\ ~cl[c].has_cilk_callee
<1>0. ResumesCaller(w, c, p)
  BY CalledReturns
<1>1. /\ pc[w] = "set_return_parent" /\ c = Hand(w) /\ t[w] = c /\ cl[c].call_parent = p /\ Live(c)
      /\ cl[c].frame \in Called /\ Over(cl[c].frame) /\ cl[c].status # "SUSPENDED"
  BY <1>0 DEF ResumesCaller
<1>2. cl[c].frame # NULL
  BY <1>1, Kinds
<1>3. ~Strays(c)
  BY <1>1, EndedStrays DEF FiberInv, Thief
<1>6. FiberPart(c) /\ FiberTyped /\ WorkerFibers(w)
  BY DEF FiberInv
<1>7. cl[c].fiber \in Fiber
  BY <1>1, <1>6 DEF FiberPart, FiberTyped
<1>8. cl[c].fiber = Home(c) /\ cl[p].fiber = Home(c)
  BY <1>1, <1>2, <1>3, <1>6, FParts DEF FiberPart
<1>9. on[w] = cl[c].fiber
  BY <1>1, <1>6 DEF WorkerFibers, OnFiber
<1>10. ~cl[c].has_cilk_callee
  <2>1. CallInv
    BY FParts DEF IInv
  <2>. QED  BY <1>1, <2>1 DEF CallInv
<1>. QED  BY <1>7, <1>8, <1>9, <1>10

LEMMA ReturnsHomeOwners ==
  ASSUME FInv, FiberInv, NEW w \in Worker, NEW c \in Closure, NEW p \in Closure, SetReturnParent(w, c, p)
  PROVE  FiberTyped' /\ OwnInv'
<1>0. ResumesCaller(w, c, p)
  BY CalledReturns
<1>1. /\ c # p /\ Closure' = Closure /\ \A d \in Closure : SameSites(cl'[d], cl[d])
      /\ \A d \in Closure \ {p} : cl'[d].has_cilk_callee = cl[d].has_cilk_callee
      /\ ~cl'[p].has_cilk_callee /\ cl[p].has_cilk_callee
      /\ ~Live(c)' /\ Live(c) /\ Live(p) /\ \A d \in Closure \ {c} : Live(d)' <=> Live(d)
  BY <1>0 DEF ResumesCaller
<1>2. cl[c].fiber \in Fiber /\ cl[p].fiber = cl[c].fiber /\ ~cl[c].has_cilk_callee
  BY ReturnsHome
<1>3. made' = made /\ idle' = idle /\ toFree' = toFree
  BY DEF SetReturnParent, fiberVars
<1>4. FiberTyped /\ OwnInv
  BY DEF FiberInv
<1>5. \A d \in Closure : cl'[d].fiber = cl[d].fiber /\ cl'[d].fiber_child = cl[d].fiber_child
  BY <1>1 DEF SameSites
<1>6. Fiber' = Fiber
  BY <1>3 DEF Fiber
<1>7. FiberTyped'
  BY <1>1, <1>3, <1>4, <1>5, <1>6 DEF FiberTyped
<1>8. ASSUME NEW x \in Fiber, x # cl[c].fiber, NEW k, NEW i
      PROVE  Owns(k, i, x)' <=> Owns(k, i, x)
  <2>1. \A d \in Closure : cl'[d].fiber = x /\ Live(d)' /\ ~cl'[d].has_cilk_callee
                             <=> cl[d].fiber = x /\ Live(d) /\ ~cl[d].has_cilk_callee
    BY <1>1, <1>2, <1>5, <1>8
  <2>. QED  BY <1>1, <1>3, <1>5, <2>1, OwnsNext DEF Owns
<1>9. ASSUME NEW x \in Fiber, x = cl[c].fiber
      PROVE  \A l, j : Owns(l, j, x)' <=> l = "run" /\ j = p
  <2>1. \A l, j : Owns(l, j, x) <=> l = "run" /\ j = c
    <3>1. Owns("run", c, x)
      BY <1>1, <1>2, <1>9 DEF Owns
    <3>. QED  BY <1>4, <3>1, OwnerIs
  <2>2. x \notin idle /\ (\A v \in Worker : toFree[v] # x) /\ \A d \in Closure : cl[d].fiber_child # x
    BY <2>1 DEF Owns
  <2>3. \A d \in Closure : cl'[d].fiber = x /\ Live(d)' /\ ~cl'[d].has_cilk_callee <=> d = p
    <3>1. \A d \in Closure : cl[d].fiber = x /\ Live(d) /\ ~cl[d].has_cilk_callee <=> d = c
      BY <2>1 DEF Owns
    <3>. QED  BY <1>1, <1>2, <1>5, <1>9, <3>1
  <2>4. ASSUME NEW l, NEW j  PROVE Owns(l, j, x)' <=> l = "run" /\ j = p
    <3>1. Owns(l, j, x)' <=>
            \/ l = "pool" /\ j = x /\ x \in idle'
            \/ l = "free" /\ j \in Worker /\ toFree'[j] = x
            \/ l = "sync" /\ j \in Closure' /\ cl'[j].fiber_child = x
            \/ l = "run" /\ j \in Closure' /\ cl'[j].fiber = x /\ Live(j)' /\ ~cl'[j].has_cilk_callee
      BY OwnsNext
    <3>. QED  BY <1>1, <1>3, <1>5, <2>2, <2>3, <3>1
  <2>. QED  BY <2>4
<1>10. \A x \in Fiber' : \/ x \in Fiber /\ \A k, i : Owns(k, i, x)' <=> Owns(k, i, x)
                         \/ \E k, i : \A l, j : Owns(l, j, x)' <=> l = k /\ j = i
  <2>1. ASSUME NEW x \in Fiber
        PROVE  \/ \A k, i : Owns(k, i, x)' <=> Owns(k, i, x)
               \/ \E k, i : \A l, j : Owns(l, j, x)' <=> l = k /\ j = i
    BY <1>8, <1>9
  <2>. QED  BY <1>6, <2>1
<1>. QED  BY <1>4, <1>7, <1>10, OwnMoves

LEMMA SetReturnFibers ==
  ASSUME FInv, FiberInv, PosInv', NEW w \in Worker, NEW c \in Closure, NEW p \in Closure, SetReturnParent(w, c, p)
  PROVE  FiberInv'
<1>0. ResumesCaller(w, c, p)
  BY CalledReturns
<1>1. /\ pc[w] = "set_return_parent" /\ pc'[w] = "user" /\ \A v \in Worker \ {w} : pc'[v] = pc[v]
      /\ cl[p].frame = cur[w] /\ cur[w] \in Frame /\ fr[cur[w]].stolen
      /\ cl[p].status = "SUSPENDED" /\ cl[p].has_cilk_callee /\ ltq[w] = <<>>
      /\ Closure' = Closure /\ cl'[p].status = "RUNNING" /\ ~cl'[p].has_cilk_callee
      /\ \A d \in Closure : SameSites(cl'[d], cl[d])
      /\ \A d \in Closure \ {p} : cl'[d].status = cl[d].status /\ cl'[d].has_cilk_callee = cl[d].has_cilk_callee
  BY <1>0 DEF ResumesCaller
<1>2. /\ Hand(w)' = p /\ \A v \in Worker \ {w} : Idles(v) /\ Hand(v)' = Hand(v)
      /\ ~Live(c)' /\ Live(p) /\ \A d \in Closure \ {c} : Live(d)' <=> Live(d)
      /\ \A q \in Closure : Kids(q)' = Kids(q)
      /\ \A h \in Frame \ {cur[w]} : fr'[h] = fr[h]
      /\ fr'[cur[w]] = [fr[cur[w]] EXCEPT !.worker = w]
      /\ ltq' = ltq /\ cur' = cur /\ good' = good
  BY <1>0 DEF ResumesCaller
<1>3. cl[p].fiber = cl[c].fiber /\ on[w] = cl[c].fiber
  BY ReturnsHome
<1>4. on' = on
  BY DEF SetReturnParent
<1>5. \A h \in Frame : /\ fr'[h].home = fr[h].home /\ fr'[h].stolen = fr[h].stolen
                       /\ fr'[h].unsynced = fr[h].unsynced /\ fr'[h].sp = fr[h].sp
  <2>1. fr[cur[w]] \in FrameRecord
    BY <1>1, FParts DEF Typed, TypedRun
  <2>. QED  BY <1>1, <1>2, <2>1 DEF FrameRecord
<1>6. HomesStay /\ \A d \in Closure : cl[d].frame # NULL => cl[d].frame \in Frame /\ Home(d)' = Home(d)
  <2>1. HomesStay
    BY <1>5 DEF HomesStay
  <2>. QED  BY <1>1, <2>1, ClosureEntered DEF Home, SameSites
<1>7. \A k \in Closure : \A x : Ends(k, x)' <=> Ends(k, x)
  BY <1>1, <1>6 DEF Ends, SameSites
<1>8. \A d \in Closure : BeingStolen(d)' <=> BeingStolen(d)
  <2>1. \A v \in Worker : (Thief(v)' <=> Thief(v)) /\ (Thief(v) => t'[v] = t[v])
    BY <1>1, <1>2 DEF Thief, Idles
  <2>. QED  BY <2>1, ThiefStays
<1>9. ASSUME NEW d \in Closure
      PROVE  FiberPart(d)'
  <2>1. /\ FiberPart(d) /\ cl'[d].frame = cl[d].frame /\ cl'[d].call_parent = cl[d].call_parent
        /\ cl'[d].fiber = cl[d].fiber /\ cl'[d].fiber_child = cl[d].fiber_child /\ cl'[d].orig_rsp = cl[d].orig_rsp
    BY <1>1 DEF FiberInv, SameSites
  <2>2. Strays(d)' <=> Strays(d)
    BY <1>5, <1>6, <1>8, <2>1, StraysStay
  <2>3. cl[d].call_parent # NULL => cl'[cl[d].call_parent].fiber = cl[cl[d].call_parent].fiber
    BY <1>1, FParts DEF TypedTree, SameSites
  <2>4. Live(d)' => Live(d)
    BY <1>2
  <2>5. cl'[d].status = "SUSPENDED" /\ ~cl'[d].has_cilk_callee <=> cl[d].status = "SUSPENDED" /\ ~cl[d].has_cilk_callee
    BY <1>1
  <2>6. Kids(d)' = Kids(d) /\ \A k \in Kids(d) : \A x : Ends(k, x) => Ends(k, x)'
    BY <1>2, <1>7 DEF Kids
  <2>. QED  BY <1>6, <2>1, <2>2, <2>3, <2>4, <2>5, <2>6, FiberStays
<1>10. WorkerFibers(w)'
  <2>1. on'[w] = cl'[p].fiber
    BY <1>1, <1>3, <1>4 DEF SameSites
  <2>2. Tips(w)' = <<cur[w]>>
    <3>1. Tips(w)' = Append(ltq'[w], cur'[w])
      BY <1>1 DEF Tips
    <3>. QED  BY <1>1, <1>2, <3>1, OneEntry
  <2>3. Held(w)' = {cur[w]}
    BY <1>1, <2>2, OneTip
  <2>4. HomesIn(fr', cl'[p].fiber, cur[w])
    BY <1>1, <1>5, HomesTop
  <2>5. Range(ltq'[w]) = {}
    BY <1>1, <1>2, EmptyRange, FParts DEF Typed, TypedRun
  <2>6. good'[w] = FALSE
    BY <1>1, <1>2, NotGood
  <2>. QED  BY <1>1, <1>2, <2>1, <2>3, <2>4, <2>5, <2>6 DEF WorkerFibers, Thief
<1>11. ASSUME NEW v \in Worker \ {w}
       PROVE  WorkerFibers(v)'
  <2>1. WorkerFibers(v) /\ Idles(v) /\ Hand(v)' = Hand(v) /\ on'[v] = on[v]
    BY <1>2, <1>4 DEF FiberInv
  <2>2. \A d \in Closure : cl'[d].fiber = cl[d].fiber
    BY <1>1 DEF SameSites
  <2>3. Hand(v) # NULL => Hand(v) \in Closure
    BY HandIs, FParts
  <2>4. Hand(v) # NULL => cl'[Hand(v)].frame = cl[Hand(v)].frame /\ cl'[Hand(v)].call_parent = cl[Hand(v)].call_parent
    BY <1>1, <2>3 DEF SameSites
  <2>5. \A h \in Frame : fr'[h].sp = fr[h].sp
    BY <1>5
  <2>. QED  BY <1>6, <2>1, <2>2, <2>4, <2>5, OthersFibers
<1>12. \A d \in Closure' : FiberPart(d)'
  BY <1>1, <1>9
<1>13. \A v \in Worker : WorkerFibers(v)'
  BY <1>10, <1>11
<1>. QED  BY <1>12, <1>13, ReturnsHomeOwners, FiberNext

(* A child is back.  The leftmost ended where its parent syncs; the last one  *)
(* leaves the parent with no fiber but the one to sync on.                    *)
RejoinsHome(c, p) ==
  /\ cl[c].fiber \in Fiber /\ ~cl[c].has_cilk_callee /\ Live(c) /\ ~Strays(c)
  /\ p # c /\ cl[c].spawn_parent = p /\ cl[p].frame \in Frame /\ Strays(p)
  /\ KeepsFiber(c) => cl[c].fiber = Home(p) /\ cl[p].fiber_child = NULL
  /\ ~KeepsFiber(c) /\ cl[p].fiber_child = NULL =>
       \E k \in Kids(p) \ {c} : (\A d \in Kids(p) \ {c} : k <= d) /\ Ends(k, Home(p))
  /\ IsGoodSteal(p) => /\ cl[p].fiber = NULL /\ ~cl[p].has_cilk_callee /\ Live(p)
                       /\ KeepsFiber(c) \/ (cl[p].fiber_child # NULL /\ cl[p].fiber_child = Home(p))
  /\ \A d \in Closure : Live(d) /\ cl[d].call_parent # NULL =>
       cl[d].call_parent \in Closure \ {c} /\ cl[cl[d].call_parent].has_cilk_callee

LEMMA ChildRejoins ==
  ASSUME FInv, SibInv, FiberInv, NEW w \in Worker, NEW c \in Closure, NEW p \in Closure, ReturnParent(w, c, p)
  PROVE  RejoinsHome(c, p)
<1>1. GivesBack(w, c, p)
  BY ChildBack
<1>2. /\ pc[w] = "return" /\ c = t[w] /\ p = cl[c].spawn_parent /\ c = Hand(w) /\ p # c
      /\ cl[c].status = "RETURNING" /\ (cl[c].frame = NULL \/ Over(cl[c].frame)) /\ Live(c) /\ c \in Kids(p)
  BY <1>1 DEF GivesBack
<1>3. /\ CallInv /\ ParentInv /\ TypedTree /\ NULL \notin Closure /\ Closure \subseteq Nat /\ KidsInv /\ CountInv
      /\ FiberTyped /\ \A d \in Closure : FiberPart(d)
  BY FParts DEF IInv, FInv, FiberInv
<1>4. ~Strays(c)
  BY <1>2, EndedStrays DEF FiberInv, Thief
<1>5. ~cl[c].has_cilk_callee
  BY <1>2, <1>3 DEF CallInv
<1>6. cl[c].fiber \in Fiber
  BY <1>2, <1>3 DEF FiberPart, FiberTyped
<1>7. cl[p].frame \in Frame /\ Strays(p)
  <2>1. cl[p].frame # NULL
    BY <1>2, <1>3 DEF ParentInv
  <2>2. fr[cl[p].frame].unsynced \/ BeingStolen(p)
    BY <1>2, <1>3 DEF KidsInv
  <2>. QED  BY <2>1, <2>2, ClosureEntered DEF Strays
<1>8. cl[c].left_sib = NULL <=> \A d \in Kids(p) : c <= d
  <2>1. GreatestOf(cl[c].left_sib, Older(c, Kids(p)))
    BY <1>2 DEF SibInv
  <2>2. Kids(p) \subseteq Closure
    BY DEF Kids
  <2>3. CASE Older(c, Kids(p)) = {}
    <3>1. cl[c].left_sib = NULL
      BY <2>1, <2>3 DEF GreatestOf
    <3>2. ASSUME NEW d \in Kids(p)  PROVE c <= d
      <4>1. ~(d < c)
        BY <2>3 DEF Older
      <4>. QED  BY <1>2, <1>3, <2>2, <4>1
    <3>. QED  BY <3>1, <3>2
  <2>4. CASE Older(c, Kids(p)) # {}
    <3>1. cl[c].left_sib \in Older(c, Kids(p))
      BY <2>1, <2>4 DEF GreatestOf
    <3>2. cl[c].left_sib \in Kids(p) /\ cl[c].left_sib < c
      BY <3>1 DEF Older
    <3>3. ~(c <= cl[c].left_sib) /\ cl[c].left_sib # NULL
      <4>1. cl[c].left_sib \in Closure
        BY <2>2, <3>2
      <4>2. cl[c].left_sib \in Nat /\ c \in Nat /\ cl[c].left_sib # NULL
        BY <1>3, <4>1
      <4>. QED  BY <3>2, <4>2
    <3>. QED  BY <3>2, <3>3
  <2>. QED  BY <2>3, <2>4
<1>9. Ends(c, Home(p)) => cl[c].fiber = Home(p)
  BY <1>2, <1>3, <1>4 DEF Ends, FiberPart
<1>10. ASSUME cl[p].fiber_child = NULL
       PROVE  \E k \in Kids(p) : (\A d \in Kids(p) : k <= d) /\ Ends(k, Home(p))
  BY <1>3, <1>7, <1>10 DEF FiberPart
<1>11. ASSUME KeepsFiber(c)
       PROVE  cl[c].fiber = Home(p) /\ cl[p].fiber_child = NULL
  <2>1. cl[p].fiber_child = NULL /\ \A d \in Kids(p) : c <= d
    BY <1>2, <1>8, <1>11 DEF KeepsFiber
  <2>2. PICK k \in Kids(p) : (\A d \in Kids(p) : k <= d) /\ Ends(k, Home(p))
    BY <1>10, <2>1
  <2>3. k = c
    <3>1. k <= c /\ c <= k /\ k \in Nat /\ c \in Nat
      BY <1>2, <1>3, <2>1, <2>2 DEF Kids
    <3>. QED  BY <3>1
  <2>. QED  BY <1>9, <2>1, <2>2, <2>3
<1>12. ASSUME ~KeepsFiber(c), cl[p].fiber_child = NULL
       PROVE  \E k \in Kids(p) \ {c} : (\A d \in Kids(p) \ {c} : k <= d) /\ Ends(k, Home(p))
  <2>1. PICK k \in Kids(p) : (\A d \in Kids(p) : k <= d) /\ Ends(k, Home(p))
    BY <1>10, <1>12
  <2>2. k # c
    BY <1>2, <1>8, <1>12, <2>1 DEF KeepsFiber
  <2>. QED  BY <2>1, <2>2
<1>13. ASSUME IsGoodSteal(p)
       PROVE  /\ cl[p].fiber = NULL /\ ~cl[p].has_cilk_callee /\ Live(p)
              /\ KeepsFiber(c) \/ (cl[p].fiber_child # NULL /\ cl[p].fiber_child = Home(p))
  <2>1. cl[p].join_counter = 1 /\ cl[p].status = "SUSPENDED" /\ ~cl[p].has_cilk_callee
    BY <1>13 DEF IsGoodSteal
  <2>2. Live(p) /\ cl[p].fiber = NULL
    BY <1>3, <2>1 DEF Live, FiberPart
  <2>3. Kids(p) = {c}
    <3>1. IsFiniteSet(Kids(p)) /\ Cardinality(Kids(p)) = 1
      BY <1>3, <2>1, KidsFinite DEF CountInv
    <3>2. PICK x : Kids(p) = {x}
      BY <3>1, FS_Singleton
    <3>. QED  BY <1>2, <3>2
  <2>4. cl[p].fiber_child = NULL => KeepsFiber(c)
    <3>1. c <= c
      BY <1>3
    <3>. QED  BY <1>2, <1>8, <2>3, <3>1 DEF KeepsFiber
  <2>. QED  BY <1>3, <2>1, <2>2, <2>4 DEF FiberPart
<1>14. ASSUME NEW d \in Closure, Live(d), cl[d].call_parent # NULL
       PROVE  cl[d].call_parent \in Closure \ {c} /\ cl[cl[d].call_parent].has_cilk_callee
  BY <1>3, <1>5, <1>14 DEF CallInv, TypedTree
<1>. QED  BY <1>2, <1>4, <1>5, <1>6, <1>7, <1>11, <1>12, <1>13, <1>14 DEF RejoinsHome

(* Whose the fibers are then: the pool's, the parent's to sync on, or, if it  *)
(* is resumed at its sync, the parent's to run on.                            *)
LEMMA RejoinFields ==
  ASSUME FInv, SibInv, FiberInv, NEW w \in Worker, NEW c \in Closure, NEW p \in Closure, ReturnParent(w, c, p),
         NEW keep \in BOOLEAN, NEW steal \in BOOLEAN, keep <=> KeepsFiber(c), steal <=> IsGoodSteal(p)
  PROVE  /\ Closure' = Closure /\ made' = made
         /\ cl'[c].fiber = IF keep THEN NULL ELSE cl[c].fiber
         /\ cl'[c].fiber_child = cl[c].fiber_child /\ cl'[c].orig_rsp = cl[c].orig_rsp
         /\ \A d \in Closure \ {c, p} : /\ cl'[d].fiber = cl[d].fiber /\ cl'[d].fiber_child = cl[d].fiber_child
                                        /\ cl'[d].orig_rsp = cl[d].orig_rsp
         /\ \E child : /\ child = IF keep THEN cl[c].fiber ELSE cl[p].fiber_child
                       /\ cl'[p].fiber = IF steal THEN child ELSE cl[p].fiber
                       /\ cl'[p].fiber_child = IF steal THEN NULL ELSE child
                       /\ cl'[p].orig_rsp = IF steal THEN NULL ELSE cl[p].orig_rsp
         /\ toFree'[w] = NULL /\ \A v \in Worker \ {w} : toFree'[v] = toFree[v]
         /\ \A x \in Fiber : x \in idle' <=> x \in idle \/ x = toFree[w] \/ (~keep /\ x = cl[c].fiber)
         /\ FiberTyped'
<1>1. BackSites(c, p) /\ RejoinsHome(c, p)
  BY ChildBackSites, ChildRejoins
<1>2. /\ Closure' = Closure /\ made' = made /\ toFree' = [toFree EXCEPT ![w] = NULL]
      /\ idle' = idle \union Free({toFree[w]})
                  \union (IF KeepsFiber(c) THEN {} ELSE {cl[c].fiber})
                  \union (IF IsGoodSteal(p) THEN Free({cl[p].fiber}) ELSE {})
  BY ChildBack DEF ReturnParent, GivesBack
<1>3. /\ cl'[c].fiber = IF keep THEN NULL ELSE cl[c].fiber
      /\ cl'[c].fiber_child = cl[c].fiber_child /\ cl'[c].orig_rsp = cl[c].orig_rsp
  BY <1>1 DEF BackSites, Sites
<1>4. \A d \in Closure \ {c, p} : /\ cl'[d].fiber = cl[d].fiber /\ cl'[d].fiber_child = cl[d].fiber_child
                                  /\ cl'[d].orig_rsp = cl[d].orig_rsp
  BY <1>1 DEF BackSites, Sites
<1>5. PICK child : /\ child = IF keep THEN cl[c].fiber ELSE cl[p].fiber_child
                   /\ cl'[p].fiber = IF steal THEN child ELSE cl[p].fiber
                   /\ cl'[p].fiber_child = IF steal THEN NULL ELSE child
                   /\ cl'[p].orig_rsp = IF steal THEN NULL ELSE cl[p].orig_rsp
  BY <1>1 DEF BackSites, Sites
<1>6. toFree \in [Worker -> Ref] /\ NULL \notin Fiber
  BY FParts, WorkerAssumption DEF Typed, TypedRuntime, Fiber
<1>7. toFree'[w] = NULL /\ \A v \in Worker \ {w} : toFree'[v] = toFree[v]
  BY <1>2, <1>6
<1>8. FiberTyped /\ cl[c].fiber \in Fiber /\ (steal => cl[p].fiber = NULL)
  BY <1>1 DEF RejoinsHome, FiberInv
<1>9. \A x \in Fiber : x \in idle' <=> x \in idle \/ x = toFree[w] \/ (~keep /\ x = cl[c].fiber)
  BY <1>2, <1>6, <1>8 DEF Free
<1>10. idle' \subseteq Fiber
  BY <1>2, <1>6, <1>8 DEF Free, FiberTyped
<1>11. Fiber' = Fiber
  BY <1>2 DEF Fiber
<1>12. \A d \in Closure : cl'[d].fiber \in Fiber \union {NULL} /\ cl'[d].fiber_child \in Fiber \union {NULL}
  <2>. TAKE d \in Closure
  <2>1. CASE d = c
    BY <1>3, <1>8, <2>1 DEF FiberTyped
  <2>2. CASE d = p
    <3>1. child \in Fiber \union {NULL}
      BY <1>5, <1>8 DEF FiberTyped
    <3>. QED  BY <1>5, <1>8, <2>2, <3>1 DEF FiberTyped
  <2>3. CASE d \in Closure \ {c, p}
    BY <1>4, <1>8, <2>3 DEF FiberTyped
  <2>. QED  BY <2>1, <2>2, <2>3
<1>13. FiberTyped'
  <2>1. \A v \in Worker : toFree'[v] \in Fiber \union {NULL}
    BY <1>7, <1>8 DEF FiberTyped
  <2>. QED  BY <1>2, <1>10, <1>11, <1>12, <2>1 DEF FiberTyped
<1>. QED  BY <1>2, <1>3, <1>4, <1>5, <1>7, <1>9, <1>13

LEMMA RejoinOwners ==
  ASSUME FInv, SibInv, FiberInv, NEW w \in Worker, NEW c \in Closure, NEW p \in Closure, ReturnParent(w, c, p)
  PROVE  OwnInv'
<1>1. PICK keep \in BOOLEAN, steal \in BOOLEAN : (keep <=> KeepsFiber(c)) /\ (steal <=> IsGoodSteal(p))
  OBVIOUS
<1>2. /\ Closure' = Closure /\ made' = made
      /\ cl'[c].fiber = IF keep THEN NULL ELSE cl[c].fiber
      /\ cl'[c].fiber_child = cl[c].fiber_child
      /\ \A d \in Closure \ {c, p} : cl'[d].fiber = cl[d].fiber /\ cl'[d].fiber_child = cl[d].fiber_child
  BY <1>1, RejoinFields
<1>3. PICK child : /\ child = IF keep THEN cl[c].fiber ELSE cl[p].fiber_child
                   /\ cl'[p].fiber = IF steal THEN child ELSE cl[p].fiber
                   /\ cl'[p].fiber_child = IF steal THEN NULL ELSE child
  <2>1. \E child : /\ child = IF keep THEN cl[c].fiber ELSE cl[p].fiber_child
                   /\ cl'[p].fiber = IF steal THEN child ELSE cl[p].fiber
                   /\ cl'[p].fiber_child = IF steal THEN NULL ELSE child
                   /\ cl'[p].orig_rsp = IF steal THEN NULL ELSE cl[p].orig_rsp
    BY <1>1, RejoinFields
  <2>. QED  BY <2>1
<1>4. toFree'[w] = NULL /\ \A v \in Worker \ {w} : toFree'[v] = toFree[v]
  BY <1>1, RejoinFields
<1>5. \A x \in Fiber : x \in idle' <=> x \in idle \/ x = toFree[w] \/ (~keep /\ x = cl[c].fiber)
  BY <1>1, RejoinFields
<1>6. /\ cl[c].fiber \in Fiber /\ ~cl[c].has_cilk_callee /\ Live(c) /\ c # p
      /\ keep => cl[p].fiber_child = NULL
      /\ steal => cl[p].fiber = NULL /\ ~cl[p].has_cilk_callee /\ Live(p)
  BY <1>1, ChildRejoins DEF RejoinsHome
<1>7. \A d \in Closure : cl'[d].has_cilk_callee = cl[d].has_cilk_callee
  BY ChildBack DEF GivesBack
<1>8. ~Live(c)' /\ \A d \in Closure \ {c} : Live(d)' <=> Live(d)
  BY ChildBack DEF GivesBack
<1>9. OwnInv /\ NULL \notin Fiber
  BY WorkerAssumption DEF FiberInv, Fiber
<1>10. ASSUME NEW x \in Fiber, x # toFree[w], x # cl[c].fiber, steal => x # cl[p].fiber_child, NEW k, NEW i
       PROVE  Owns(k, i, x)' <=> Owns(k, i, x)
  <2>1. \A v \in Worker : toFree'[v] = x <=> toFree[v] = x
    BY <1>4, <1>9, <1>10
  <2>2. \A d \in Closure : cl'[d].fiber_child = x <=> cl[d].fiber_child = x
    BY <1>2, <1>3, <1>6, <1>9, <1>10
  <2>3. \A d \in Closure : cl'[d].fiber = x /\ Live(d)' /\ ~cl'[d].has_cilk_callee
                             <=> cl[d].fiber = x /\ Live(d) /\ ~cl[d].has_cilk_callee
    BY <1>2, <1>3, <1>6, <1>7, <1>8, <1>9, <1>10
  <2>. QED  BY <1>2, <1>5, <1>10, <2>1, <2>2, <2>3, OwnsNext DEF Owns
<1>11. ASSUME NEW x \in Fiber, NEW k, NEW i, Owns(k, i, x)
       PROVE  /\ \A l, j : Owns(l, j, x) <=> l = k /\ j = i
              /\ x \in idle <=> k = "pool" /\ i = x
              /\ \A v \in Worker : toFree[v] = x <=> k = "free" /\ i = v
              /\ \A d \in Closure : cl[d].fiber_child = x <=> k = "sync" /\ i = d
              /\ \A d \in Closure : cl[d].fiber = x /\ Live(d) /\ ~cl[d].has_cilk_callee <=> k = "run" /\ i = d
  <2>1. \A l, j : Owns(l, j, x) <=> l = k /\ j = i
    BY <1>9, <1>11, OwnerIs
  <2>. QED  BY <2>1 DEF Owns
<1>12. ASSUME NEW x \in Fiber, x = toFree[w]
       PROVE  \A l, j : Owns(l, j, x)' <=> l = "pool" /\ j = x
  <2>1. Owns("free", w, x)
    BY <1>12 DEF Owns
  <2>2. /\ \A v \in Worker : toFree[v] = x <=> v = w
        /\ \A d \in Closure : cl[d].fiber_child # x /\ ~(cl[d].fiber = x /\ Live(d) /\ ~cl[d].has_cilk_callee)
    BY <1>11, <2>1
  <2>3. cl[c].fiber # x
    BY <1>6, <2>2
  <2>4. \A v \in Worker : toFree'[v] # x
    BY <1>4, <1>9, <2>2
  <2>5. child # x
    BY <1>3, <2>2, <2>3
  <2>6. \A d \in Closure : cl'[d].fiber_child # x /\ ~(cl'[d].fiber = x /\ Live(d)' /\ ~cl'[d].has_cilk_callee)
    BY <1>2, <1>3, <1>7, <1>8, <1>9, <2>2, <2>5
  <2>. QED  BY <1>2, <1>5, <1>12, <2>4, <2>6, OwnsNext
<1>13. ASSUME NEW x \in Fiber, x = cl[c].fiber
       PROVE  \E k, i : \A l, j : Owns(l, j, x)' <=> l = k /\ j = i
  <2>1. Owns("run", c, x)
    BY <1>6, <1>13 DEF Owns
  <2>2. /\ x \notin idle /\ \A v \in Worker : toFree[v] # x
        /\ \A d \in Closure : cl[d].fiber_child # x
        /\ \A d \in Closure : cl[d].fiber = x /\ Live(d) /\ ~cl[d].has_cilk_callee <=> d = c
    BY <1>11, <2>1
  <2>3. \A v \in Worker : toFree'[v] # x
    BY <1>4, <1>9, <2>2
  <2>4. x \in idle' <=> ~keep
    BY <1>5, <1>13, <2>2
  <2>5. child = x <=> keep
    BY <1>3, <1>13, <2>2
  <2>6. \A d \in Closure : cl'[d].fiber_child = x <=> d = p /\ keep /\ ~steal
    BY <1>2, <1>3, <1>6, <1>9, <2>2, <2>5
  <2>7. \A d \in Closure : cl'[d].fiber = x /\ Live(d)' /\ ~cl'[d].has_cilk_callee <=> d = p /\ keep /\ steal
    BY <1>2, <1>3, <1>6, <1>7, <1>8, <1>9, <2>2, <2>5
  <2>8. ASSUME NEW l, NEW j
        PROVE  Owns(l, j, x)' <=> \/ ~keep /\ l = "pool" /\ j = x
                                  \/ keep /\ ~steal /\ l = "sync" /\ j = p
                                  \/ keep /\ steal /\ l = "run" /\ j = p
    BY <1>2, <2>3, <2>4, <2>6, <2>7, OwnsNext
  <2>9. ASSUME ~keep  PROVE \A l, j : Owns(l, j, x)' <=> l = "pool" /\ j = x
    BY <2>8, <2>9
  <2>10. CASE keep /\ ~steal
    BY <2>8, <2>10
  <2>11. CASE keep /\ steal
    BY <2>8, <2>11
  <2>. QED  BY <2>9, <2>10, <2>11
<1>14. ASSUME NEW x \in Fiber, steal, x = cl[p].fiber_child
       PROVE  \A l, j : Owns(l, j, x)' <=> l = "run" /\ j = p
  <2>1. Owns("sync", p, x)
    BY <1>14 DEF Owns
  <2>2. /\ x \notin idle /\ \A v \in Worker : toFree[v] # x
        /\ \A d \in Closure : cl[d].fiber_child = x <=> d = p
        /\ \A d \in Closure : ~(cl[d].fiber = x /\ Live(d) /\ ~cl[d].has_cilk_callee)
    BY <1>11, <2>1
  <2>3. ~keep /\ child = x /\ cl[c].fiber # x
    BY <1>3, <1>6, <1>9, <1>14, <2>2
  <2>4. \A v \in Worker : toFree'[v] # x
    BY <1>4, <1>9, <2>2
  <2>5. x \notin idle'
    BY <1>5, <2>2, <2>3
  <2>6. \A d \in Closure : cl'[d].fiber_child # x
    BY <1>2, <1>3, <1>6, <1>9, <1>14, <2>2
  <2>7. \A d \in Closure : cl'[d].fiber = x /\ Live(d)' /\ ~cl'[d].has_cilk_callee <=> d = p
    BY <1>2, <1>3, <1>6, <1>7, <1>8, <1>9, <1>14, <2>2, <2>3
  <2>. QED  BY <1>2, <2>4, <2>5, <2>6, <2>7, OwnsNext
<1>15. Fiber' = Fiber
  BY <1>2 DEF Fiber
<1>16. ASSUME NEW x \in Fiber
       PROVE  \/ \A k, i : Owns(k, i, x)' <=> Owns(k, i, x)
              \/ \E k, i : \A l, j : Owns(l, j, x)' <=> l = k /\ j = i
  <2>1. CASE x = toFree[w]
    BY <1>12, <2>1
  <2>2. CASE x = cl[c].fiber
    BY <1>13, <2>2
  <2>3. CASE steal /\ x = cl[p].fiber_child
    BY <1>14, <2>3
  <2>4. CASE x # toFree[w] /\ x # cl[c].fiber /\ (steal => x # cl[p].fiber_child)
    BY <1>10, <2>4
  <2>. QED  BY <2>1, <2>2, <2>3, <2>4
<1>. QED  BY <1>9, <1>15, <1>16, OwnMoves

LEMMA RejoinFrames ==
  ASSUME FInv, SibInv, FiberInv, NEW w \in Worker, NEW c \in Closure, NEW p \in Closure, ReturnParent(w, c, p)
  PROVE  /\ HomesStay /\ (\A d \in Closure : cl[d].frame # NULL => Home(d)' = Home(d))
         /\ \A h \in Frame : \/ fr'[h].unsynced = fr[h].unsynced /\ fr'[h].sp = fr[h].sp
                             \/ IsGoodSteal(p) /\ h = cl[p].frame
         /\ IsGoodSteal(p) => ~fr'[cl[p].frame].unsynced /\ fr'[cl[p].frame].sp = Home(p)
         /\ (\A d \in Closure : BeingStolen(d)' <=> BeingStolen(d))
         /\ IsGoodSteal(p) => ~BeingStolen(p)
<1>1. GivesBack(w, c, p) /\ RejoinsHome(c, p)
  BY ChildBack, ChildRejoins
<1>2. fr \in [Frame -> FrameRecord] /\ FiberPart(p) /\ cl[p].frame \in Frame
  BY <1>1, FParts DEF Typed, TypedRun, FiberInv, RejoinsHome
<1>3. ASSUME IsGoodSteal(p)
      PROVE  /\ \A h \in Frame \ {cl[p].frame} : fr'[h] = fr[h]
             /\ fr'[cl[p].frame].home = fr[cl[p].frame].home /\ fr'[cl[p].frame].stolen = fr[cl[p].frame].stolen
             /\ fr'[cl[p].frame].sp = cl[p].orig_rsp
  <2>1. fr' = [fr EXCEPT ![cl[p].frame] = SyncedFrame(w, cl[p])]
    BY <1>1, <1>3 DEF GivesBack
  <2>2. SyncedFrame(w, cl[p]) = [fr[cl[p].frame] EXCEPT !.unsynced = FALSE, !.sp = cl[p].orig_rsp, !.worker = w]
    BY DEF SyncedFrame
  <2>3. fr[cl[p].frame] \in FrameRecord
    BY <1>2
  <2>4. /\ SyncedFrame(w, cl[p]).home = fr[cl[p].frame].home /\ SyncedFrame(w, cl[p]).stolen = fr[cl[p].frame].stolen
        /\ SyncedFrame(w, cl[p]).sp = cl[p].orig_rsp
    BY <2>2, <2>3 DEF FrameRecord
  <2>. QED  BY <1>2, <2>1, <2>4
<1>4. ~IsGoodSteal(p) => fr' = fr
  BY <1>1 DEF GivesBack
<1>5. \A h \in Frame : fr'[h].home = fr[h].home /\ fr'[h].stolen = fr[h].stolen
  BY <1>2, <1>3, <1>4
<1>6. HomesStay
  BY <1>5 DEF HomesStay
<1>7. \A d \in Closure : cl[d].frame # NULL => Home(d)' = Home(d)
  <2>1. \A d \in Closure : cl'[d].frame = cl[d].frame
    BY <1>1 DEF GivesBack
  <2>. QED  BY <1>5, <2>1, ClosureEntered DEF Home
<1>8. IsGoodSteal(p) => ~fr'[cl[p].frame].unsynced /\ fr'[cl[p].frame].sp = Home(p)
  <2>1. IsGoodSteal(p) => ~fr'[cl[p].frame].unsynced
    BY <1>1 DEF GivesBack
  <2>2. cl[p].orig_rsp = Home(p)
    BY <1>1, <1>2 DEF RejoinsHome, FiberPart
  <2>. QED  BY <1>3, <2>1, <2>2
<1>9. \A d \in Closure : BeingStolen(d)' <=> BeingStolen(d)
  <2>1. pc[w] = "return" /\ pc'[w] = "loop" /\ \A v \in Worker \ {w} : pc'[v] = pc[v]
    BY <1>1 DEF GivesBack
  <2>2. \A v \in Worker \ {w} : t'[v] = t[v]
    BY <1>1 DEF GivesBack, Idles
  <2>3. \A v \in Worker : (Thief(v)' <=> Thief(v)) /\ (Thief(v) => t'[v] = t[v])
    BY <2>1, <2>2 DEF Thief
  <2>. QED  BY <2>3, ThiefStays
<1>10. IsGoodSteal(p) => ~BeingStolen(p)
  <2>1. IsGoodSteal(p) => \A v \in Worker : Hand(v) # p
    BY <1>1 DEF GivesBack
  <2>. QED  BY <2>1, ThiefParked DEF BeingStolen
<1>. QED  BY <1>3, <1>4, <1>6, <1>7, <1>8, <1>9, <1>10

(* The closures other than the child and its parent.                          *)
LEMMA RejoinParts ==
  ASSUME FInv, SibInv, FiberInv, NEW w \in Worker, NEW c \in Closure, NEW p \in Closure, ReturnParent(w, c, p)
  PROVE  /\ \A k \in Closure \ {c} : \A x : Ends(k, x)' <=> Ends(k, x)
         /\ \A d \in Closure \ {p} : FiberPart(d)'
<1>1. PICK keep \in BOOLEAN, steal \in BOOLEAN : (keep <=> KeepsFiber(c)) /\ (steal <=> IsGoodSteal(p))
  OBVIOUS
<1>2. /\ Closure' = Closure
      /\ cl'[c].fiber_child = cl[c].fiber_child /\ cl'[c].orig_rsp = cl[c].orig_rsp
      /\ \A d \in Closure \ {c, p} : /\ cl'[d].fiber = cl[d].fiber /\ cl'[d].fiber_child = cl[d].fiber_child
                                     /\ cl'[d].orig_rsp = cl[d].orig_rsp
  BY <1>1, RejoinFields
<1>3. /\ HomesStay /\ (\A d \in Closure : cl[d].frame # NULL => Home(d)' = Home(d))
      /\ (\A h \in Frame : fr'[h].unsynced = fr[h].unsynced \/ h = cl[p].frame)
      /\ (\A d \in Closure : BeingStolen(d)' <=> BeingStolen(d))
  BY RejoinFrames
<1>11. GivesBack(w, c, p)
  BY ChildBack
<1>4. \A d \in Closure : /\ cl'[d].frame = cl[d].frame /\ cl'[d].call_parent = cl[d].call_parent
                         /\ cl'[d].has_cilk_callee = cl[d].has_cilk_callee
                         /\ d # p => cl'[d].status = cl[d].status
  BY <1>11 DEF GivesBack
<1>12. /\ ~Live(c)' /\ (\A d \in Closure \ {c} : Live(d)' <=> Live(d))
       /\ \A d \in Closure \ {p} : Kids(d)' = Kids(d)
  BY <1>11 DEF GivesBack
<1>5. /\ ~Strays(c) /\ p # c /\ cl[c].spawn_parent = p /\ cl[p].frame \in Frame
      /\ \A d \in Closure : Live(d) /\ cl[d].call_parent # NULL =>
           cl[d].call_parent \in Closure \ {c} /\ cl[cl[d].call_parent].has_cilk_callee
      /\ IsGoodSteal(p) => ~cl[p].has_cilk_callee
  BY ChildRejoins DEF RejoinsHome
<1>6. /\ OneClosure /\ NULL \notin Frame /\ \A d \in Closure : FiberPart(d)
  BY Kinds DEF FInv, FiberInv
<1>7. \A k \in Closure \ {c} : \A x : Ends(k, x)' <=> Ends(k, x)
  <2>. TAKE k \in Closure \ {c}
  <2>. TAKE x
  <2>1. CASE cl[k].frame = NULL
    <3>1. k \in Closure \ {c, p}
      BY <1>5, <1>6, <2>1
    <3>. QED  BY <1>2, <1>4, <2>1, <3>1 DEF Ends
  <2>2. CASE cl[k].frame # NULL
    BY <1>3, <1>4, <2>2 DEF Ends
  <2>. QED  BY <2>1, <2>2
<1>8. \A d \in Closure \ {p} : Strays(d)' <=> Strays(d)
  <2>. TAKE d \in Closure \ {p}
  <2>1. cl[d].frame # NULL => cl[d].frame \in Frame /\ cl[d].frame # cl[p].frame
    BY <1>5, <1>6, ClosureEntered DEF OneClosure
  <2>2. cl[d].frame # NULL => (fr'[cl[d].frame].unsynced <=> fr[cl[d].frame].unsynced)
    BY <1>3, <2>1
  <2>. QED  BY <1>3, <1>4, <2>2, StraysStay
<1>9. FiberPart(c)'
  <2>1. FiberPart(c)' <=>
          /\ Live(c)' => (cl'[c].fiber = NULL <=> cl'[c].status = "SUSPENDED" /\ ~cl'[c].has_cilk_callee)
          /\ cl'[c].orig_rsp # NULL <=> Strays(c)'
          /\ Strays(c)' => cl'[c].orig_rsp = Home(c)'
          /\ cl'[c].fiber_child # NULL => Strays(c)' /\ cl'[c].fiber_child = Home(c)'
          /\ Strays(c)' /\ cl'[c].fiber_child = NULL =>
               \E k \in Kids(c)' : (\A d \in Kids(c)' : k <= d) /\ Ends(k, Home(c))'
          /\ Live(c)' /\ cl'[c].frame # NULL /\ ~Strays(c)' => cl'[c].fiber = Home(c)'
          /\ Live(c)' /\ cl'[c].call_parent # NULL => cl'[c].frame # NULL /\ cl'[cl'[c].call_parent].fiber = Home(c)'
    BY DEF FiberPart
  <2>2. ~Strays(c)' /\ cl'[c].orig_rsp = NULL /\ cl'[c].fiber_child = NULL
    BY <1>2, <1>5, <1>6, <1>8 DEF FiberPart
  <2>. QED  BY <1>12, <2>1, <2>2
<1>10. ASSUME NEW d \in Closure \ {c, p}
       PROVE  FiberPart(d)'
  <2>1. /\ cl'[d].frame = cl[d].frame /\ cl'[d].call_parent = cl[d].call_parent
        /\ cl'[d].has_cilk_callee = cl[d].has_cilk_callee /\ cl'[d].status = cl[d].status
    BY <1>4
  <2>2. /\ cl'[d].fiber = cl[d].fiber /\ cl'[d].fiber_child = cl[d].fiber_child /\ cl'[d].orig_rsp = cl[d].orig_rsp
    BY <1>2
  <2>3. Live(d)' /\ cl[d].call_parent # NULL => cl'[cl[d].call_parent].fiber = cl[cl[d].call_parent].fiber
    <3>1. PICK child : cl'[p].fiber = IF steal THEN child ELSE cl[p].fiber
      <4>1. \E child : /\ child = IF keep THEN cl[c].fiber ELSE cl[p].fiber_child
                       /\ cl'[p].fiber = IF steal THEN child ELSE cl[p].fiber
                       /\ cl'[p].fiber_child = IF steal THEN NULL ELSE child
                       /\ cl'[p].orig_rsp = IF steal THEN NULL ELSE cl[p].orig_rsp
        BY <1>1, RejoinFields
      <4>. QED  BY <4>1
    <3>2. Live(d)' => Live(d)
      BY <1>12
    <3>. QED  BY <1>1, <1>2, <1>5, <3>1, <3>2
  <2>4. Kids(d)' = Kids(d) /\ \A k \in Kids(d) : \A x : Ends(k, x) => Ends(k, x)'
    <3>1. \A k \in Kids(d) : k \in Closure \ {c}
      BY <1>5 DEF Kids
    <3>. QED  BY <1>7, <1>12, <3>1
  <2>5. (Live(d)' => Live(d)) /\ (Strays(d)' <=> Strays(d)) /\ FiberPart(d) /\ (cl[d].frame # NULL => Home(d)' = Home(d))
    BY <1>3, <1>6, <1>8, <1>12
  <2>. QED  BY <2>1, <2>2, <2>3, <2>4, <2>5, FiberStays
<1>. QED  BY <1>7, <1>9, <1>10

LEMMA RejoinParent ==
  ASSUME FInv, SibInv, FiberInv, NEW w \in Worker, NEW c \in Closure, NEW p \in Closure, ReturnParent(w, c, p)
  PROVE  FiberPart(p)'
<1>1. PICK keep \in BOOLEAN, steal \in BOOLEAN : (keep <=> KeepsFiber(c)) /\ (steal <=> IsGoodSteal(p))
  OBVIOUS
<1>2. PICK child : /\ child = IF keep THEN cl[c].fiber ELSE cl[p].fiber_child
                   /\ cl'[p].fiber = IF steal THEN child ELSE cl[p].fiber
                   /\ cl'[p].fiber_child = IF steal THEN NULL ELSE child
                   /\ cl'[p].orig_rsp = IF steal THEN NULL ELSE cl[p].orig_rsp
  BY <1>1, RejoinFields
<1>3. /\ Home(p)' = Home(p)
      /\ ~steal => fr'[cl[p].frame].unsynced = fr[cl[p].frame].unsynced
      /\ steal => ~fr'[cl[p].frame].unsynced /\ ~BeingStolen(p)
      /\ BeingStolen(p)' <=> BeingStolen(p)
  BY <1>1, RejoinFrames, ChildRejoins, Kinds DEF RejoinsHome
<1>4. RejoinsHome(c, p) /\ FiberPart(p) /\ NULL \notin Frame /\ NULL \notin Fiber
  BY ChildRejoins, Kinds, WorkerAssumption DEF FiberInv, Fiber
<1>5. GivesBack(w, c, p)
  BY ChildBack
<1>6. /\ cl'[p].frame = cl[p].frame /\ cl'[p].call_parent = cl[p].call_parent
      /\ cl'[p].has_cilk_callee = cl[p].has_cilk_callee /\ p # c
      /\ cl'[p].status = IF steal THEN "READY" ELSE cl[p].status
  BY <1>1, <1>5 DEF GivesBack
<1>7. (Live(p)' <=> Live(p)) /\ Kids(p)' = Kids(p) \ {c}
  BY <1>5, <1>6 DEF GivesBack
<1>8. Strays(p) /\ (Strays(p)' <=> ~steal) /\ cl[p].orig_rsp = Home(p)
  BY <1>3, <1>4, <1>6 DEF RejoinsHome, Strays, FiberPart
<1>9. /\ child # NULL => child = Home(p)
      /\ steal => child # NULL
  BY <1>1, <1>2, <1>4 DEF RejoinsHome, FiberPart
<1>10. child = NULL => \E k \in Kids(p)' : (\A d \in Kids(p)' : k <= d) /\ Ends(k, Home(p))'
  <2>. HAVE child = NULL
  <2>1. ~keep /\ cl[p].fiber_child = NULL
    BY <1>2, <1>4 DEF RejoinsHome
  <2>2. PICK k \in Kids(p) \ {c} : (\A d \in Kids(p) \ {c} : k <= d) /\ Ends(k, Home(p))
    BY <1>1, <1>4, <2>1 DEF RejoinsHome
  <2>3. Ends(k, Home(p))'
    <3>1. k \in Closure \ {c}
      BY DEF Kids
    <3>2. \A x : x = Home(p)' => Ends(k, x)'
      BY <1>3, <2>2, <3>1, RejoinParts
    <3>. QED  BY <3>2 DEF Ends
  <2>. QED  BY <1>7, <2>2, <2>3
<1>11. Live(p) /\ cl[p].call_parent # NULL => cl'[p].frame # NULL /\ cl'[cl[p].call_parent].fiber = Home(p)'
  <2>. HAVE Live(p) /\ cl[p].call_parent # NULL
  <2>1. cl[p].frame # NULL /\ cl[cl[p].call_parent].fiber = Home(p)
    BY <1>4 DEF FiberPart
  <2>2. cl[p].call_parent \in Closure \ {c} /\ cl[cl[p].call_parent].has_cilk_callee /\ (steal => ~cl[p].has_cilk_callee)
    BY <1>1, <1>4 DEF RejoinsHome
  <2>3. cl[p].call_parent # p \/ ~steal
    BY <2>2
  <2>4. \A d \in Closure \ {c, p} : cl'[d].fiber = cl[d].fiber
    BY <1>1, RejoinFields
  <2>. QED  BY <1>2, <1>3, <1>6, <2>1, <2>2, <2>3, <2>4
<1>12. FiberPart(p)' <=>
         /\ Live(p)' => (cl'[p].fiber = NULL <=> cl'[p].status = "SUSPENDED" /\ ~cl'[p].has_cilk_callee)
         /\ cl'[p].orig_rsp # NULL <=> Strays(p)'
         /\ Strays(p)' => cl'[p].orig_rsp = Home(p)'
         /\ cl'[p].fiber_child # NULL => Strays(p)' /\ cl'[p].fiber_child = Home(p)'
         /\ Strays(p)' /\ cl'[p].fiber_child = NULL =>
              \E k \in Kids(p)' : (\A d \in Kids(p)' : k <= d) /\ Ends(k, Home(p))'
         /\ Live(p)' /\ cl'[p].frame # NULL /\ ~Strays(p)' => cl'[p].fiber = Home(p)'
         /\ Live(p)' /\ cl'[p].call_parent # NULL => cl'[p].frame # NULL /\ cl'[cl'[p].call_parent].fiber = Home(p)'
  BY DEF FiberPart
<1>13. CASE steal
  BY <1>2, <1>3, <1>6, <1>7, <1>8, <1>9, <1>11, <1>12, <1>13
<1>14. CASE ~steal
  <2>1. Live(p)' => (cl'[p].fiber = NULL <=> cl'[p].status = "SUSPENDED" /\ ~cl'[p].has_cilk_callee)
    BY <1>2, <1>4, <1>6, <1>7, <1>14 DEF FiberPart
  <2>2. cl'[p].orig_rsp # NULL /\ Strays(p)' /\ cl'[p].orig_rsp = Home(p)'
    BY <1>2, <1>3, <1>4, <1>8, <1>14 DEF FiberPart
  <2>3. cl'[p].fiber_child = child
    BY <1>2, <1>14
  <2>. QED  BY <1>3, <1>6, <1>7, <1>9, <1>10, <1>11, <1>12, <2>1, <2>2, <2>3
<1>. QED  BY <1>13, <1>14

LEMMA RejoinFibers ==
  ASSUME FInv, SibInv, FiberInv, PosInv', NEW w \in Worker, NEW c \in Closure, NEW p \in Closure, ReturnParent(w, c, p)
  PROVE  FiberInv'
<1>1. PICK keep \in BOOLEAN, steal \in BOOLEAN : (keep <=> KeepsFiber(c)) /\ (steal <=> IsGoodSteal(p))
  OBVIOUS
<1>2. GivesBack(w, c, p) /\ RejoinsHome(c, p)
  BY ChildBack, ChildRejoins
<1>3. /\ Closure' = Closure /\ FiberTyped'
      /\ \A d \in Closure \ {c, p} : cl'[d].fiber = cl[d].fiber
  BY <1>1, RejoinFields
<1>4. PICK child : /\ child = IF keep THEN cl[c].fiber ELSE cl[p].fiber_child
                   /\ cl'[p].fiber = IF steal THEN child ELSE cl[p].fiber
                   /\ cl'[p].fiber_child = IF steal THEN NULL ELSE child
                   /\ cl'[p].orig_rsp = IF steal THEN NULL ELSE cl[p].orig_rsp
  BY <1>1, RejoinFields
<1>5. /\ HomesStay /\ \A h \in Frame : fr'[h].sp = fr[h].sp \/ (steal /\ h = cl[p].frame)
      /\ steal => fr'[cl[p].frame].sp = Home(p)
  BY <1>1, RejoinFrames
<1>6. /\ pc'[w] = "loop" /\ good'[w] = IF steal THEN TRUE ELSE FALSE
      /\ t'[w] = IF steal THEN p ELSE NULL
      /\ \A d \in Closure : cl'[d].frame = cl[d].frame /\ cl'[d].call_parent = cl[d].call_parent
  BY <1>1, <1>2 DEF GivesBack
<1>7. \A v \in Worker \ {w} : Idles(v) /\ Hand(v)' = Hand(v) /\ Hand(v) # c
  BY <1>2 DEF GivesBack
<1>8. steal => \A v \in Worker : Hand(v) # p /\ cl[p].frame \notin Held(v)
  BY <1>1, <1>2 DEF GivesBack
<1>9. WorkerFibers(w)'
  <2>1. good'[w] => fr'[cl'[t'[w]].frame].sp = cl'[t'[w]].fiber
    <3>1. steal => child = Home(p)
      BY <1>1, <1>2, <1>4 DEF RejoinsHome
    <3>. QED  BY <1>4, <1>5, <1>6, <3>1
  <2>2. pc'[w] \notin {"user", "sync"} /\ pc'[w] \notin OnFiber /\ ~Thief(w)'
    BY <1>6 DEF OnFiber, Thief
  <2>. QED  BY <2>1, <2>2, RuntimeFibers
<1>10. ASSUME NEW v \in Worker \ {w}
       PROVE  WorkerFibers(v)'
  <2>1. WorkerFibers(v) /\ Idles(v) /\ Hand(v)' = Hand(v) /\ on'[v] = on[v]
    BY <1>7 DEF FiberInv, ReturnParent
  <2>2. \A d \in Closure : cl'[d].fiber = cl[d].fiber \/ (~cl[d].has_cilk_callee /\ Hand(v) # d)
    BY <1>1, <1>2, <1>3, <1>4, <1>7, <1>8 DEF RejoinsHome
  <2>3. Hand(v) # NULL => cl'[Hand(v)].frame = cl[Hand(v)].frame /\ cl'[Hand(v)].call_parent = cl[Hand(v)].call_parent
    <3>1. Hand(v) # NULL => Hand(v) \in Closure
      BY HandIs, FParts
    <3>. QED  BY <1>6, <3>1
  <2>4. ASSUME steal, good[v]
        PROVE  cl[t[v]].frame # cl[p].frame
    <3>1. t[v] \in Closure /\ Hand(v) = t[v]
      <4>1. t[v] # NULL /\ t[v] \in Closure \union {NULL}
        BY <2>4, FParts DEF StageInv, Typed, TypedRuntime
      <4>. QED  BY <4>1, HandIs, FParts
    <3>2. OneClosure /\ cl[p].frame # NULL
      BY <1>2, Kinds DEF FInv, RejoinsHome
    <3>. QED  BY <1>8, <2>4, <3>1, <3>2 DEF OneClosure
  <2>5. \A h \in Frame : fr'[h].sp = fr[h].sp \/ (h \notin Held(v) /\ (good[v] => cl[t[v]].frame # h))
    BY <1>5, <1>8, <2>4
  <2>. QED  BY <1>5, <2>1, <2>2, <2>3, <2>5, OthersFibers
<1>11. \A d \in Closure' : FiberPart(d)'
  BY <1>3, RejoinParts, RejoinParent
<1>12. \A v \in Worker : WorkerFibers(v)'
  BY <1>9, <1>10
<1>. QED  BY <1>3, <1>11, <1>12, RejoinOwners, FiberNext

(* A frame is stolen.  The thief's fiber is new, or comes from the pool.      *)
LEMMA FreshFiber ==
  ASSUME FInv, FiberInv, NEW n, n = NewFiber, idle' = idle \ {n}, made' = IF idle = {} THEN made + 1 ELSE made
  PROVE  /\ n \in Fiber' /\ n # NULL /\ NULL \notin Fiber' /\ n \notin idle'
         /\ Fiber \subseteq Fiber' /\ Fiber' \subseteq Fiber \union {n} /\ idle' \subseteq Fiber'
         /\ \A x \in Fiber : x # n => (x \in idle' <=> x \in idle)
         /\ \A u \in Worker : toFree[u] # n
         /\ \A e \in Closure : cl[e].fiber_child # n /\ ~(cl[e].fiber = n /\ Live(e) /\ ~cl[e].has_cilk_callee)
<1>1. made \in Nat /\ FiberTyped /\ OwnInv /\ NULL \notin Int
  BY FParts, WorkerAssumption DEF Typed, TypedRuntime, FiberInv
<1>2. CASE idle = {}
  <2>1. n = made + 1 /\ made' = made + 1
    BY <1>2 DEF NewFiber
  <2>2. Fiber' = Fiber \union {n} /\ n \notin Fiber /\ n # NULL /\ NULL \notin Fiber'
    <3>1. Fiber' = 1..made + 1 /\ Fiber = 1..made
      BY <2>1 DEF Fiber
    <3>. QED  BY <1>1, <2>1, <3>1
  <2>. QED  BY <1>1, <1>2, <2>2 DEF FiberTyped
<1>3. CASE idle # {}
  <2>1. n \in idle /\ made' = made
    BY <1>3 DEF NewFiber
  <2>2. Fiber' = Fiber /\ n \in Fiber /\ n # NULL /\ NULL \notin Fiber'
    BY <1>1, <2>1 DEF Fiber, FiberTyped
  <2>3. \A l, j : Owns(l, j, n) <=> l = "pool" /\ j = n
    <3>1. Owns("pool", n, n)
      BY <2>1 DEF Owns
    <3>. QED  BY <1>1, <2>2, <3>1, OwnerIs
  <2>4. \A u \in Worker : toFree[u] # n
    BY <2>3 DEF Owns
  <2>5. \A e \in Closure : cl[e].fiber_child # n /\ ~(cl[e].fiber = n /\ Live(e) /\ ~cl[e].has_cilk_callee)
    BY <2>3 DEF Owns
  <2>. QED  BY <1>1, <2>2, <2>4, <2>5 DEF FiberTyped
<1>. QED  BY <1>2, <1>3

Steals(w, v, c, x, d, f) ==
  /\ Takes(w, v, c, x, d, f) /\ TakenSites(c, x, d, f)
  /\ idle' = idle \ {NewFiber} /\ made' = (IF idle = {} THEN made + 1 ELSE made)
  /\ on' = on /\ toFree' = toFree

(* What the victim leaves: its fiber goes with the child.                     *)
LEMMA StolenFields ==
  ASSUME FInv, FiberInv, NEW w \in Worker, NEW v \in Worker, NEW c \in Closure, NEW x \in Nat, NEW d \in Nat,
         NEW f \in Frame, Steals(w, v, c, x, d, f), NEW n, n = NewFiber
  PROVE  /\ Closure' = Closure \union {x, d} /\ d \notin Closure /\ x # d /\ (x = c \/ x \notin Closure)
         /\ cl'[d].fiber = cl[c].fiber /\ cl'[d].fiber_child = NULL /\ cl'[d].orig_rsp = NULL
         /\ cl'[x].fiber = n
         /\ x = c => /\ cl'[x].fiber_child = cl[c].fiber_child
                     /\ cl'[x].orig_rsp = IF cl[c].orig_rsp = NULL THEN cl[c].fiber ELSE cl[c].orig_rsp
         /\ x # c => cl'[x].fiber_child = NULL /\ cl'[x].orig_rsp = cl[c].fiber
         /\ \A e \in Closure \ {x} : /\ cl'[e].fiber = cl[e].fiber /\ cl'[e].fiber_child = cl[e].fiber_child
                                     /\ cl'[e].orig_rsp = cl[e].orig_rsp
         /\ cl[c].fiber \in Fiber /\ Live(c) /\ ~cl[c].has_cilk_callee /\ HomesIn(fr, cl[c].fiber, f)
<1>1. Takes(w, v, c, x, d, f) /\ TakenSites(c, x, d, f)
  BY DEF Steals
<1>2. /\ Closure' = Closure \union {x, d} /\ d \notin Closure /\ x # d /\ (x = c \/ x \notin Closure)
      /\ pc[v] = "user" /\ Hand(v) = c /\ ltq[v] # <<>> /\ f = Head(ltq[v])
      /\ cl[c].status = "RUNNING" /\ ~cl[c].has_cilk_callee
  BY <1>1 DEF Takes
<1>3. f \in Held(v)
  BY <1>1, TakenTips
<1>4. WorkerFibers(v) /\ FiberPart(c) /\ FiberTyped
  BY DEF FiberInv
<1>5. fr[f].sp = cl[c].fiber /\ HomesIn(fr, cl[c].fiber, f)
  <2>1. f \in Range(ltq[v])
    <3>1. ltq[v] \in Seq(Frame)
      BY FParts DEF Typed, TypedRun
    <3>2. 1 \in 1..Len(ltq[v]) /\ Head(ltq[v]) = ltq[v][1]
      BY <1>2, <3>1, HeadTailProperties
    <3>. QED  BY <1>2, <3>1, <3>2 DEF Range
  <2>. QED  BY <1>2, <1>3, <1>4, <2>1 DEF WorkerFibers
<1>6. Live(c) /\ cl[c].fiber \in Fiber
  <2>1. Live(c)
    BY <1>2 DEF Live
  <2>. QED  BY <1>2, <1>4, <2>1 DEF FiberPart, FiberTyped
<1>7. /\ cl'[d].fiber = cl[c].fiber /\ cl'[d].fiber_child = NULL /\ cl'[d].orig_rsp = NULL
  BY <1>1 DEF TakenSites, Sites
<1>8. /\ cl'[x].fiber = n
      /\ x = c => /\ cl'[x].fiber_child = cl[c].fiber_child
                  /\ cl'[x].orig_rsp = IF cl[c].orig_rsp = NULL THEN cl[c].fiber ELSE cl[c].orig_rsp
      /\ x # c => cl'[x].fiber_child = NULL /\ cl'[x].orig_rsp = cl[c].fiber
  BY <1>1, <1>5 DEF TakenSites, Sites
<1>9. \A e \in Closure \ {x} : /\ cl'[e].fiber = cl[e].fiber /\ cl'[e].fiber_child = cl[e].fiber_child
                               /\ cl'[e].orig_rsp = cl[e].orig_rsp
  BY <1>1 DEF TakenSites, Sites
<1>. QED  BY <1>2, <1>5, <1>6, <1>7, <1>8, <1>9

-----------------------------------------------------------------------------
(* The fibers then: the victim's goes on with the child, the new one is the   *)
(* thief's closure's, and the others stay.                                    *)
LEMMA StolenFrom ==
  ASSUME FInv, FiberInv, NEW w \in Worker, NEW v \in Worker, NEW c \in Closure, NEW x \in Nat, NEW d \in Nat,
         NEW f \in Frame, Steals(w, v, c, x, d, f), NEW n, n = NewFiber
  PROVE  /\ \A e \in Closure : Live(e)' <=> Live(e)
         /\ Live(d)' /\ Live(x)' /\ ~cl'[d].has_cilk_callee /\ ~cl'[x].has_cilk_callee
         /\ x # c => cl'[c].has_cilk_callee
         /\ \A e \in Closure : e # c => cl'[e].has_cilk_callee = cl[e].has_cilk_callee
         /\ n \in Fiber' /\ n # NULL /\ NULL \notin Fiber' /\ n \notin idle' /\ idle' \subseteq Fiber'
         /\ Fiber \subseteq Fiber' /\ Fiber' \subseteq Fiber \union {n}
         /\ \A y \in Fiber : y # n => (y \in idle' <=> y \in idle)
         /\ \A u \in Worker : toFree[u] # n /\ toFree'[u] = toFree[u]
         /\ \A e \in Closure : cl[e].fiber_child # n /\ ~(cl[e].fiber = n /\ Live(e) /\ ~cl[e].has_cilk_callee)
         /\ n # cl[c].fiber
<1>1. Takes(w, v, c, x, d, f) /\ idle' = idle \ {n} /\ made' = (IF idle = {} THEN made + 1 ELSE made) /\ toFree' = toFree
  BY DEF Steals
<1>2. /\ \A e \in Closure : Live(e)' <=> Live(e)
      /\ Live(d)'
  BY <1>1, TakenTree
<1>3. Live(x)'
  BY <1>1 DEF Takes, Live
<1>4. /\ ~cl'[d].has_cilk_callee /\ ~cl'[x].has_cilk_callee
      /\ x # c => cl'[c].has_cilk_callee
      /\ \A e \in Closure : e # c => cl'[e].has_cilk_callee = cl[e].has_cilk_callee
  BY <1>1 DEF Takes
<1>5. /\ n \in Fiber' /\ n # NULL /\ NULL \notin Fiber' /\ n \notin idle' /\ idle' \subseteq Fiber'
      /\ Fiber \subseteq Fiber' /\ Fiber' \subseteq Fiber \union {n}
      /\ \A y \in Fiber : y # n => (y \in idle' <=> y \in idle)
  BY <1>1, FreshFiber
<1>6. /\ \A u \in Worker : toFree[u] # n
      /\ \A e \in Closure : cl[e].fiber_child # n /\ ~(cl[e].fiber = n /\ Live(e) /\ ~cl[e].has_cilk_callee)
  BY <1>1, FreshFiber
<1>7. n # cl[c].fiber
  BY <1>6, StolenFields
<1>. QED  BY <1>1, <1>2, <1>3, <1>4, <1>5, <1>6, <1>7

LEMMA StolenOwners ==
  ASSUME FInv, FiberInv, NEW w \in Worker, NEW v \in Worker, NEW c \in Closure, NEW x \in Nat, NEW d \in Nat,
         NEW f \in Frame, Steals(w, v, c, x, d, f)
  PROVE  OwnInv' /\ FiberTyped'
<1>1. PICK n : n = NewFiber
  OBVIOUS
<1>2. PICK u : u = cl[c].fiber
  OBVIOUS
<1>3. /\ Closure' = Closure \union {x, d} /\ d \notin Closure /\ x # d /\ (x = c \/ x \notin Closure)
      /\ cl'[d].fiber = u /\ cl'[d].fiber_child = NULL /\ cl'[x].fiber = n
      /\ x = c => cl'[x].fiber_child = cl[c].fiber_child
      /\ x # c => cl'[x].fiber_child = NULL
      /\ \A e \in Closure \ {x} : cl'[e].fiber = cl[e].fiber /\ cl'[e].fiber_child = cl[e].fiber_child
      /\ u \in Fiber /\ Live(c) /\ ~cl[c].has_cilk_callee
  BY <1>1, <1>2, StolenFields
<1>4. /\ \A e \in Closure : Live(e)' <=> Live(e)
      /\ Live(d)' /\ Live(x)' /\ ~cl'[d].has_cilk_callee /\ ~cl'[x].has_cilk_callee
      /\ x # c => cl'[c].has_cilk_callee
      /\ \A e \in Closure : e # c => cl'[e].has_cilk_callee = cl[e].has_cilk_callee
  BY <1>1, StolenFrom
<1>5. /\ n \in Fiber' /\ n # NULL /\ NULL \notin Fiber' /\ n \notin idle' /\ idle' \subseteq Fiber'
      /\ Fiber \subseteq Fiber' /\ Fiber' \subseteq Fiber \union {n}
      /\ \A y \in Fiber : y # n => (y \in idle' <=> y \in idle)
      /\ n # u
  BY <1>1, <1>2, StolenFrom
<1>6. /\ \A a \in Worker : toFree[a] # n /\ toFree'[a] = toFree[a]
      /\ \A e \in Closure : cl[e].fiber_child # n /\ ~(cl[e].fiber = n /\ Live(e) /\ ~cl[e].has_cilk_callee)
  BY <1>1, StolenFrom
<1>7. OwnInv /\ FiberTyped
  BY DEF FiberInv
<1>8. \A e \in Closure' : cl'[e].fiber \in Fiber' \union {NULL} /\ cl'[e].fiber_child \in Fiber' \union {NULL}
  <2>. TAKE e \in Closure'
  <2>1. CASE e = d
    BY <1>3, <1>5, <2>1
  <2>2. CASE e = x
    <3>1. cl[c].fiber_child \in Fiber \union {NULL}
      BY <1>7 DEF FiberTyped
    <3>. QED  BY <1>3, <1>5, <2>2, <3>1
  <2>3. CASE e \in Closure \ {x}
    BY <1>3, <1>5, <1>7, <2>3 DEF FiberTyped
  <2>. QED  BY <1>3, <2>1, <2>2, <2>3
<1>9. FiberTyped'
  <2>1. \A a \in Worker : toFree'[a] \in Fiber' \union {NULL}
    BY <1>5, <1>6, <1>7 DEF FiberTyped
  <2>. QED  BY <1>5, <1>8, <2>1 DEF FiberTyped
<1>10. ASSUME NEW y \in Fiber, y # n, y # u, NEW k, NEW i  PROVE Owns(k, i, y)' <=> Owns(k, i, y)
  <2>1. y # NULL
    BY <1>5, <1>10
  <2>2. k = "sync" /\ i \in Closure' /\ cl'[i].fiber_child = y <=> k = "sync" /\ i \in Closure /\ cl[i].fiber_child = y
    BY <1>3, <2>1
  <2>3. i \in Closure' /\ cl'[i].fiber = y /\ Live(i)' /\ ~cl'[i].has_cilk_callee
          <=> i \in Closure /\ cl[i].fiber = y /\ Live(i) /\ ~cl[i].has_cilk_callee
    <3>1. CASE i = d
      BY <1>2, <1>3, <1>10, <3>1
    <3>2. CASE i = x
      BY <1>2, <1>3, <1>10, <3>2
    <3>3. CASE i # d /\ i # x /\ i # c
      BY <1>3, <1>4, <3>3
    <3>4. CASE i # x /\ i = c
      BY <1>2, <1>3, <1>10, <3>4
    <3>. QED  BY <3>1, <3>2, <3>3, <3>4
  <2>. QED  BY <1>5, <1>6, <1>10, <2>2, <2>3, OwnsNext DEF Owns
<1>11. \A l, j : Owns(l, j, n)' <=> l = "run" /\ j = x
  <2>1. \A e \in Closure' : cl'[e].fiber_child # n
    BY <1>3, <1>5, <1>6
  <2>2. ASSUME NEW e \in Closure', e # x, cl'[e].fiber = n, Live(e)', ~cl'[e].has_cilk_callee  PROVE FALSE
    <3>1. e \in Closure /\ cl[e].fiber = n /\ Live(e)
      BY <1>3, <1>4, <1>5, <2>2
    <3>2. CASE e = c
      BY <1>2, <1>5, <3>1, <3>2
    <3>3. CASE e # c
      BY <1>4, <1>6, <2>2, <3>1, <3>3
    <3>. QED  BY <3>2, <3>3
  <2>. QED  BY <1>3, <1>4, <1>5, <1>6, <2>1, <2>2, OwnsNext
<1>12. \A l, j : Owns(l, j, u)' <=> l = "run" /\ j = d
  <2>1. Owns("run", c, u)
    BY <1>2, <1>3 DEF Owns
  <2>2. \A l, j : Owns(l, j, u) <=> l = "run" /\ j = c
    BY <1>3, <1>7, <2>1, OwnerIs
  <2>3. u \notin idle /\ \A a \in Worker : toFree[a] # u
    BY <2>2 DEF Owns
  <2>4. \A e \in Closure : cl[e].fiber_child # u /\ (cl[e].fiber = u /\ Live(e) /\ ~cl[e].has_cilk_callee => e = c)
    BY <2>2 DEF Owns
  <2>5. u \notin idle' /\ \A a \in Worker : toFree'[a] # u
    BY <1>3, <1>5, <1>6, <2>3
  <2>6. \A e \in Closure' : cl'[e].fiber_child # u
    BY <1>3, <1>5, <2>4
  <2>7. ASSUME NEW e \in Closure', cl'[e].fiber = u, Live(e)', ~cl'[e].has_cilk_callee  PROVE e = d
    <3>1. CASE e \in Closure
      <4>1. e # x /\ e # c
        BY <1>3, <1>4, <1>5, <2>7
      <4>. QED  BY <1>3, <1>4, <2>4, <2>7, <3>1, <4>1
    <3>2. CASE e \notin Closure
      BY <1>3, <1>5, <2>7, <3>2
    <3>. QED  BY <3>1, <3>2
  <2>. QED  BY <1>3, <1>4, <2>5, <2>6, <2>7, OwnsNext
<1>13. \A y \in Fiber' : \/ y \in Fiber /\ \A k, i : Owns(k, i, y)' <=> Owns(k, i, y)
                         \/ \E k, i : \A l, j : Owns(l, j, y)' <=> l = k /\ j = i
  <2>. TAKE y \in Fiber'
  <2>1. CASE y = n
    BY <1>11, <2>1
  <2>2. CASE y = u
    BY <1>12, <2>2
  <2>3. CASE y # n /\ y # u
    <3>1. y \in Fiber
      BY <1>5, <2>3
    <3>. QED  BY <1>10, <2>3, <3>1
  <2>. QED  BY <2>1, <2>2, <2>3
<1>. QED  BY <1>7, <1>9, <1>13, OwnMoves

-----------------------------------------------------------------------------
(* The closures then: the thief's strays from its home, which is where the    *)
(* child goes on.                                                             *)
LEMMA StolenThief ==
  ASSUME FInv, NEW w \in Worker, NEW v \in Worker, NEW c \in Closure, NEW x \in Nat, NEW d \in Nat,
         NEW f \in Frame, Takes(w, v, c, x, d, f)
  PROVE  /\ BeingStolen(x)' /\ \A e : e # x => (BeingStolen(e)' <=> BeingStolen(e))
         /\ \A e \in Closure \ {x} : Strays(e)' <=> Strays(e)
         /\ Strays(x)' /\ ~Strays(d)'
<1>1. /\ pc[w] = "steal" /\ pc'[w] = "promoted" /\ pc[v] = "user" /\ pc'[v] = "user" /\ t'[w] = x /\ fr' = fr
      /\ \A u \in Worker \ {v, w} : Idles(u)
      /\ cl'[x].frame = f /\ cl'[d].frame = NULL /\ \A e \in Closure : cl'[e].frame = cl[e].frame
  BY DEF Takes
<1>2. BeingStolen(x)'
  BY <1>1 DEF BeingStolen
<1>3. ASSUME NEW e, e # x  PROVE BeingStolen(e)' <=> BeingStolen(e)
  BY <1>1, <1>3 DEF BeingStolen, Idles
<1>4. \A e \in Closure \ {x} : Strays(e)' <=> Strays(e)
  BY <1>1, <1>3, StraysStay
<1>5. Strays(x)' /\ ~Strays(d)'
  <2>1. f # NULL
    BY Kinds
  <2>. QED  BY <1>1, <1>2, <2>1 DEF Strays
<1>. QED  BY <1>2, <1>3, <1>4, <1>5

LEMMA StolenOthers ==
  ASSUME FInv, FiberInv, NEW w \in Worker, NEW v \in Worker, NEW c \in Closure, NEW x \in Nat, NEW d \in Nat,
         NEW f \in Frame, Steals(w, v, c, x, d, f), NEW e \in Closure, e # x
  PROVE  FiberPart(e)'
<1>0. Takes(w, v, c, x, d, f)
  BY DEF Steals
<1>1. /\ fr' = fr /\ cl'[x].frame = f /\ cl[c].status = "RUNNING" /\ ~cl[c].has_cilk_callee
      /\ \A a \in Closure : cl'[a].frame = cl[a].frame /\ cl'[a].call_parent = cl[a].call_parent
      /\ e # c => cl'[e].has_cilk_callee = cl[e].has_cilk_callee /\ cl'[e].status = cl[e].status
      /\ x # c => cl'[c].has_cilk_callee /\ x \notin Closure
  BY <1>0 DEF Takes
<1>2. /\ Live(e)' <=> Live(e)
      /\ Kids(e)' = Kids(e)
  BY <1>0, TakenTree
<1>3. Strays(e)' <=> Strays(e)
  BY <1>0, StolenThief
<1>4. \A a \in Closure \ {x} : /\ cl'[a].fiber = cl[a].fiber /\ cl'[a].fiber_child = cl[a].fiber_child
                               /\ cl'[a].orig_rsp = cl[a].orig_rsp
  <2>1. PICK n : n = NewFiber
    OBVIOUS
  <2>. QED  BY <2>1, StolenFields
<1>5. FiberPart(e) /\ NULL \notin Frame
  BY Kinds DEF FiberInv
<1>6. Live(e)' => /\ Live(e)
                  /\ cl'[e].status = "SUSPENDED" /\ ~cl'[e].has_cilk_callee
                       <=> cl[e].status = "SUSPENDED" /\ ~cl[e].has_cilk_callee
  BY <1>1, <1>2
<1>7. cl[e].frame # NULL => Home(e)' = Home(e)
  BY <1>1 DEF Home
<1>8. Live(e)' /\ cl[e].call_parent # NULL => cl'[cl[e].call_parent].fiber = cl[cl[e].call_parent].fiber
  <2>. SUFFICES ASSUME Live(e), cl[e].call_parent # NULL
                PROVE  cl'[cl[e].call_parent].fiber = cl[cl[e].call_parent].fiber
    BY <1>2
  <2>1. cl[e].call_parent \in Closure /\ cl[cl[e].call_parent].has_cilk_callee
    BY FParts DEF IInv, CallInv, TypedTree
  <2>2. cl[e].call_parent # x
    BY <1>1, <2>1
  <2>. QED  BY <1>4, <2>1, <2>2
<1>9. \A k \in Kids(e) : \A y : Ends(k, y) => Ends(k, y)'
  <2>. TAKE k \in Kids(e)
  <2>. TAKE y
  <2>1. k \in Closure
    BY DEF Kids
  <2>2. CASE k = x
    BY <1>1, <1>5, <2>1, <2>2 DEF Ends, Home
  <2>3. CASE k # x
    BY <1>1, <1>4, <2>1, <2>3 DEF Ends, Home
  <2>. QED  BY <2>2, <2>3
<1>10. /\ cl'[e].frame = cl[e].frame /\ cl'[e].call_parent = cl[e].call_parent /\ cl'[e].fiber = cl[e].fiber
       /\ cl'[e].fiber_child = cl[e].fiber_child /\ cl'[e].orig_rsp = cl[e].orig_rsp
  BY <1>1, <1>4
<1>. QED  BY <1>2, <1>3, <1>5, <1>6, <1>7, <1>8, <1>9, <1>10, FiberStays

LEMMA StolenChild ==
  ASSUME FInv, FiberInv, NEW w \in Worker, NEW v \in Worker, NEW c \in Closure, NEW x \in Nat, NEW d \in Nat,
         NEW f \in Frame, Steals(w, v, c, x, d, f)
  PROVE  FiberPart(d)'
<1>0. Takes(w, v, c, x, d, f)
  BY DEF Steals
<1>1. cl'[d].frame = NULL /\ cl'[d].call_parent = NULL /\ ~cl'[d].has_cilk_callee /\ cl'[d].status = "RUNNING"
  BY <1>0 DEF Takes
<1>2. ~Strays(d)'
  BY <1>0, StolenThief
<1>3. PICK n : n = NewFiber
  OBVIOUS
<1>4. cl'[d].fiber \in Fiber /\ cl'[d].fiber_child = NULL /\ cl'[d].orig_rsp = NULL
  BY <1>3, StolenFields
<1>5. NULL \notin Fiber
  BY WorkerAssumption DEF Fiber
<1>. QED  BY <1>1, <1>2, <1>4, <1>5 DEF FiberPart

LEMMA StolenParent ==
  ASSUME FInv, FiberInv, NEW w \in Worker, NEW v \in Worker, NEW c \in Closure, NEW x \in Nat, NEW d \in Nat,
         NEW f \in Frame, Steals(w, v, c, x, d, f)
  PROVE  FiberPart(x)'
<1>0. Takes(w, v, c, x, d, f) /\ TakenSites(c, x, d, f)
  BY DEF Steals
<1>1. PICK n, u, h : n = NewFiber /\ u = cl[c].fiber /\ h = fr[f].home
  OBVIOUS
<1>2. /\ fr' = fr /\ cl'[x].frame = f /\ ~cl[c].has_cilk_callee
      /\ \A a \in Closure : cl'[a].frame = cl[a].frame /\ cl'[a].call_parent = cl[a].call_parent
      /\ cl'[x].status = "RUNNING" /\ ~cl'[x].has_cilk_callee
      /\ cl'[d].frame = NULL /\ \A e \in Closure : e < d
      /\ x # c => cl'[x].call_parent = c
  BY <1>0 DEF Takes, TakenSites
<1>3. /\ Kids(d)' = {} /\ (x = c => Kids(x)' = Kids(c) \union {d})
      /\ x # c => Kids(x)' = {d}
  BY <1>0, TakenTree
<1>4. Strays(x)'
  BY <1>0, StolenThief
<1>5. /\ Closure' = Closure \union {x, d} /\ d \notin Closure /\ x # d /\ (x = c \/ x \notin Closure)
      /\ cl'[d].fiber = u /\ cl'[x].fiber = n
      /\ x = c => /\ cl'[x].fiber_child = cl[c].fiber_child
                  /\ cl'[x].orig_rsp = IF cl[c].orig_rsp = NULL THEN u ELSE cl[c].orig_rsp
      /\ x # c => cl'[x].fiber_child = NULL /\ cl'[x].orig_rsp = u
      /\ \A e \in Closure \ {x} : cl'[e].fiber = cl[e].fiber
      /\ u \in Fiber /\ Live(c) /\ HomesIn(fr, u, f)
  BY <1>1, StolenFields
<1>6. n # NULL /\ NULL \notin Fiber /\ NULL \notin Frame /\ FiberPart(c) /\ NULL \notin Closure
  <2>1. n # NULL
    BY <1>1, StolenFrom
  <2>. QED  BY <2>1, Kinds, WorkerAssumption, FParts DEF FiberInv, Fiber
<1>7. Home(x)' = h /\ Ends(d, h)' <=> u = h
  BY <1>1, <1>2, <1>5 DEF Home, Ends
<1>8. x = c => cl[c].frame = f /\ Home(c) = h
  BY <1>1, <1>2 DEF Home
<1>9. x # c => ~fr[f].stolen /\ u = h
  BY <1>0, <1>1, <1>5, TakenFrame, HomesTop
<1>10. x = c => /\ Strays(c) => cl[c].orig_rsp = h
                /\ ~Strays(c) => cl[c].orig_rsp = NULL /\ u = h /\ Kids(c) = {} /\ cl[c].fiber_child = NULL
  <2>. SUFFICES ASSUME x = c
                PROVE  /\ Strays(c) => cl[c].orig_rsp = h
                       /\ ~Strays(c) => cl[c].orig_rsp = NULL /\ u = h /\ Kids(c) = {} /\ cl[c].fiber_child = NULL
    OBVIOUS
  <2>1. ~Strays(c) => Kids(c) = {}
    BY <1>6, <1>8, FParts DEF FInv, KidsInv, Strays
  <2>2. ~Strays(c) => cl[c].orig_rsp = NULL /\ u = h /\ cl[c].fiber_child = NULL
    BY <1>1, <1>5, <1>6, <1>8 DEF FiberPart
  <2>3. Strays(c) => cl[c].orig_rsp = h
    BY <1>6, <1>8 DEF FiberPart
  <2>. QED  BY <2>1, <2>2, <2>3
<1>11. cl'[x].orig_rsp = h /\ h # NULL
  <2>1. CASE x # c
    BY <1>5, <1>6, <1>9, <2>1
  <2>2. CASE x = c /\ Strays(c)
    BY <1>5, <1>6, <1>10, <2>2 DEF FiberPart
  <2>3. CASE x = c /\ ~Strays(c)
    BY <1>5, <1>6, <1>10, <2>3
  <2>. QED  BY <2>1, <2>2, <2>3
<1>12. cl'[x].fiber_child # NULL => cl'[x].fiber_child = h
  BY <1>5, <1>6, <1>8 DEF FiberPart
<1>13. ASSUME cl'[x].fiber_child = NULL  PROVE \E k \in Kids(x)' : (\A a \in Kids(x)' : k <= a) /\ Ends(k, h)'
  <2>1. CASE x # c
    BY <1>3, <1>7, <1>9, <2>1
  <2>2. CASE x = c /\ ~Strays(c)
    BY <1>3, <1>7, <1>10, <2>2
  <2>3. ASSUME x = c, Strays(c)
        PROVE  \E k \in Kids(x)' : (\A a \in Kids(x)' : k <= a) /\ Ends(k, h)'
    <3>1. PICK k \in Kids(c) : (\A a \in Kids(c) : k <= a) /\ Ends(k, h)
      <4>1. cl[c].fiber_child = NULL
        BY <1>5, <1>13, <2>3
      <4>. QED  BY <1>6, <1>8, <2>3, <4>1 DEF FiberPart
    <3>2. k \in Closure /\ k < d /\ k \in Nat
      BY <1>2, FParts DEF Kids
    <3>3. k <= d
      BY <3>2
    <3>4. Ends(k, h)'
      <4>1. CASE k = x
        BY <1>2, <1>6, <1>8, <2>3, <3>1, <4>1 DEF Ends, Home
      <4>2. CASE k # x
        BY <1>2, <1>5, <3>1, <3>2, <4>2 DEF Ends, Home
      <4>. QED  BY <4>1, <4>2
    <3>. QED  BY <1>3, <2>3, <3>1, <3>3, <3>4
  <2>. QED  BY <2>1, <2>2, <2>3
<1>14. cl'[x].call_parent # NULL => cl'[cl'[x].call_parent].fiber = h
  <2>1. CASE x # c
    BY <1>1, <1>2, <1>5, <1>9, <2>1
  <2>2. ASSUME x = c, cl[c].call_parent # NULL  PROVE cl'[cl[c].call_parent].fiber = h
    <3>1. cl[c].call_parent \in Closure /\ cl[cl[c].call_parent].has_cilk_callee
      BY <1>5, <2>2, FParts DEF IInv, CallInv, TypedTree
    <3>2. cl[c].call_parent # c
      BY <1>2, <3>1
    <3>. QED  BY <1>5, <1>6, <1>8, <2>2, <3>1, <3>2 DEF FiberPart
  <2>. QED  BY <1>2, <2>1, <2>2
<1>15. FiberPart(x)' <=>
        /\ Live(x)' => (cl'[x].fiber = NULL <=> cl'[x].status = "SUSPENDED" /\ ~cl'[x].has_cilk_callee)
        /\ cl'[x].orig_rsp # NULL <=> Strays(x)'
        /\ Strays(x)' => cl'[x].orig_rsp = Home(x)'
        /\ cl'[x].fiber_child # NULL => Strays(x)' /\ cl'[x].fiber_child = Home(x)'
        /\ Strays(x)' /\ cl'[x].fiber_child = NULL =>
             \E k \in Kids(x)' : (\A a \in Kids(x)' : k <= a) /\ Ends(k, Home(x))'
        /\ Live(x)' /\ cl'[x].frame # NULL /\ ~Strays(x)' => cl'[x].fiber = Home(x)'
        /\ Live(x)' /\ cl'[x].call_parent # NULL =>
             cl'[x].frame # NULL /\ cl'[cl'[x].call_parent].fiber = Home(x)'
  BY DEF FiberPart
<1>16. Home(x)' = h
  BY <1>1, <1>2 DEF Home
<1>17. \A k : Ends(k, h)' => Ends(k, Home(x))'
  BY <1>16 DEF Ends
<1>18. cl'[x].fiber_child = NULL => \E k \in Kids(x)' : (\A a \in Kids(x)' : k <= a) /\ Ends(k, Home(x))'
  BY <1>13, <1>17
<1>. QED  BY <1>2, <1>4, <1>5, <1>6, <1>11, <1>12, <1>14, <1>15, <1>16, <1>18

-----------------------------------------------------------------------------
(* The workers then: the victim is still on the fiber it is on, and what is   *)
(* stolen from it was called on that one.                                     *)
LEMMA StolenWorkers ==
  ASSUME FInv, FiberInv, NEW w \in Worker, NEW v \in Worker, NEW c \in Closure, NEW x \in Nat, NEW d \in Nat,
         NEW f \in Frame, Steals(w, v, c, x, d, f), NEW a \in Worker
  PROVE  WorkerFibers(a)'
<1>0. Takes(w, v, c, x, d, f) /\ on' = on
  BY DEF Steals
<1>1. /\ fr' = fr /\ good' = good /\ pc[w] = "steal" /\ pc'[w] = "promoted" /\ pc[v] = "user" /\ pc'[v] = "user"
      /\ v # w /\ t'[w] = x /\ cl'[x].frame = f /\ Hand(v) = c /\ Hand(v)' = d
      /\ ltq[v] # <<>> /\ ltq'[v] = Tail(ltq[v])
      /\ \A b \in Worker \ {v, w} : Idles(b) /\ Hand(b)' = Hand(b) /\ Hand(b) \notin {c, x, d}
      /\ \A e \in Closure : cl'[e].frame = cl[e].frame /\ cl'[e].call_parent = cl[e].call_parent
      /\ x # c => cl'[x].call_parent = c
      /\ ~cl[c].has_cilk_callee
  BY <1>0 DEF Takes
<1>2. PICK n, u : n = NewFiber /\ u = cl[c].fiber
  OBVIOUS
<1>3. /\ cl'[d].fiber = u /\ \A e \in Closure \ {x} : cl'[e].fiber = cl[e].fiber
      /\ x = c \/ x \notin Closure
      /\ HomesIn(fr, u, f)
  BY <1>2, StolenFields
<1>4. good[w] = FALSE /\ good[v] = FALSE
  BY <1>1, NotGood
<1>5. WorkerFibers(w)'
  <2>1. ~fr[f].stolen => x # c
    BY <1>0, TakenFrame
  <2>2. x # c => cl'[c].fiber = u
    BY <1>2, <1>3
  <2>3. Thief(w)' /\ ~fr'[cl'[t'[w]].frame].stolen =>
              HomesIn(fr', cl'[cl'[t'[w]].call_parent].fiber, cl'[t'[w]].frame)
    BY <1>1, <1>3, <2>1, <2>2
  <2>4. WorkerFibers(w)' <=>
         /\ pc'[w] \in {"user", "sync"} => \A h \in Held(w)' : HomesIn(fr', cl'[Hand(w)'].fiber, h)
         /\ pc'[w] = "user" => \A h \in Range(ltq'[w]) : fr'[h].sp = cl'[Hand(w)'].fiber
         /\ Thief(w)' /\ ~fr'[cl'[t'[w]].frame].stolen =>
              HomesIn(fr', cl'[cl'[t'[w]].call_parent].fiber, cl'[t'[w]].frame)
         /\ pc'[w] \in OnFiber => on'[w] = cl'[Hand(w)'].fiber
         /\ good'[w] => fr'[cl'[t'[w]].frame].sp = cl'[t'[w]].fiber
    BY DEF WorkerFibers, OnFiber
  <2>. QED  BY <1>1, <1>4, <2>3, <2>4 DEF OnFiber
<1>6. WorkerFibers(v)'
  <2>1. WorkerFibers(v)
    BY DEF FiberInv
  <2>2. Held(v)' \subseteq Held(v)
    BY <1>0, TakenTips
  <2>3. Range(ltq'[v]) \subseteq Range(ltq[v])
    <3>1. ltq[v] \in Seq(Frame)
      BY FParts DEF Typed, TypedRun
    <3>2. PICK s \in Seq(Frame), r \in Seq(Frame) : s = ltq[v] /\ r = Tail(s)
      BY <1>1, <3>1, HeadTailProperties
    <3>3. Len(r) = Len(s) - 1 /\ \A i \in 1..Len(r) : r[i] = s[i + 1]
      BY <1>1, <3>2, HeadTailProperties
    <3>4. \A i \in 1..Len(r) : i + 1 \in 1..Len(s)
      BY <3>2, <3>3
    <3>. QED  BY <1>1, <3>2, <3>3, <3>4 DEF Range
  <2>4. /\ \A h \in Held(v)' : HomesIn(fr', cl'[Hand(v)'].fiber, h)
        /\ \A h \in Range(ltq'[v]) : fr'[h].sp = cl'[Hand(v)'].fiber
        /\ on'[v] = cl'[Hand(v)'].fiber
    BY <1>0, <1>1, <1>2, <1>3, <2>1, <2>2, <2>3 DEF WorkerFibers, OnFiber
  <2>5. ~Thief(v)' /\ ~good'[v]
    BY <1>1, <1>4 DEF Thief
  <2>6. WorkerFibers(v)' <=>
         /\ pc'[v] \in {"user", "sync"} => \A h \in Held(v)' : HomesIn(fr', cl'[Hand(v)'].fiber, h)
         /\ pc'[v] = "user" => \A h \in Range(ltq'[v]) : fr'[h].sp = cl'[Hand(v)'].fiber
         /\ Thief(v)' /\ ~fr'[cl'[t'[v]].frame].stolen =>
              HomesIn(fr', cl'[cl'[t'[v]].call_parent].fiber, cl'[t'[v]].frame)
         /\ pc'[v] \in OnFiber => on'[v] = cl'[Hand(v)'].fiber
         /\ good'[v] => fr'[cl'[t'[v]].frame].sp = cl'[t'[v]].fiber
    BY DEF WorkerFibers, OnFiber
  <2>. QED  BY <2>4, <2>5, <2>6
<1>7. ASSUME a # v, a # w  PROVE WorkerFibers(a)'
  <2>1. Idles(a) /\ Hand(a)' = Hand(a) /\ Hand(a) \notin {c, x, d} /\ WorkerFibers(a) /\ on'[a] = on[a]
    BY <1>0, <1>1, <1>7 DEF FiberInv
  <2>2. HomesStay /\ \A h \in Frame : fr'[h].sp = fr[h].sp
    BY <1>1 DEF HomesStay
  <2>3. \A e \in Closure : cl'[e].fiber = cl[e].fiber \/ (~cl[e].has_cilk_callee /\ Hand(a) # e)
    BY <1>1, <1>3, <2>1
  <2>4. Hand(a) # NULL => /\ cl'[Hand(a)].frame = cl[Hand(a)].frame
                          /\ cl'[Hand(a)].call_parent = cl[Hand(a)].call_parent
    <3>1. Hand(a) \in Closure \union {NULL}
      BY FParts, HandIs
    <3>. QED  BY <1>1, <3>1
  <2>. QED  BY <2>1, <2>2, <2>3, <2>4, OthersFibers
<1>. QED  BY <1>5, <1>6, <1>7

(* Promotion.                                                                 *)
LEMMA PromoteFibers ==
  ASSUME FInv, FiberInv, PosInv', NEW w \in Worker, NEW v \in Worker, NEW c \in Closure, Promote(w, v, c)
  PROVE  FiberInv'
<1>1. PICK x \in Nat, d \in Nat : \E f \in Frame : Takes(w, v, c, x, d, f) /\ TakenSites(c, x, d, f)
  BY PromoteTakes
<1>2. PICK f \in Frame : Takes(w, v, c, x, d, f) /\ TakenSites(c, x, d, f)
  BY <1>1
<1>3. Steals(w, v, c, x, d, f)
  BY <1>2 DEF Promote, Steals
<1>4. OwnInv' /\ FiberTyped'
  BY <1>3, StolenOwners
<1>5. \A e \in Closure' : FiberPart(e)'
  <2>1. Closure' = Closure \union {x, d}
    BY <1>2 DEF Takes
  <2>2. \A e \in Closure : e # x => FiberPart(e)'
    BY <1>3, StolenOthers
  <2>3. FiberPart(d)'
    BY <1>3, StolenChild
  <2>4. FiberPart(x)'
    BY <1>3, StolenParent
  <2>. QED  BY <2>1, <2>2, <2>3, <2>4
<1>6. \A a \in Worker : WorkerFibers(a)'
  BY <1>3, StolenWorkers
<1>. QED  BY <1>4, <1>5, <1>6, FiberNext

-----------------------------------------------------------------------------
(* The frames that get closures were called on the fiber of the closure that  *)
(* waits for them.                                                            *)
LEMMA ClimbsHome ==
  ASSUME FInv, FiberInv, NEW w \in Worker, NEW y \in Closure, NEW o \in Closure, NEW f \in Frame, NEW n \in Nat,
         NEW L, NEW G, Finishes(w, y, o, f, n, L, G), NEW u, u = cl[o].fiber
  PROVE  /\ u \in Fiber /\ u # NULL
         /\ \A i \in 0..n + 1 : i # 0 \/ cl[o].frame = NULL => fr[G[i]].home = u
<1>1. /\ pc[w] = "finish" /\ t[w] = y /\ cl[y].frame = f /\ cl[y].call_parent = o /\ ~fr[f].stolen
      /\ cl[o].status = "SUSPENDED" /\ cl[o].has_cilk_callee /\ Climbs(o, f, n, G)
  BY DEF Finishes
<1>2. WorkerFibers(w) /\ FiberPart(o) /\ FiberTyped /\ NULL \notin Fiber
  BY WorkerAssumption DEF FiberInv, Fiber
<1>3. u \in Fiber /\ u # NULL
  <2>1. Live(o)
    BY <1>1 DEF Live
  <2>. QED  BY <1>1, <1>2, <2>1 DEF FiberPart, FiberTyped
<1>4. HomesIn(fr, u, f)
  BY <1>1, <1>2 DEF WorkerFibers, Thief
<1>5. ASSUME NEW i \in 0..n + 1, i # 0 \/ cl[o].frame = NULL  PROVE fr[G[i]].home = u
  <2>1. PICK k \in 1..Len(Stacklet[f]) : Stacklet[f][k] = G[i] /\ \A j \in 1..k : ~fr[Stacklet[f][j]].stolen
    BY <1>1, <1>5 DEF Climbs
  <2>. QED  BY <1>4, <2>1 DEF HomesIn, Opens
<1>. QED  BY <1>3, <1>5

(* The closures afterwards.                                                   *)
LEMMA FinishedFibers ==
  ASSUME FInv, FiberInv, NEW w \in Worker, NEW y \in Closure, NEW o \in Closure, NEW f \in Frame, NEW n \in Nat,
         NEW L, NEW G, Finishes(w, y, o, f, n, L, G), FinishedSites(y, o), NEW u, u = cl[o].fiber
  PROVE  /\ Closure \subseteq Closure' /\ y # o /\ L[0] = o /\ L[n + 1] = y
         /\ \A e \in Closure' : e \in Closure \/ \E i \in 1..n : e = L[i]
         /\ \A i \in 1..n : L[i] \notin Closure /\ L[i] \in Closure'
         /\ \A e \in Closure : /\ cl'[e].fiber = cl[e].fiber /\ cl'[e].fiber_child = cl[e].fiber_child
                               /\ cl'[e].orig_rsp = cl[e].orig_rsp
                               /\ Kids(e)' = Kids(e) /\ (Live(e)' <=> Live(e))
                               /\ cl'[e].has_cilk_callee <=> cl[e].has_cilk_callee
         /\ \A e \in Closure' \ Closure : /\ cl'[e].fiber = u /\ cl'[e].fiber_child = NULL /\ cl'[e].orig_rsp = NULL
                                          /\ cl'[e].has_cilk_callee /\ cl'[e].status = "SUSPENDED"
         /\ \A e \in Closure \ {y, o} : cl'[e] = cl[e]
         /\ cl'[o].frame = G[0] /\ cl'[o].call_parent = cl[o].call_parent
         /\ cl'[o].status = "SUSPENDED" /\ cl[o].status = "SUSPENDED"
         /\ cl'[y].frame = f /\ cl[y].frame = f /\ cl'[y].call_parent = L[n] /\ cl'[y].status = "READY"
         /\ cl[y].status # "SUSPENDED" /\ cl[o].has_cilk_callee /\ ~cl[y].has_cilk_callee
<1>1. /\ cl[y].frame = f /\ cl[o].status = "SUSPENDED" /\ cl[o].has_cilk_callee /\ Linked(y, n, L) /\ y # o
      /\ Hand(w) = y /\ pc[w] = "finish" /\ t[w] = y
      /\ \A e \in Closure \ {y, o} : cl'[e] = cl[e]
  BY DEF Finishes
<1>2. /\ Closure \subseteq Closure' /\ L[0] = o /\ L[n + 1] = y
      /\ \A e \in Closure' : e \in Closure \/ \E i \in 1..n : e = L[i]
      /\ \A i \in 1..n : /\ L[i] \notin Closure /\ cl'[L[i]].status = "SUSPENDED"
                         /\ cl'[L[i]].has_cilk_callee
      /\ cl'[o].frame = G[0] /\ cl'[o].call_parent = cl[o].call_parent /\ cl'[o].status = "SUSPENDED"
      /\ cl'[o].has_cilk_callee
      /\ cl'[y].frame = f /\ cl'[y].status = "READY" /\ ~cl'[y].has_cilk_callee
  BY FinishedClosures
<1>3. \A i \in 1..n + 1 : cl'[L[i]].call_parent = L[i - 1]
  BY FinishedClosures
<1>4. cl'[y].call_parent = L[n]
  <2>1. n + 1 \in 1..n + 1 /\ (n + 1) - 1 = n
    OBVIOUS
  <2>. QED  BY <1>2, <1>3, <2>1
<1>5. \A i \in 1..n : L[i] \in Closure'
  <2>1. \A i \in 1..n : i \in 0..n + 1
    OBVIOUS
  <2>. QED  BY <1>1, <2>1 DEF Linked
<1>6. \A e \in Closure : (Live(e)' <=> Live(e)) /\ Kids(e)' = Kids(e)
  BY FinishedTree
<1>7. \A e \in Closure : /\ cl'[e].fiber = cl[e].fiber /\ cl'[e].fiber_child = cl[e].fiber_child
                         /\ cl'[e].orig_rsp = cl[e].orig_rsp
  BY DEF FinishedSites, KeepsSites, Sites
<1>8. \A e \in Closure' \ Closure : /\ cl'[e].fiber = u /\ cl'[e].fiber_child = NULL /\ cl'[e].orig_rsp = NULL
  BY DEF FinishedSites, Sites
<1>9. \A e \in Closure' \ Closure : cl'[e].has_cilk_callee /\ cl'[e].status = "SUSPENDED"
  BY <1>2
<1>10. cl[y].status # "SUSPENDED" /\ ~cl[y].has_cilk_callee
  <2>1. y # NULL /\ OneHand
    BY FParts DEF IInv
  <2>2. cl[y].status # "SUSPENDED"
    BY <1>1, <2>1 DEF OneHand
  <2>3. ~cl[y].has_cilk_callee
    BY <1>1, ThiefParked DEF Parked
  <2>. QED  BY <2>2, <2>3
<1>11. \A e \in Closure : cl'[e].has_cilk_callee <=> cl[e].has_cilk_callee
  <2>. TAKE e \in Closure
  <2>1. CASE e = y
    BY <1>2, <1>10, <2>1
  <2>2. CASE e = o
    BY <1>1, <1>2, <2>2
  <2>3. CASE e \in Closure \ {y, o}
    BY <1>1, <2>3
  <2>. QED  BY <2>1, <2>2, <2>3
<1>. QED  BY <1>1, <1>2, <1>4, <1>5, <1>6, <1>7, <1>8, <1>9, <1>10, <1>11

(* None of them strays that did not.                                          *)
LEMMA FinishedStrays ==
  ASSUME FInv, NEW w \in Worker, NEW y \in Closure, NEW o \in Closure, NEW f \in Frame, NEW n \in Nat,
         NEW L, NEW G, Finishes(w, y, o, f, n, L, G)
  PROVE  /\ \A e \in Closure : Strays(e)' <=> Strays(e)
         /\ \A e \in Closure' \ Closure : ~Strays(e)'
<1>1. /\ pc[w] = "finish" /\ pc'[w] = "do" /\ t[w] = y /\ t' = t /\ y # o /\ cl[y].frame = f /\ ~fr[f].stolen
      /\ \A v \in Worker \ {w} : Idles(v) /\ Hand(v) \notin {y, o}
      /\ \A g \in Frame : fr'[g].unsynced <=> fr[g].unsynced \/ g = f
      /\ fr'[f].unsynced /\ G[n + 1] = f
      /\ cl[o].frame = G[0] \/ (cl[o].frame = NULL /\ G[0] = Oldest(f) /\ ~fr[G[0]].stolen)
      /\ \A i \in 1..n + 1 : ~fr[G[i]].stolen
      /\ \A i, j \in 0..n + 1 : G[i] = G[j] => i = j
      /\ \A i \in 0..n + 1 : cl'[L[i]].frame = G[i] /\ G[i] \in Frame
  BY DEF Finishes
<1>2. /\ \A e \in Closure' : e \in Closure \/ \E i \in 1..n : e = L[i]
      /\ \A e \in Closure \ {y, o} : cl'[e] = cl[e]
      /\ cl'[o].frame = G[0] /\ cl'[y].frame = f
  BY FinishedClosures
<1>3. /\ n + 1 \in 0..n + 1 /\ 0 \in 0..n + 1 /\ 0 # n + 1
      /\ \A i \in 1..n : i \in 0..n + 1 /\ i \in 1..n + 1 /\ i # n + 1
  OBVIOUS
<1>4. \A e : e # y => (BeingStolen(e)' <=> BeingStolen(e))
  BY <1>1 DEF BeingStolen, Idles
<1>5. UnsyncedInv /\ NULL \notin Frame
  BY FParts, Kinds
<1>6. \A e \in Closure \ {y, o} : Strays(e)' <=> Strays(e)
  <2>. TAKE e \in Closure \ {y, o}
  <2>1. cl[e].frame # NULL => cl[e].frame \in Frame /\ cl[e].frame # f
    <3>1. f \in Range(Stacklet[f])
      BY StackletOf
    <3>2. cl[e].frame \in Range(Stacklet[f]) => fr[cl[e].frame].stolen
      BY FinishedApart
    <3>. QED  BY <1>1, <3>1, <3>2, ClosureEntered
  <2>2. cl[e].frame # NULL => (fr'[cl[e].frame].unsynced <=> fr[cl[e].frame].unsynced)
    BY <1>1, <2>1
  <2>3. BeingStolen(e)' <=> BeingStolen(e)
    BY <1>4
  <2>. QED  BY <1>2, <2>2, <2>3, StraysStay
<1>7. Strays(y)' /\ Strays(y)
  <2>1. BeingStolen(y)
    BY <1>1 DEF BeingStolen
  <2>. QED  BY <1>1, <1>2, <1>5, <2>1 DEF Strays
<1>8. G[0] # f /\ G[0] \in Frame /\ (fr'[G[0]].unsynced <=> fr[G[0]].unsynced)
  BY <1>1, <1>3
<1>9. Strays(o)' <=> Strays(o)
  <2>1. BeingStolen(o)' <=> BeingStolen(o)
    BY <1>1, <1>4
  <2>2. CASE cl[o].frame = G[0]
    BY <1>2, <1>8, <2>1, <2>2, StraysStay
  <2>3. CASE cl[o].frame = NULL /\ ~fr[G[0]].stolen
    <3>1. ~fr'[G[0]].unsynced
      BY <1>5, <1>8, <2>3 DEF UnsyncedInv
    <3>2. ~BeingStolen(o)
      <4>1. ASSUME NEW v \in Worker, pc[v] \in {"promoted", "finish"}, t[v] = o  PROVE FALSE
        <5>1. Hand(v) = o
          BY <4>1, ThiefParked
        <5>. QED  BY <1>1, <4>1, <5>1
      <4>. QED  BY <4>1 DEF BeingStolen
    <3>. QED  BY <1>2, <2>1, <2>3, <3>1, <3>2 DEF Strays
  <2>. QED  BY <1>1, <2>2, <2>3
<1>10. ASSUME NEW e \in Closure' \ Closure  PROVE ~Strays(e)'
  <2>1. PICK i \in 1..n : e = L[i]
    BY <1>2
  <2>2. cl'[e].frame = G[i] /\ G[i] \in Frame /\ ~fr[G[i]].stolen /\ G[i] # f
    BY <1>1, <1>3, <2>1
  <2>3. ~fr'[G[i]].unsynced
    BY <1>1, <1>5, <2>2 DEF UnsyncedInv
  <2>4. ~BeingStolen(e)'
    <3>1. \A v \in Worker : t[v] \in Closure \union {NULL}
      BY FParts DEF Typed, TypedRuntime
    <3>2. e # NULL
      <4>1. NULL \notin Closure'
        BY FinishedClosures
      <4>. QED  BY <4>1
    <3>. QED  BY <1>1, <3>1, <3>2 DEF BeingStolen
  <2>. QED  BY <2>2, <2>3, <2>4 DEF Strays
<1>. QED  BY <1>6, <1>7, <1>9, <1>10

-----------------------------------------------------------------------------
(* What ends at a home ends there still: the frame that the waiting closure   *)
(* gets was called on the fiber it has.                                       *)
LEMMA FinishedEnds ==
  ASSUME FInv, FiberInv, NEW w \in Worker, NEW y \in Closure, NEW o \in Closure, NEW f \in Frame, NEW n \in Nat,
         NEW L, NEW G, Finishes(w, y, o, f, n, L, G), FinishedSites(y, o)
  PROVE  /\ \A e \in Closure : cl[e].frame # NULL => cl'[e].frame = cl[e].frame /\ Home(e)' = Home(e)
         /\ cl[o].frame = NULL => cl'[o].frame # NULL /\ Home(o)' = cl[o].fiber
         /\ \A k \in Closure : \A x : Ends(k, x) => Ends(k, x)'
         /\ \A i \in 1..n : Home(L[i])' = cl[o].fiber /\ cl'[L[i]].frame # NULL
         /\ Home(y)' = cl[o].fiber /\ HomesStay
<1>0. PICK u : u = cl[o].fiber
  OBVIOUS
<1>1. /\ \A i \in 0..n + 1 : cl'[L[i]].frame = G[i] /\ G[i] \in Frame
      /\ \A g \in Frame : fr[g].stolen => fr'[g].stolen
      /\ G[n + 1] = f
  BY DEF Finishes
<1>2. \A g \in Frame : fr'[g].home = fr[g].home
  BY DEF FinishedSites, SameFibers
<1>3. HomesStay
  BY <1>1, <1>2 DEF HomesStay
<1>4. \A e \in Closure : cl[e].frame # NULL => cl'[e].frame = cl[e].frame
  BY FinishedClosures
<1>5. \A e \in Closure : cl[e].frame # NULL => cl'[e].frame = cl[e].frame /\ Home(e)' = Home(e)
  BY <1>3, <1>4, ClosureEntered DEF Home
<1>6. ASSUME NEW i \in 0..n + 1, i # 0 \/ cl[o].frame = NULL  PROVE fr[G[i]].home = u
  <2>1. \A j \in 0..n + 1 : j # 0 \/ cl[o].frame = NULL => fr[G[j]].home = u
    BY <1>0, ClimbsHome
  <2>. QED  BY <1>6, <2>1
<1>7. /\ cl'[o].frame = G[0] /\ cl'[y].frame = f /\ \A e \in Closure \ {y, o} : cl'[e] = cl[e]
      /\ cl[y].frame = f /\ y # o
  <2>1. cl'[o].frame = G[0] /\ cl'[y].frame = f /\ \A e \in Closure \ {y, o} : cl'[e] = cl[e]
    BY FinishedClosures
  <2>2. cl[y].frame = f /\ y # o
    BY DEF Finishes
  <2>. QED  BY <2>1, <2>2
<1>8. /\ n + 1 \in 0..n + 1 /\ 0 \in 0..n + 1 /\ 0 # n + 1
      /\ \A i \in 1..n : i \in 0..n + 1 /\ i # 0
  OBVIOUS
<1>9. NULL \notin Frame
  BY Kinds
<1>10. cl[o].frame = NULL => cl'[o].frame # NULL /\ Home(o)' = u
  BY <1>1, <1>2, <1>6, <1>7, <1>8, <1>9 DEF Home
<1>11. Home(y)' = u
  <2>1. G[n + 1] \in Frame /\ fr[G[n + 1]].home = u
    BY <1>1, <1>6, <1>8
  <2>. QED  BY <1>1, <1>2, <1>7, <2>1 DEF Home
<1>12. \A i \in 1..n : Home(L[i])' = u /\ cl'[L[i]].frame # NULL
  BY <1>1, <1>2, <1>6, <1>8, <1>9 DEF Home
<1>13. ASSUME NEW k \in Closure, NEW x, Ends(k, x)  PROVE Ends(k, x)'
  <2>1. CASE cl[k].frame # NULL
    BY <1>5, <1>13, <2>1 DEF Ends
  <2>2. CASE cl[k].frame = NULL /\ k = o
    BY <1>0, <1>10, <1>13, <2>2 DEF Ends
  <2>3. CASE cl[k].frame = NULL /\ k # o
    <3>1. cl'[k] = cl[k]
      BY <1>7, <1>9, <2>3
    <3>. QED  BY <1>13, <2>3, <3>1 DEF Ends
  <2>. QED  BY <2>1, <2>2, <2>3
<1>. QED  BY <1>0, <1>3, <1>5, <1>10, <1>11, <1>12, <1>13

LEMMA FinishedParts ==
  ASSUME FInv, FiberInv, NEW w \in Worker, NEW y \in Closure, NEW o \in Closure, NEW f \in Frame, NEW n \in Nat,
         NEW L, NEW G, Finishes(w, y, o, f, n, L, G), FinishedSites(y, o)
  PROVE  \A e \in Closure' : FiberPart(e)'
<1>0. PICK u : u = cl[o].fiber
  OBVIOUS
<1>1. u \in Fiber /\ u # NULL
  BY <1>0, ClimbsHome
<1>2. /\ Closure \subseteq Closure' /\ y # o /\ L[0] = o
      /\ \A e \in Closure' : e \in Closure \/ \E i \in 1..n : e = L[i]
      /\ \A i \in 1..n : L[i] \notin Closure /\ L[i] \in Closure'
      /\ \A e \in Closure \ {y, o} : cl'[e] = cl[e]
      /\ cl'[o].call_parent = cl[o].call_parent
      /\ cl'[o].status = "SUSPENDED" /\ cl[o].status = "SUSPENDED"
      /\ cl'[y].call_parent = L[n] /\ cl'[y].status = "READY" /\ cl[y].status # "SUSPENDED"
      /\ cl[o].has_cilk_callee
  BY <1>0, FinishedFibers
<1>3. \A e \in Closure : /\ cl'[e].fiber = cl[e].fiber /\ cl'[e].fiber_child = cl[e].fiber_child
                         /\ cl'[e].orig_rsp = cl[e].orig_rsp
                         /\ Kids(e)' = Kids(e) /\ (Live(e)' <=> Live(e))
                         /\ cl'[e].has_cilk_callee <=> cl[e].has_cilk_callee
  BY <1>0, FinishedFibers
<1>4. \A e \in Closure' \ Closure : /\ cl'[e].fiber = u /\ cl'[e].fiber_child = NULL /\ cl'[e].orig_rsp = NULL
                                    /\ cl'[e].has_cilk_callee /\ cl'[e].status = "SUSPENDED"
  BY <1>0, FinishedFibers
<1>5. (\A e \in Closure : Strays(e)' <=> Strays(e)) /\ \A e \in Closure' \ Closure : ~Strays(e)'
  BY FinishedStrays
<1>6. /\ \A e \in Closure : cl[e].frame # NULL => cl'[e].frame = cl[e].frame /\ Home(e)' = Home(e)
      /\ cl[o].frame = NULL => cl'[o].frame # NULL /\ Home(o)' = u
      /\ \A k \in Closure : \A x : Ends(k, x) => Ends(k, x)'
      /\ \A i \in 1..n : Home(L[i])' = u /\ cl'[L[i]].frame # NULL
      /\ Home(y)' = u
  BY <1>0, FinishedEnds
<1>7. \A i \in 0..n : cl'[L[i]].fiber = u
  <2>. TAKE i \in 0..n
  <2>1. CASE i = 0
    BY <1>0, <1>2, <1>3, <2>1
  <2>2. CASE i # 0
    <3>1. i \in 1..n
      BY <2>2
    <3>. QED  BY <1>2, <1>4, <3>1
  <2>. QED  BY <2>1, <2>2
<1>8. /\ \A e \in Closure : FiberPart(e) /\ Kids(e) \subseteq Closure
      /\ \A e \in Closure : cl[e].call_parent # NULL => cl[e].call_parent \in Closure
  BY FParts DEF FiberInv, TypedTree, Kids
<1>9. \A e \in Closure : /\ cl[e].call_parent # NULL => cl'[cl[e].call_parent].fiber = cl[cl[e].call_parent].fiber
                         /\ \A k \in Kids(e) : \A x : Ends(k, x) => Ends(k, x)'
  BY <1>3, <1>6, <1>8
<1>10. ASSUME NEW e \in Closure, e # y, e = o => cl[e].frame # NULL  PROVE FiberPart(e)'
  <2>1. cl'[e].frame = cl[e].frame /\ cl'[e].call_parent = cl[e].call_parent
    BY <1>2, <1>6, <1>10
  <2>2. cl[e].frame # NULL => Home(e)' = Home(e)
    BY <1>6
  <2>3. Live(e)' => /\ Live(e)
                    /\ cl'[e].status = "SUSPENDED" /\ ~cl'[e].has_cilk_callee
                         <=> cl[e].status = "SUSPENDED" /\ ~cl[e].has_cilk_callee
    BY <1>2, <1>3, <1>10
  <2>4. FiberPart(e) /\ (Strays(e)' <=> Strays(e))
    BY <1>5, <1>8
  <2>. QED  BY <1>3, <1>9, <2>1, <2>2, <2>3, <2>4, FiberStays
<1>11. ASSUME cl[o].frame = NULL  PROVE FiberPart(o)'
  <2>1. FiberPart(o) /\ ~Strays(o) /\ Live(o)
    BY <1>2, <1>8, <1>11 DEF Strays, Live
  <2>2. cl[o].call_parent = NULL /\ cl[o].orig_rsp = NULL /\ cl[o].fiber_child = NULL
    BY <1>11, <2>1 DEF FiberPart
  <2>3. ~Strays(o)' /\ cl'[o].orig_rsp = NULL /\ cl'[o].fiber_child = NULL /\ cl'[o].call_parent = NULL
        /\ cl'[o].fiber = u /\ Home(o)' = u /\ cl'[o].has_cilk_callee
    BY <1>0, <1>2, <1>3, <1>5, <1>6, <1>11, <2>1, <2>2
  <2>4. FiberPart(o)' <=>
        /\ Live(o)' => (cl'[o].fiber = NULL <=> cl'[o].status = "SUSPENDED" /\ ~cl'[o].has_cilk_callee)
        /\ cl'[o].orig_rsp # NULL <=> Strays(o)'
        /\ Strays(o)' => cl'[o].orig_rsp = Home(o)'
        /\ cl'[o].fiber_child # NULL => Strays(o)' /\ cl'[o].fiber_child = Home(o)'
        /\ Strays(o)' /\ cl'[o].fiber_child = NULL =>
             \E k \in Kids(o)' : (\A a \in Kids(o)' : k <= a) /\ Ends(k, Home(o))'
        /\ Live(o)' /\ cl'[o].frame # NULL /\ ~Strays(o)' => cl'[o].fiber = Home(o)'
        /\ Live(o)' /\ cl'[o].call_parent # NULL =>
             cl'[o].frame # NULL /\ cl'[cl'[o].call_parent].fiber = Home(o)'
    BY DEF FiberPart
  <2>. QED  BY <1>1, <2>3, <2>4
<1>12. FiberPart(y)'
  <2>1. FiberPart(y) /\ (Strays(y)' <=> Strays(y)) /\ cl[y].frame # NULL
    <3>1. cl[y].frame = f
      BY DEF Finishes
    <3>. QED  BY <1>5, <1>8, <3>1, Kinds
  <2>2. cl'[y].frame = cl[y].frame /\ Home(y)' = u /\ Home(y) = u
    BY <1>6, <2>1
  <2>3. Live(y)' => cl'[y].fiber # NULL
    BY <1>2, <1>3, <2>1 DEF FiberPart
  <2>4. /\ cl'[y].orig_rsp # NULL <=> Strays(y)'
        /\ Strays(y)' => cl'[y].orig_rsp = u
        /\ cl'[y].fiber_child # NULL => Strays(y)' /\ cl'[y].fiber_child = u
        /\ Live(y)' /\ ~Strays(y)' => cl'[y].fiber = u
    BY <1>3, <2>1, <2>2 DEF FiberPart
  <2>5. ASSUME Strays(y)', cl'[y].fiber_child = NULL
        PROVE  \E k \in Kids(y)' : (\A a \in Kids(y)' : k <= a) /\ Ends(k, Home(y))'
    <3>1. PICK k \in Kids(y) : (\A a \in Kids(y) : k <= a) /\ Ends(k, u)
      BY <1>3, <2>1, <2>2, <2>5 DEF FiberPart
    <3>2. Ends(k, u)'
      BY <1>9, <3>1
    <3>3. Ends(k, Home(y))'
      BY <2>2, <3>2 DEF Ends
    <3>. QED  BY <1>3, <3>1, <3>3
  <2>6. cl'[cl'[y].call_parent].fiber = u
    <3>1. n \in 0..n
      OBVIOUS
    <3>. QED  BY <1>2, <1>7, <3>1
  <2>7. FiberPart(y)' <=>
        /\ Live(y)' => (cl'[y].fiber = NULL <=> cl'[y].status = "SUSPENDED" /\ ~cl'[y].has_cilk_callee)
        /\ cl'[y].orig_rsp # NULL <=> Strays(y)'
        /\ Strays(y)' => cl'[y].orig_rsp = Home(y)'
        /\ cl'[y].fiber_child # NULL => Strays(y)' /\ cl'[y].fiber_child = Home(y)'
        /\ Strays(y)' /\ cl'[y].fiber_child = NULL =>
             \E k \in Kids(y)' : (\A a \in Kids(y)' : k <= a) /\ Ends(k, Home(y))'
        /\ Live(y)' /\ cl'[y].frame # NULL /\ ~Strays(y)' => cl'[y].fiber = Home(y)'
        /\ Live(y)' /\ cl'[y].call_parent # NULL =>
             cl'[y].frame # NULL /\ cl'[cl'[y].call_parent].fiber = Home(y)'
    BY DEF FiberPart
  <2>. QED  BY <1>2, <2>1, <2>2, <2>3, <2>4, <2>5, <2>6, <2>7
<1>13. ASSUME NEW i \in 1..n  PROVE FiberPart(L[i])'
  <2>1. PICK a, b : a = L[i] /\ b = L[i - 1]
    OBVIOUS
  <2>2. /\ a \in Closure' \ Closure /\ cl'[a].fiber = u /\ cl'[a].fiber_child = NULL /\ cl'[a].orig_rsp = NULL
        /\ cl'[a].has_cilk_callee /\ ~Strays(a)' /\ Home(a)' = u /\ cl'[a].frame # NULL
    BY <1>2, <1>4, <1>5, <1>6, <2>1 DEF Home
  <2>3. cl'[a].call_parent = b /\ cl'[b].fiber = u
    <3>1. i \in 1..n + 1 /\ i - 1 \in 0..n
      OBVIOUS
    <3>2. cl'[L[i]].call_parent = L[i - 1]
      BY <3>1, FinishedClosures
    <3>. QED  BY <1>7, <2>1, <3>1, <3>2
  <2>4. FiberPart(a)' <=>
        /\ Live(a)' => (cl'[a].fiber = NULL <=> cl'[a].status = "SUSPENDED" /\ ~cl'[a].has_cilk_callee)
        /\ cl'[a].orig_rsp # NULL <=> Strays(a)'
        /\ Strays(a)' => cl'[a].orig_rsp = Home(a)'
        /\ cl'[a].fiber_child # NULL => Strays(a)' /\ cl'[a].fiber_child = Home(a)'
        /\ Strays(a)' /\ cl'[a].fiber_child = NULL =>
             \E k \in Kids(a)' : (\A d \in Kids(a)' : k <= d) /\ Ends(k, Home(a))'
        /\ Live(a)' /\ cl'[a].frame # NULL /\ ~Strays(a)' => cl'[a].fiber = Home(a)'
        /\ Live(a)' /\ cl'[a].call_parent # NULL =>
             cl'[a].frame # NULL /\ cl'[cl'[a].call_parent].fiber = Home(a)'
    BY DEF FiberPart
  <2>5. FiberPart(a)'
    BY <1>1, <2>2, <2>3, <2>4
  <2>. QED  BY <2>1, <2>5 DEF FiberPart, Strays, Home, Ends
<1>14. ASSUME NEW e \in Closure', e \notin Closure  PROVE FiberPart(e)'
  <2>1. PICK i \in 1..n : e = L[i]
    BY <1>2, <1>14
  <2>. QED  BY <1>13, <2>1
<1>. QED  BY <1>10, <1>11, <1>12, <1>14

-----------------------------------------------------------------------------
(* The thief of a frame without closures lets go of it.                       *)
LEMMA FinishNewFibers ==
  ASSUME FInv, FiberInv, PosInv', NEW w \in Worker, NEW y \in Closure, FinishPromote(w, y),
         ~fr[cl[y].frame].stolen
  PROVE  FiberInv'
<1>1. PICK o \in Closure, f \in Frame, n \in Nat : \E L, G : Finishes(w, y, o, f, n, L, G)
  BY FinishPath
<1>2. PICK L, G : Finishes(w, y, o, f, n, L, G)
  BY <1>1
<1>3. FinishedSites(y, o)
  <2>1. o = cl[y].call_parent
    BY <1>2 DEF Finishes
  <2>. QED  BY <2>1, FParts, NewFrameFinished
<1>4. PICK u : u = cl[o].fiber
  OBVIOUS
<1>5. idle' = idle /\ made' = made /\ toFree' = toFree /\ on' = on
  BY DEF FinishPromote, fiberVars
<1>6. \A e \in Closure' : FiberPart(e)'
  BY <1>2, <1>3, FinishedParts
<1>7. u \in Fiber /\ FiberTyped /\ OwnInv
  <2>1. u \in Fiber
    BY <1>2, <1>4, ClimbsHome
  <2>. QED  BY <2>1 DEF FiberInv
<1>8. /\ Closure \subseteq Closure'
      /\ \A e \in Closure : /\ cl'[e].fiber = cl[e].fiber /\ cl'[e].fiber_child = cl[e].fiber_child
                            /\ Live(e)' <=> Live(e)
                            /\ cl'[e].has_cilk_callee <=> cl[e].has_cilk_callee
      /\ \A e \in Closure \ {y, o} : cl'[e] = cl[e]
  BY <1>2, <1>3, <1>4, FinishedFibers
<1>9. \A e \in Closure' \ Closure : cl'[e].fiber = u /\ cl'[e].fiber_child = NULL /\ cl'[e].has_cilk_callee
  BY <1>2, <1>3, <1>4, FinishedFibers
<1>10. FiberTyped' /\ OwnInv'
  <2>1. \A e \in Closure : /\ cl'[e].fiber = cl[e].fiber /\ cl'[e].fiber_child = cl[e].fiber_child
                           /\ Live(e)' /\ ~cl'[e].has_cilk_callee <=> Live(e) /\ ~cl[e].has_cilk_callee
    BY <1>8
  <2>2. Typed
    BY FParts
  <2>. QED  BY <1>5, <1>7, <1>8, <1>9, <2>1, <2>2, OwnStays
<1>11. HomesStay
  BY <1>2, <1>3, FinishedEnds
<1>12. /\ pc[w] = "finish" /\ pc'[w] = "do" /\ good' = good
       /\ \A v \in Worker : Hand(v)' = Hand(v)
       /\ \A v \in Worker \ {w} : Idles(v) /\ Hand(v) \notin {y, o}
  BY <1>2 DEF Finishes
<1>13. WorkerFibers(w)'
  <2>1. good'[w] = FALSE
    BY <1>12, NotGood
  <2>. QED  BY <1>12, <2>1, RuntimeFibers DEF Thief, OnFiber
<1>14. ASSUME NEW v \in Worker \ {w}  PROVE WorkerFibers(v)'
  <2>1. Hand(v) \in Closure \union {NULL} /\ NULL \notin Closure
    BY FParts, HandIs
  <2>2. Hand(v) # NULL => /\ cl'[Hand(v)].frame = cl[Hand(v)].frame
                          /\ cl'[Hand(v)].call_parent = cl[Hand(v)].call_parent
    BY <1>8, <1>12, <2>1
  <2>3. \A h \in Frame : fr'[h].sp = fr[h].sp
    BY <1>3 DEF FinishedSites, SameFibers
  <2>4. WorkerFibers(v)
    BY DEF FiberInv
  <2>. QED  BY <1>5, <1>8, <1>11, <1>12, <2>2, <2>3, <2>4, OthersFibers
<1>. QED  BY <1>6, <1>10, <1>13, <1>14, FiberNext

(* Initially there is one fiber, which the root closure will run on.          *)
LEMMA InitFibers ==
  ASSUME Init
  PROVE  FiberInv
<1>1. /\ Closure = {1} /\ Sites(cl[1], NULL, NULL, NULL, 1, NULL, NULL)
      /\ cl[1].frame = Root /\ cl[1].spawn_parent = NULL /\ cl[1].call_parent = NULL
      /\ cl[1].status = "READY" /\ ~cl[1].has_cilk_callee
  BY InitTree
<1>2. /\ made = 1 /\ idle = {} /\ (\A w \in Worker : toFree[w] = NULL /\ good[w] = FALSE /\ pc[w] = "loop")
      /\ t[Boss] = 1
  BY WorkerAssumption DEF Init
<1>3. fr[Root].home = 1 /\ fr[Root].unsynced = FALSE
  <2>1. /\ NewFrame(NULL, 1).home = 1 /\ NewFrame(NULL, 1).unsynced = FALSE
        /\ [NewFrame(NULL, 1) EXCEPT !.stolen = TRUE].home = NewFrame(NULL, 1).home
        /\ [NewFrame(NULL, 1) EXCEPT !.stolen = TRUE].unsynced = NewFrame(NULL, 1).unsynced
    BY DEF NewFrame
  <2>2. fr[Root] = [NewFrame(NULL, 1) EXCEPT !.stolen = TRUE]
    BY Kinds DEF Init
  <2>. QED  BY <2>1, <2>2
<1>4. Fiber = {1} /\ NULL # 1
  BY <1>2, WorkerAssumption DEF Fiber
<1>5. cl[1].fiber = 1 /\ cl[1].fiber_child = NULL /\ cl[1].orig_rsp = NULL
  BY <1>1 DEF Sites
<1>6. FiberTyped
  BY <1>1, <1>2, <1>4, <1>5 DEF FiberTyped
<1>7. Live(1)
  <2>1. Hand(Boss) = 1
    BY <1>2, <1>4 DEF Hand
  <2>. QED  BY <2>1, WorkerAssumption DEF Live
<1>8. OwnInv
  <2>1. \A l, j : Owns(l, j, 1) <=> l = "run" /\ j = 1
    BY <1>1, <1>2, <1>4, <1>5, <1>7 DEF Owns
  <2>. QED  BY <1>4, <2>1 DEF OwnInv
<1>9. FiberPart(1)
  <2>1. ~Strays(1)
    BY <1>1, <1>2, <1>3 DEF Strays, BeingStolen
  <2>2. Home(1) = 1
    BY <1>1, <1>3 DEF Home
  <2>. QED  BY <1>1, <1>4, <1>5, <2>1, <2>2 DEF FiberPart
<1>10. \A w \in Worker : WorkerFibers(w)
  BY <1>2 DEF WorkerFibers, Thief, OnFiber
<1>. QED  BY <1>1, <1>6, <1>8, <1>9, <1>10, InitPos DEF FiberInv

-----------------------------------------------------------------------------
(* The fibers are as they should be all along.                                *)
LEMMA StillFibers ==
  ASSUME FInv, FiberInv, PosInv', UNCHANGED vars
  PROVE  FiberInv'
<1>1. /\ cl' = cl /\ fr' = fr /\ pc' = pc /\ t' = t /\ deque' = deque /\ ltq' = ltq /\ cur' = cur /\ on' = on
      /\ idle' = idle /\ made' = made /\ toFree' = toFree /\ good' = good
  BY DEF vars, treeVars, runVars, fiberVars
<1>2. QuietTree /\ HomesStay /\ \A v \in Worker : Idles(v) /\ Hand(v)' = Hand(v)
  <2>1. \A v \in Worker : Idles(v) /\ Hand(v)' = Hand(v)
    BY <1>1 DEF Idles, Hand
  <2>2. HomesStay
    BY <1>1 DEF HomesStay
  <2>. QED  BY <1>1, <2>1, <2>2, NothingWritten
<1>3. \A c \in Closure : Strays(c)' <=> Strays(c)
  BY <1>1 DEF Strays, BeingStolen
<1>4. \A v \in Worker : WorkerFibers(v)'
  <2>. TAKE v \in Worker
  <2>1. WorkerFibers(v)
    BY DEF FiberInv
  <2>. QED  BY <1>1, <1>2, <2>1, OthersFibers
<1>5. PICK w : w \in Worker
  BY WorkerAssumption
<1>. QED  BY <1>1, <1>2, <1>3, <1>4, <1>5, StepKeeps

LEMMA FibersKept ==
  ASSUME FInv, IInv', SibInv, FiberInv, [Next]_vars
  PROVE  FiberInv'
<1>0. PosInv'
  BY PosSteps DEF FiberInv
<1>1. ASSUME NEW w \in Worker, Acquire(w)  PROVE FiberInv'
  <2>1. CASE \E f \in Frame : SlowSync(w, f) \/ ReturnFullFrame(w, f) \/ EnterHandler(w, f)
    BY <1>0, <2>1, AtSyncFibers, LeavingFibers
  <2>2. CASE \E c \in Closure : SyncNotReady(w, c) \/ SyncReady(w, c)
    BY <1>0, <2>2, SyncNotReadyFibers, SyncReadyFibers
  <2>3. CASE \E c \in Closure : Handler(w, c) \/ SetReturnChild(w, c) \/ ReturnChild(w, c) \/ Execute(w, c)
    BY <1>0, <2>3, WriteFibers
  <2>4. CASE \E c \in Closure : PushAndRun(w, c)
    BY <1>0, <2>4, PushFibers
  <2>5. CASE \E c \in Closure : \E p \in Closure : SetReturnParent(w, c, p) \/ ReturnParent(w, c, p)
    BY <1>0, <2>5, SetReturnFibers, RejoinFibers
  <2>6. CASE Extract(w)
    BY <1>0, <2>6, LocalFibers
  <2>. QED  BY <1>1, <2>1, <2>2, <2>3, <2>4, <2>5, <2>6, Zenon DEF Acquire
<1>2. ASSUME NEW w \in Worker, Proceed(w)  PROVE FiberInv'
  <2>1. CASE \E f \in Frame : Spawn(w, f) \/ Call(w, f) \/ FastSync(w, f)
    BY <1>0, <2>1, SpawnFibers, CallFibers, AtSyncFibers
  <2>2. CASE \E f \in Frame : ReturnToCaller(w, f) \/ PopParent(w, f)
    BY <1>0, <2>2, BelowFibers
  <2>3. CASE FinishRoot(w)
    BY <1>0, <2>3, LeavingFibers, Kinds
  <2>4. CASE BackToRuntime(w) \/ HaveWork(w) \/ Exit(w)
    BY <1>0, <2>4, BackFibers, LocalFibers
  <2>5. CASE \E v \in Worker : GiveUp(w, v) \/ ReleaseVictim(w, v)
    BY <1>0, <2>5, LocalFibers, ReleaseFibers
  <2>6. CASE \E v \in Worker : \E c \in Closure : Promote(w, v, c)
    BY <1>0, <2>6, PromoteFibers
  <2>7. CASE \E y \in Closure : FinishPromote(w, y)
    BY <1>0, <2>7, FinishFullFibers, FinishNewFibers
  <2>. QED  BY <1>2, <2>1, <2>2, <2>3, <2>4, <2>5, <2>6, <2>7, Zenon DEF Proceed
<1>3. ASSUME NEW w \in Worker, Steal(w)  PROVE FiberInv'
  BY <1>0, <1>3, LocalFibers DEF Steal
<1>4. CASE UNCHANGED vars
  BY <1>0, <1>4, StillFibers
<1>. QED  BY <1>1, <1>2, <1>3, <1>4, Zenon DEF Next, Terminated

LEMMA FibersInvariant == Spec => [](FInv /\ SibInv /\ FiberInv)
<1>1. Init => FInv /\ SibInv /\ FiberInv
  BY FInitHolds, InitSiblings, InitFibers
<1>2. FInv /\ SibInv /\ FiberInv /\ [Next]_vars => FInv' /\ SibInv' /\ FiberInv'
  <2>1. FInv /\ [Next]_vars => FInv' /\ IInv'
    BY FNextKeeps DEF FInv
  <2>. QED  BY <2>1, SiblingsKept, FibersKept
<1>. QED  BY <1>1, <1>2, PTL DEF Spec

-----------------------------------------------------------------------------
LEMMA FiberOwned ==
  ASSUME FInv, FiberInv, NEW x \in Fiber
  PROVE  Cardinality(FiberOwners(x)) = 1
<1>1. IInv /\ \A c \in Closure : Alive(c) <=> Live(c)
  BY FParts, HoldersAre
<1>2. PICK k, i : Owns(k, i, x) /\ \A l, j : Owns(l, j, x) => l = k /\ j = i
  BY DEF FiberInv, OwnInv
<1>3. \A p : p \in FiberOwners(x) <=> \E l, j : p = <<l, j>> /\ Owns(l, j, x)
  <2>. TAKE p
  <2>1. p \in {<<"pool", x>> : y \in idle \intersect {x}} <=> p = <<"pool", x>> /\ x \in idle
    OBVIOUS
  <2>2. p \in {<<"free", w>> : w \in {v \in Worker : toFree[v] = x}}
          <=> \E w \in Worker : p = <<"free", w>> /\ toFree[w] = x
    OBVIOUS
  <2>3. p \in {<<"sync", c>> : c \in {d \in Closure : cl[d].fiber_child = x}}
          <=> \E c \in Closure : p = <<"sync", c>> /\ cl[c].fiber_child = x
    OBVIOUS
  <2>4. p \in {<<"run", c>> : c \in {d \in Closure : cl[d].fiber = x /\ Alive(d) /\ ~cl[d].has_cilk_callee}}
          <=> \E c \in Closure : p = <<"run", c>> /\ cl[c].fiber = x /\ Live(c) /\ ~cl[c].has_cilk_callee
    BY <1>1
  <2>5. p \in FiberOwners(x) <=>
          \/ p = <<"pool", x>> /\ x \in idle
          \/ \E w \in Worker : p = <<"free", w>> /\ toFree[w] = x
          \/ \E c \in Closure : p = <<"sync", c>> /\ cl[c].fiber_child = x
          \/ \E c \in Closure : p = <<"run", c>> /\ cl[c].fiber = x /\ Live(c) /\ ~cl[c].has_cilk_callee
    BY <2>1, <2>2, <2>3, <2>4, Zenon DEF FiberOwners
  <2>. QED  BY <2>5, Zenon DEF Owns
<1>4. FiberOwners(x) = {<<k, i>>}
  <2>1. \A p : p \in FiberOwners(x) <=> p = <<k, i>>
    BY <1>2, <1>3
  <2>. QED  BY <2>1
<1>. QED  BY <1>4, FS_Singleton

LEMMA AtHome ==
  ASSUME FInv, FiberInv, NEW w \in Worker, pc[w] = "user"
  PROVE  on[w] = cl[Bottom(w)].fiber /\ (~fr[cur[w]].unsynced => on[w] = fr[cur[w]].home)
<1>1. /\ Hand(w) \in Closure /\ Bottom(w) = Hand(w) /\ cur[w] \in Frame /\ cur[w] \in Held(w)
      /\ NULL \notin Closure
  BY UserCover, FParts
<1>2. WorkerFibers(w) /\ FiberPart(Hand(w))
  BY <1>1 DEF FiberInv
<1>3. on[w] = cl[Hand(w)].fiber /\ HomesIn(fr, cl[Hand(w)].fiber, cur[w])
  BY <1>1, <1>2 DEF WorkerFibers, OnFiber
<1>4. CASE ~fr[cur[w]].stolen
  BY <1>1, <1>3, <1>4, HomesTop
<1>5. ASSUME fr[cur[w]].stolen, ~fr[cur[w]].unsynced  PROVE cl[Hand(w)].fiber = fr[cur[w]].home
  <2>1. cl[Hand(w)].frame = cur[w]
    BY <1>1, <1>5, StolenAlone
  <2>2. ~BeingStolen(Hand(w))
    <3>1. ASSUME NEW v \in Worker, pc[v] \in {"promoted", "finish"}, t[v] = Hand(w)  PROVE FALSE
      <4>1. Hand(v) = Hand(w) /\ OneHand
        BY <3>1, ThiefParked, FParts DEF IInv
      <4>. QED  BY <1>1, <3>1, <4>1 DEF OneHand
    <3>. QED  BY <3>1 DEF BeingStolen
  <2>3. Live(Hand(w)) /\ cl[Hand(w)].frame # NULL /\ ~Strays(Hand(w))
    BY <1>1, <1>5, <2>1, <2>2, Kinds DEF Live, Strays
  <2>. QED  BY <1>2, <2>1, <2>3 DEF FiberPart, Home
<1>. QED  BY <1>1, <1>3, <1>4, <1>5

(* Every fiber that was made has one owner: the pool, a worker about to free  *)
(* it, a closure that keeps it for its sync, or one that runs on it           *)
(* (OneFiberOwner).                                                           *)
THEOREM FiberHasOneOwner == Spec => []OneFiberOwner
<1>1. FInv /\ FiberInv => OneFiberOwner
  BY FiberOwned DEF OneFiberOwner
<1>. QED  BY <1>1, FibersInvariant, PTL

(* A worker runs user code on the fiber of its closure, and a frame that has  *)
(* synced on the one it was called on, as longjmp_to_user_code asserts        *)
(* (OnItsFiber).                                                              *)
THEOREM FrameOnItsFiber == Spec => []OnItsFiber
<1>1. FInv /\ FiberInv => OnItsFiber
  BY AtHome DEF OnItsFiber, At
<1>. QED  BY <1>1, FibersInvariant, PTL

-----------------------------------------------------------------------------
(* The workers of frames.  A frame that is not stolen, and that a worker is   *)
(* at or below, has that worker; so has the frame of its closure.  A closure  *)
(* that is returning was spawned by the frame the worker goes on with; and    *)
(* the frame of one that waits for a called child has no worker, once the     *)
(* thief that makes it wait is done.                                          *)
OwnIn(q, x, f) == \A k \in 1..Len(Stacklet[f]) : Opens(q, f, k) => q[Stacklet[f][k]].worker = x
Returning(w) == pc[w] = "handler" \/ (Hand(w) # NULL /\ cl[Hand(w)].status = "RETURNING")
WorkerOf(w) ==
  /\ pc[w] \in {"user", "sync"} =>
       cl[Hand(w)].status # "RETURNING" /\ \A f \in Held(w) : OwnIn(fr, w, f)
  /\ pc[w] \in {"user", "sync", "push"} /\ cl[Hand(w)].frame # NULL =>
       fr[cl[Hand(w)].frame].worker = w
  /\ Returning(w) => HasFrame(cl[Hand(w)].spawn_parent, cur[w])
Pending(c) ==
  \E u \in Worker : Thief(u) /\ ~fr[cl[t[u]].frame].stolen /\ cl[t[u]].call_parent = c
NullInv ==
  \A c \in Closure : cl[c].has_cilk_callee /\ cl[c].frame # NULL =>
    fr[cl[c].frame].worker = NULL \/ Pending(c)
ClaimInv == NullInv /\ \A w \in Worker : WorkerOf(w)
LEMMA OwnTop ==
  ASSUME NEW f \in Frame, NEW q, NEW x
  PROVE  /\ q[f].stolen => OwnIn(q, x, f)
         /\ OwnIn(q, x, f) /\ ~q[f].stolen => q[f].worker = x
         /\ f \notin Called /\ (q[f].stolen \/ q[f].worker = x) => OwnIn(q, x, f)
<1>1. Stacklet[f][1] = f /\ Len(Stacklet[f]) \in Nat \ {0} /\ (f \notin Called => Stacklet[f] = <<f>>)
  BY StackletOf
<1>2. 1 \in 1..Len(Stacklet[f])
  BY <1>1
<1>3. q[f].stolen => OwnIn(q, x, f)
  BY <1>1 DEF OwnIn, Opens
<1>4. OwnIn(q, x, f) /\ ~q[f].stolen => q[f].worker = x
  BY <1>1, <1>2 DEF OwnIn, Opens
<1>5. ASSUME f \notin Called, q[f].stolen \/ q[f].worker = x  PROVE OwnIn(q, x, f)
  <2>1. Len(Stacklet[f]) = 1
    BY <1>1, <1>5, OneEntry
  <2>. QED  BY <1>1, <1>5, <2>1 DEF OwnIn, Opens
<1>. QED  BY <1>3, <1>4, <1>5

LEMMA OwnKept ==
  ASSUME NEW f \in Frame, NEW q, NEW r, NEW x, OwnIn(q, x, f),
         \A g \in Range(Stacklet[f]) : /\ q[g].stolen => r[g].stolen
                                       /\ r[g].stolen \/ r[g].worker = q[g].worker
  PROVE  OwnIn(r, x, f)
<1>1. \A i \in 1..Len(Stacklet[f]) : Stacklet[f][i] \in Range(Stacklet[f])
  <2>1. Range(Stacklet[f]) = {Stacklet[f][i] : i \in 1..Len(Stacklet[f])}
    BY StackletOf
  <2>. QED  BY <2>1
<1>2. ASSUME NEW k \in 1..Len(Stacklet[f]), Opens(r, f, k)  PROVE Opens(q, f, k)
  <2>1. \A i \in 1..k : i \in 1..Len(Stacklet[f])
    BY StackletOf
  <2>. QED  BY <1>1, <1>2, <2>1 DEF Opens
<1>3. ASSUME NEW k \in 1..Len(Stacklet[f]), Opens(r, f, k)  PROVE ~r[Stacklet[f][k]].stolen
  BY <1>3, StackletOf DEF Opens
<1>. QED  BY <1>1, <1>2, <1>3 DEF OwnIn

(* A called frame without a closure has the worker of its caller.             *)
LEMMA OwnShift ==
  ASSUME NEW g \in Called, NEW q, NEW x
  PROVE  /\ OwnIn(q, x, Caller(g)) /\ q[g].worker = x => OwnIn(q, x, g)
         /\ OwnIn(q, x, g) /\ ~q[g].stolen => OwnIn(q, x, Caller(g))
<1>0. PICK s \in Seq(Frame), l \in Nat, r \in Seq(Frame), m \in Nat :
        s = Stacklet[g] /\ l = Len(s) /\ r = Stacklet[Caller(g)] /\ m = Len(r)
  BY StackletOf, Kinds
<1>1. l = m + 1 /\ s[1] = g /\ \A i \in 1..m : s[i + 1] = r[i]
  BY <1>0, StackletOf, Kinds
<1>2. ASSUME OwnIn(q, x, Caller(g)), q[g].worker = x  PROVE OwnIn(q, x, g)
  <2>. SUFFICES ASSUME NEW k \in 1..l, \A i \in 1..k : ~q[s[i]].stolen  PROVE q[s[k]].worker = x
    BY <1>0 DEF OwnIn, Opens
  <2>1. CASE k = 1
    BY <1>1, <1>2, <2>1
  <2>2. CASE k # 1
    <3>1. k - 1 \in 1..m /\ s[k] = r[k - 1]
      BY <1>1, <2>2
    <3>2. ASSUME NEW i \in 1..k - 1  PROVE ~q[r[i]].stolen
      <4>1. i \in 1..m /\ i + 1 \in 1..k
        BY <1>1
      <4>. QED  BY <1>1, <4>1
    <3>3. q[r[k - 1]].worker = x
      BY <1>0, <1>2, <3>1, <3>2 DEF OwnIn, Opens
    <3>. QED  BY <3>1, <3>3
  <2>. QED  BY <2>1, <2>2
<1>3. ASSUME OwnIn(q, x, g), ~q[g].stolen  PROVE OwnIn(q, x, Caller(g))
  <2>. SUFFICES ASSUME NEW k \in 1..m, \A i \in 1..k : ~q[r[i]].stolen  PROVE q[r[k]].worker = x
    BY <1>0 DEF OwnIn, Opens
  <2>1. k + 1 \in 1..l /\ s[k + 1] = r[k]
    BY <1>1
  <2>2. ASSUME NEW i \in 1..k + 1  PROVE ~q[s[i]].stolen
    <3>1. CASE i = 1
      BY <1>1, <1>3, <3>1
    <3>2. CASE i # 1
      <4>1. i - 1 \in 1..k /\ i - 1 \in 1..m /\ s[(i - 1) + 1] = r[i - 1] /\ (i - 1) + 1 = i
        BY <1>1, <3>2
      <4>. QED  BY <4>1
    <3>. QED  BY <3>1, <3>2
  <2>3. q[s[k + 1]].worker = x
    BY <1>0, <1>3, <2>1, <2>2 DEF OwnIn, Opens
  <2>. QED  BY <2>1, <2>3
<1>. QED  BY <1>2, <1>3

(* Frames that were entered stay stolen, and keep their worker but for those  *)
(* that have a closure which is not v's.                                      *)
WorkersStay(v) ==
  \A h \in Frame : fr[h].at # 0 =>
    /\ fr[h].stolen => fr'[h].stolen
    /\ fr'[h].worker = fr[h].worker \/ (fr'[h].stolen /\ ~(Hand(v) # NULL /\ cl[Hand(v)].frame = h))
LEMMA OwnGoesOn ==
  ASSUME FInv, NEW v \in Worker, WorkersStay(v), NEW f \in Frame, fr[f].at # 0, NEW x, OwnIn(fr, x, f)
  PROVE  OwnIn(fr', x, f)
<1>1. IInv
  BY FParts
<1>2. ASSUME NEW g \in Range(Stacklet[f])
      PROVE  /\ fr[g].stolen => fr'[g].stolen
             /\ fr'[g].stolen \/ fr'[g].worker = fr[g].worker
  <2>1. g \in Frame /\ fr[g].at # 0
    BY <1>1, <1>2, StackletOf DEF IInv, EnteredInv
  <2>. QED  BY <2>1 DEF WorkersStay
<1>. HIDE DEF OwnIn
<1>. QED  BY <1>2, OwnKept

(* What the invariant says of a worker, spelled out for the next state.       *)
LEMMA WorkerNext ==
  ASSUME NEW w \in Worker
  PROVE  WorkerOf(w)' <=>
           /\ pc'[w] \in {"user", "sync"} =>
                cl'[Hand(w)'].status # "RETURNING" /\ \A f \in Held(w)' : OwnIn(fr', w, f)
           /\ pc'[w] \in {"user", "sync", "push"} /\ cl'[Hand(w)'].frame # NULL =>
                fr'[cl'[Hand(w)'].frame].worker = w
           /\ pc'[w] = "handler" \/ (Hand(w)' # NULL /\ cl'[Hand(w)'].status = "RETURNING") =>
                /\ cl'[Hand(w)'].spawn_parent # NULL
                /\ cl'[cl'[Hand(w)'].spawn_parent].frame = cur'[w]
  BY DEF WorkerOf, Returning, HasFrame, OwnIn, Opens

(* A worker that does not move.                                               *)
LEMMA OthersWorkers ==
  ASSUME FInv, NEW v \in Worker, WorkerOf(v), Idles(v), Hand(v)' = Hand(v), WorkersStay(v),
         \A d \in Closure : cl[d].frame # NULL => cl'[d].frame = cl[d].frame,
         Hand(v) # NULL => /\ cl'[Hand(v)].frame = cl[Hand(v)].frame
                           /\ cl'[Hand(v)].spawn_parent = cl[Hand(v)].spawn_parent
                           /\ cl'[Hand(v)].status = "RETURNING" => cl[Hand(v)].status = "RETURNING"
  PROVE  WorkerOf(v)'
<1>1. /\ pc'[v] = pc[v] /\ ltq'[v] = ltq[v] /\ cur'[v] = cur[v]
      /\ Hand(v) \in Closure \union {NULL} /\ NULL \notin Closure
      /\ IInv /\ Typed
  BY FParts, HandIs DEF Idles
<1>2. Tips(v)' = Tips(v) /\ Held(v)' = Held(v)
  BY <1>1 DEF Tips, Held
<1>3. \A f \in Held(v) : f \in Frame /\ fr[f].at # 0
  BY <1>1, FParts, TipsAre, AtFacts DEF TipInv, Active, IInv
<1>4. pc[v] \in {"user", "sync", "push", "handler"} => Hand(v) # NULL
  BY <1>1, FParts, HandIs DEF PlaceInv, IInv
<1>5. ASSUME pc[v] \in {"user", "sync"}
      PROVE  cl'[Hand(v)].status # "RETURNING" /\ \A f \in Held(v) : OwnIn(fr', v, f)
  <2>1. \A f \in Held(v) : OwnIn(fr, v, f)
    BY <1>5 DEF WorkerOf
  <2>2. \A f \in Held(v) : OwnIn(fr', v, f)
    BY <1>3, <2>1, OwnGoesOn
  <2>. QED  BY <1>4, <1>5, <2>2 DEF WorkerOf
<1>6. ASSUME pc[v] \in {"user", "sync", "push"}, cl[Hand(v)].frame # NULL
      PROVE  fr'[cl[Hand(v)].frame].worker = v
  <2>1. Hand(v) \in Closure /\ fr[cl[Hand(v)].frame].worker = v
    BY <1>1, <1>4, <1>6 DEF WorkerOf
  <2>2. cl[Hand(v)].frame \in Frame /\ fr[cl[Hand(v)].frame].at # 0
    BY <1>6, <2>1, FrameOfClosure
  <2>. QED  BY <1>1, <1>4, <1>6, <2>1, <2>2 DEF WorkersStay
<1>7. ASSUME Hand(v) # NULL, pc[v] = "handler" \/ cl[Hand(v)].status = "RETURNING"
      PROVE  cl[Hand(v)].spawn_parent # NULL /\ cl'[cl[Hand(v)].spawn_parent].frame = cur[v]
  <2>1. /\ Hand(v) \in Closure /\ cl[Hand(v)].spawn_parent # NULL
        /\ cl[cl[Hand(v)].spawn_parent].frame = cur[v]
    BY <1>1, <1>7 DEF WorkerOf, Returning, HasFrame
  <2>2. cl[Hand(v)].spawn_parent \in Closure /\ cl[cl[Hand(v)].spawn_parent].frame # NULL
    BY <1>1, <2>1 DEF Typed, TypedTree, IInv, ParentInv
  <2>. QED  BY <2>1, <2>2
<1>8. cl'[Hand(v)].frame = cl[Hand(v)].frame \/ Hand(v) = NULL
  OBVIOUS
<1>. QED  BY <1>1, <1>2, <1>4, <1>5, <1>6, <1>7, <1>8, WorkerNext

(* A step of w that gives no closure a frame or a parent, makes none wait for *)
(* a callee, and writes the worker of a frame only if that has a closure that *)
(* no other worker has, and none if the closure waits.                        *)
ClaimTree ==
  /\ Closure' = Closure
  /\ \A c \in Closure : /\ cl'[c].frame = cl[c].frame /\ cl'[c].call_parent = cl[c].call_parent
                        /\ cl'[c].spawn_parent = cl[c].spawn_parent
                        /\ cl'[c].has_cilk_callee => cl[c].has_cilk_callee
ClaimFrames(w) ==
  \A h \in Frame : fr[h].at # 0 =>
    /\ fr'[h].stolen = fr[h].stolen
    /\ \/ fr'[h].worker = fr[h].worker
       \/ fr[h].stolen /\ \E d \in Closure : /\ cl[d].frame = h /\ \A v \in Worker \ {w} : Hand(v) # d
                                             /\ cl'[d].has_cilk_callee => fr'[h].worker = NULL
LEMMA PendingStays ==
  ASSUME FInv, ClaimTree, NEW w \in Worker, ClaimFrames(w), \A v \in Worker \ {w} : Idles(v),
         Thief(w) /\ ~fr[cl[t[w]].frame].stolen => Thief(w)' /\ t'[w] = t[w], NEW c \in Closure, Pending(c)
  PROVE  Pending(c)'
<1>1. PICK u \in Worker : Thief(u) /\ ~fr[cl[t[u]].frame].stolen /\ cl[t[u]].call_parent = c
  BY DEF Pending
<1>2. t[u] \in Closure /\ cl[t[u]].frame \in Frame /\ fr[cl[t[u]].frame].at # 0
  BY <1>1, ThiefParked DEF Thief
<1>3. Thief(u)' /\ t'[u] = t[u]
  BY <1>1 DEF Idles, Thief
<1>4. cl'[t[u]].frame = cl[t[u]].frame /\ cl'[t[u]].call_parent = c
  BY <1>1, <1>2 DEF ClaimTree
<1>5. ~fr'[cl[t[u]].frame].stolen
  BY <1>1, <1>2 DEF ClaimFrames
<1>6. Thief(u)' /\ ~fr'[cl'[t'[u]].frame].stolen /\ cl'[t'[u]].call_parent = c
  BY <1>3, <1>4, <1>5
<1>. QED  BY <1>6 DEF Pending, Thief

LEMMA NullStays ==
  ASSUME FInv, NullInv, ClaimTree, NEW w \in Worker, ClaimFrames(w), \A v \in Worker \ {w} : Idles(v),
         Thief(w) /\ ~fr[cl[t[w]].frame].stolen => Thief(w)' /\ t'[w] = t[w]
  PROVE  NullInv'
<1>1. ASSUME NEW c \in Closure, cl'[c].has_cilk_callee, cl[c].frame # NULL
      PROVE  fr'[cl[c].frame].worker = NULL \/ Pending(c)'
  <2>1. cl[c].has_cilk_callee /\ cl[c].frame \in Frame /\ fr[cl[c].frame].at # 0
    BY <1>1, FrameOfClosure DEF ClaimTree
  <2>2. CASE Pending(c)
    BY <2>2, PendingStays
  <2>3. CASE fr[cl[c].frame].worker = NULL
    <3>1. \A d \in Closure : cl[d].frame = cl[c].frame => d = c
      BY <1>1 DEF FInv, OneClosure
    <3>2. fr'[cl[c].frame].worker = NULL
      BY <1>1, <2>1, <2>3, <3>1 DEF ClaimFrames
    <3>. QED  BY <3>2
  <2>. QED  BY <1>1, <2>1, <2>2, <2>3 DEF NullInv
<1>2. \A c \in Closure' : cl'[c].has_cilk_callee /\ cl'[c].frame # NULL =>
        fr'[cl'[c].frame].worker = NULL \/ Pending(c)'
  BY <1>1 DEF ClaimTree
<1>. QED  BY <1>2 DEF NullInv

LEMMA ClaimStep ==
  ASSUME FInv, ClaimInv, ClaimTree, NEW w \in Worker, ClaimFrames(w),
         \A v \in Worker \ {w} : Idles(v) /\ Hand(v)' = Hand(v),
         \A v \in Worker \ {w} : Hand(v) # NULL /\ cl'[Hand(v)].status = "RETURNING" => cl[Hand(v)].status = "RETURNING",
         Thief(w) /\ ~fr[cl[t[w]].frame].stolen => Thief(w)' /\ t'[w] = t[w],
         WorkerOf(w)'
  PROVE  ClaimInv'
<1>1. NullInv'
  BY NullStays DEF ClaimInv
<1>2. ASSUME NEW v \in Worker \ {w}  PROVE WorkerOf(v)'
  <2>1. WorkersStay(v)
    <3>. SUFFICES ASSUME NEW h \in Frame, fr[h].at # 0
                  PROVE  /\ fr[h].stolen => fr'[h].stolen
                         /\ \/ fr'[h].worker = fr[h].worker
                            \/ fr'[h].stolen /\ ~(Hand(v) # NULL /\ cl[Hand(v)].frame = h)
      BY DEF WorkersStay
    <3>1. fr'[h].stolen = fr[h].stolen
      BY DEF ClaimFrames
    <3>2. ASSUME fr'[h].worker # fr[h].worker, Hand(v) # NULL, cl[Hand(v)].frame = h  PROVE FALSE
      <4>1. PICK d \in Closure : cl[d].frame = h /\ Hand(v) # d
        BY <3>2 DEF ClaimFrames
      <4>2. Hand(v) \in Closure
        BY <3>2, HandIs, FParts
      <4>. QED  BY <3>2, <4>1, <4>2, Kinds DEF FInv, OneClosure
    <3>3. fr'[h].worker = fr[h].worker \/ fr[h].stolen
      BY DEF ClaimFrames
    <3>. QED  BY <3>1, <3>2, <3>3
  <2>2. \A d \in Closure : cl'[d].frame = cl[d].frame /\ cl'[d].spawn_parent = cl[d].spawn_parent
    BY DEF ClaimTree
  <2>3. Hand(v) # NULL => Hand(v) \in Closure
    BY HandIs, FParts
  <2>4. WorkerOf(v) /\ Idles(v) /\ Hand(v)' = Hand(v)
    BY DEF ClaimInv
  <2>. QED  BY <2>1, <2>2, <2>3, <2>4, OthersWorkers
<1>3. \A v \in Worker : WorkerOf(v)'
  BY <1>2
<1>. QED  BY <1>1, <1>3 DEF ClaimInv

(* A step in user code that leaves the worker there, or at a sync ...         *)
LEMMA UserClaims ==
  ASSUME FInv, ClaimInv, NEW w \in Worker, NEW f \in Frame, InUser(w, f),
         cl' = cl, t' = t, deque' = deque, good' = good,
         pc'[w] \in {"user", "sync"},
         \A v \in Worker \ {w} : pc'[v] = pc[v] /\ ltq'[v] = ltq[v] /\ cur'[v] = cur[v],
         \A h \in Frame : fr[h].at # 0 => fr'[h].stolen = fr[h].stolen /\ fr'[h].worker = fr[h].worker,
         \A h \in Held(w)' : h \in Held(w) \/ OwnIn(fr', w, h)
  PROVE  ClaimInv'
<1>1. pc[w] = "user" /\ WorkerOf(w) /\ Hand(w) \in Closure /\ NULL \notin Closure /\ IInv
  BY FParts, UserCover DEF InUser, At, ClaimInv
<1>2. \A v \in Worker : Hand(v)' = Hand(v)
  BY DEF Hand
<1>3. \A v \in Worker \ {w} : Idles(v)
  BY DEF Idles
<1>4. ClaimTree /\ ClaimFrames(w) /\ WorkersStay(w)
  <2>1. Closure' = Closure
    BY DEF Closure
  <2>. QED  BY <2>1 DEF ClaimTree, ClaimFrames, WorkersStay
<1>5. cl[Hand(w)].status # "RETURNING" /\ \A h \in Held(w) : OwnIn(fr, w, h)
  BY <1>1 DEF WorkerOf
<1>6. \A h \in Held(w) : OwnIn(fr', w, h)
  <2>. TAKE h \in Held(w)
  <2>1. h \in Frame /\ fr[h].at # 0
    BY <1>1, FParts, TipsAre, AtFacts DEF TipInv, Active
  <2>. QED  BY <1>4, <1>5, <2>1, OwnGoesOn
<1>7. cl[Hand(w)].frame # NULL => fr'[cl[Hand(w)].frame].worker = w
  <2>. HAVE cl[Hand(w)].frame # NULL
  <2>1. fr[cl[Hand(w)].frame].worker = w /\ cl[Hand(w)].frame \in Frame /\ fr[cl[Hand(w)].frame].at # 0
    BY <1>1, FrameOfClosure DEF WorkerOf
  <2>. QED  BY <2>1
<1>8. WorkerOf(w)'
  <2>1. Hand(w)' = Hand(w) /\ pc'[w] # "handler"
    BY <1>2
  <2>2. \A h \in Held(w)' : OwnIn(fr', w, h)
    BY <1>6
  <2>. QED  BY <1>5, <1>7, <2>1, <2>2, WorkerNext
<1>9. ~Thief(w)
  BY <1>1 DEF Thief
<1>. QED  BY <1>2, <1>3, <1>4, <1>8, <1>9, ClaimStep

(* ... and one that takes it to the runtime.                                  *)
LEMMA LeavesClaims ==
  ASSUME FInv, ClaimInv, NEW w \in Worker, NEW f \in Frame, InUser(w, f),
         cl' = cl, \A v \in Worker : Hand(v)' = Hand(v), \A v \in Worker \ {w} : Idles(v),
         pc'[w] \in {"handler", "set_return", "back"},
         \A h \in Frame : fr'[h].stolen = fr[h].stolen /\ fr'[h].worker = fr[h].worker,
         pc'[w] = "handler" => HasFrame(cl[Hand(w)].spawn_parent, cur'[w])
  PROVE  ClaimInv'
<1>1. pc[w] = "user" /\ WorkerOf(w) /\ Hand(w) \in Closure /\ NULL \notin Closure
  BY FParts, UserCover DEF InUser, At, ClaimInv
<1>2. cl[Hand(w)].status # "RETURNING"
  BY <1>1 DEF WorkerOf
<1>3. ClaimTree /\ ClaimFrames(w)
  <2>1. Closure' = Closure
    BY DEF Closure
  <2>. QED  BY <2>1 DEF ClaimTree, ClaimFrames
<1>4. WorkerOf(w)'
  BY <1>1, <1>2, WorkerNext DEF HasFrame
<1>5. ~Thief(w)
  BY <1>1 DEF Thief
<1>. QED  BY <1>3, <1>4, <1>5, ClaimStep

(* The frames of a worker in user code.                                       *)
LEMMA UserOwnFrames ==
  ASSUME FInv, NEW w \in Worker, NEW f \in Frame, InUser(w, f)
  PROVE  /\ f \in Held(w) /\ fr[f].at # 0 /\ pc[w] = "user" /\ cur[w] = f
         /\ Tips(w) = Append(ltq[w], f) /\ Held(w) = Range(ltq[w]) \union {f} /\ ltq[w] \in Seq(Frame)
<1>1. pc[w] = "user" /\ f \in Held(w) /\ fr[f].at # 0 /\ cur[w] = f
  BY UserFrame
<1>2. PlaceInv(w) /\ Typed
  BY FParts DEF IInv
<1>. QED  BY <1>1, <1>2, TipsAre DEF AtFrames

(* A frame is spawned.                                                        *)
LEMMA SpawnClaims ==
  ASSUME FInv, IInv', ClaimInv, NEW w \in Worker, NEW f \in Frame, Spawn(w, f)
  PROVE  ClaimInv'
<1>1. PICK g \in Helper : g = NextInstr(f) /\ Enters(f, g)
  BY SpawnEnters
<1>2. g \in Frame /\ g # f /\ fr[g].at = 0 /\ fr \in [Frame -> FrameRecord] /\ g \notin Called
  BY <1>1, EnterAt, FParts, Kinds DEF Typed, TypedRun
<1>3. fr' = [fr EXCEPT ![f].at = @ + 1, ![f].sp = on[w], ![g] = NewFrame(w, on[w])]
  BY <1>1 DEF Spawn
<1>4. fr'[g].worker = w /\ fr'[f].worker = fr[f].worker /\ fr'[f].stolen = fr[f].stolen
      /\ \A h \in Frame \ {f, g} : fr'[h] = fr[h]
  BY <1>2, <1>3 DEF FrameRecord, NewFrame
<1>5. InUser(w, f) /\ cl' = cl /\ t' = t /\ deque' = deque /\ pc' = pc /\ good' = good
      /\ ltq' = [ltq EXCEPT ![w] = Append(@, f)] /\ cur' = [cur EXCEPT ![w] = g]
  BY <1>1 DEF Spawn, treeVars, fiberVars
<1>6. /\ f \in Held(w) /\ pc[w] = "user" /\ Held(w) = Range(ltq[w]) \union {f} /\ ltq[w] \in Seq(Frame)
      /\ ltq \in [Worker -> Seq(Frame)] /\ cur \in [Worker -> Frame \union {NULL}]
  BY <1>5, UserOwnFrames, FParts DEF Typed, TypedRun
<1>7. Held(w)' = Range(ltq[w]) \union {f, g}
  <2>1. ltq'[w] = Append(ltq[w], f) /\ cur'[w] = g /\ Tips(w)' = Append(ltq'[w], g)
    BY <1>5, <1>6 DEF Tips
  <2>2. Range(ltq'[w]) = Range(ltq[w]) \union {f} /\ ltq'[w] \in Seq(Frame)
    BY <1>6, <2>1, PushRange, PushFacts
  <2>3. Range(Append(ltq'[w], g)) = Range(ltq'[w]) \union {g}
    BY <1>2, <2>2, PushRange
  <2>. QED  BY <2>1, <2>2, <2>3 DEF Held
<1>8. OwnIn(fr', w, g)
  BY <1>2, <1>4, OwnTop
<1>9. \A h \in Held(w)' : h \in Held(w) \/ OwnIn(fr', w, h)
  BY <1>6, <1>7, <1>8
<1>10. \A h \in Frame : fr[h].at # 0 => fr'[h].stolen = fr[h].stolen /\ fr'[h].worker = fr[h].worker
  BY <1>2, <1>4
<1>11. pc'[w] \in {"user", "sync"} /\ \A v \in Worker \ {w} : pc'[v] = pc[v] /\ ltq'[v] = ltq[v] /\ cur'[v] = cur[v]
  BY <1>5, <1>6
<1>. QED  BY <1>5, <1>9, <1>10, <1>11, UserClaims

LEMMA CallClaims ==
  ASSUME FInv, IInv', ClaimInv, NEW w \in Worker, NEW f \in Frame, Call(w, f)
  PROVE  ClaimInv'
<1>1. PICK g \in Frame \ Helper : g = NextInstr(f) /\ Enters(f, g)
  BY CallEnters
<1>2. g \in Frame /\ g # f /\ fr[g].at = 0 /\ fr \in [Frame -> FrameRecord] /\ g # Root /\ Caller(g) = f
  BY <1>1, EnterAt, FParts DEF Typed, TypedRun
<1>3. fr' = [fr EXCEPT ![f].at = @ + 1, ![g] = NewFrame(w, on[w])]
  BY <1>1 DEF Call
<1>4. fr'[g].worker = w /\ fr'[f].worker = fr[f].worker /\ fr'[f].stolen = fr[f].stolen
      /\ \A h \in Frame \ {f, g} : fr'[h] = fr[h]
  BY <1>2, <1>3 DEF FrameRecord, NewFrame
<1>5. InUser(w, f) /\ cl' = cl /\ t' = t /\ deque' = deque /\ pc' = pc /\ good' = good
      /\ ltq' = ltq /\ cur' = [cur EXCEPT ![w] = g]
  BY <1>1 DEF Call, treeVars, fiberVars
<1>6. /\ f \in Held(w) /\ pc[w] = "user" /\ Held(w) = Range(ltq[w]) \union {f} /\ ltq[w] \in Seq(Frame)
      /\ cur \in [Worker -> Frame \union {NULL}] /\ fr[f].at # 0
  BY <1>5, UserOwnFrames, FParts DEF Typed, TypedRun
<1>7. Held(w)' = Range(ltq[w]) \union {g}
  <2>1. Tips(w)' = Append(ltq[w], g)
    BY <1>5, <1>6 DEF Tips
  <2>2. Range(Append(ltq[w], g)) = Range(ltq[w]) \union {g}
    BY <1>2, <1>6, PushRange
  <2>. QED  BY <2>1, <2>2 DEF Held
<1>8. \A h \in Frame : fr[h].at # 0 => fr'[h].stolen = fr[h].stolen /\ fr'[h].worker = fr[h].worker
  BY <1>2, <1>4
<1>9. OwnIn(fr', w, g)
  <2>1. OwnIn(fr, w, f)
    BY <1>6 DEF ClaimInv, WorkerOf
  <2>2. WorkersStay(w)
    BY <1>8 DEF WorkersStay
  <2>3. OwnIn(fr', w, f)
    BY <1>6, <2>1, <2>2, OwnGoesOn
  <2>4. g \in Called
    BY <1>1, <1>2 DEF Called
  <2>. QED  BY <1>2, <1>4, <2>3, <2>4, OwnShift
<1>10. \A h \in Held(w)' : h \in Held(w) \/ OwnIn(fr', w, h)
  BY <1>6, <1>7, <1>9
<1>11. pc'[w] \in {"user", "sync"} /\ \A v \in Worker \ {w} : pc'[v] = pc[v] /\ ltq'[v] = ltq[v] /\ cur'[v] = cur[v]
  BY <1>5, <1>6
<1>. QED  BY <1>5, <1>8, <1>10, <1>11, UserClaims

(* A frame passes a sync, or stops at one.                                    *)
LEMMA AtSyncClaims ==
  ASSUME FInv, ClaimInv, NEW w \in Worker, NEW f \in Frame, FastSync(w, f) \/ SlowSync(w, f)
  PROVE  ClaimInv'
<1>1. InUser(w, f) /\ cl' = cl /\ t' = t /\ deque' = deque /\ good' = good /\ ltq' = ltq /\ cur' = cur
      /\ (pc' = pc \/ Goto(w, "sync"))
  BY DEF FastSync, SlowSync, treeVars, fiberVars
<1>2. f \in Held(w) /\ pc[w] = "user"
  BY <1>1, UserOwnFrames
<1>3. fr \in [Frame -> FrameRecord]
  BY FParts DEF Typed, TypedRun
<1>4. \A h \in Frame : fr'[h].stolen = fr[h].stolen /\ fr'[h].worker = fr[h].worker
  <2>1. CASE FastSync(w, f)
    BY <1>3, <2>1 DEF FastSync, FrameRecord
  <2>2. CASE SlowSync(w, f)
    BY <1>3, <2>2 DEF SlowSync, FrameRecord
  <2>. QED  BY <2>1, <2>2
<1>5. pc'[w] \in {"user", "sync"} /\ \A v \in Worker \ {w} : pc'[v] = pc[v] /\ ltq'[v] = ltq[v] /\ cur'[v] = cur[v]
  BY <1>1, <1>2, GoesTo
<1>6. Held(w)' = Held(w)
  BY <1>1, <1>2, <1>5 DEF Held, Tips
<1>. QED  BY <1>1, <1>4, <1>5, <1>6, UserClaims

(* Back to the caller, or to the parent on the shadow stack.                  *)
LEMMA BelowClaims ==
  ASSUME FInv, IInv', ClaimInv, NEW w \in Worker, NEW f \in Frame, ReturnToCaller(w, f) \/ PopParent(w, f)
  PROVE  ClaimInv'
<1>1. InUser(w, f) /\ cl' = cl /\ t' = t /\ deque' = deque /\ pc' = pc /\ good' = good
      /\ Leave(w, f) /\ (ltq' = ltq \/ ltq' = [ltq EXCEPT ![w] = Front(@)])
  BY DEF ReturnToCaller, PopParent, Leave, treeVars, fiberVars
<1>2. /\ f \in Held(w) /\ pc[w] = "user" /\ fr[f].at # 0 /\ cur[w] = f
      /\ ltq[w] \in Seq(Frame) /\ Held(w) = Range(ltq[w]) \union {f}
  BY <1>1, UserOwnFrames
<1>3. \A h \in Frame : fr'[h].stolen = fr[h].stolen /\ fr'[h].worker = fr[h].worker
  BY <1>1, FParts DEF Leave, Typed, TypedRun, FrameRecord
<1>4. OwnIn(fr', w, f)
  <2>1. OwnIn(fr, w, f) /\ WorkersStay(w)
    BY <1>2, <1>3 DEF ClaimInv, WorkerOf, WorkersStay
  <2>. QED  BY <1>2, <2>1, OwnGoesOn
<1>5. cur'[w] = Caller(f) /\ \A v \in Worker \ {w} : cur'[v] = cur[v]
  BY <1>1, LeaveIs
<1>6. \A v \in Worker \ {w} : ltq'[v] = ltq[v]
  BY <1>1, FParts DEF Typed, TypedRun
<1>7. \A h \in Held(w)' : h \in Held(w) \/ OwnIn(fr', w, h)
  <2>1. CASE ReturnToCaller(w, f)
    <3>1. ltq' = ltq /\ f \in Called /\ ~fr[f].stolen
      BY <2>1 DEF ReturnToCaller, Called
    <3>2. OwnIn(fr', w, Caller(f))
      BY <1>3, <1>4, <3>1, OwnShift
    <3>3. Caller(f) \in Frame
      BY <3>1, StackletOf
    <3>4. Tips(w)' = Append(ltq[w], Caller(f))
      BY <1>1, <1>2, <1>5, <3>1 DEF Tips
    <3>5. Range(Append(ltq[w], Caller(f))) = Range(ltq[w]) \union {Caller(f)}
      BY <1>2, <3>3, PushRange
    <3>6. Held(w)' = Range(ltq[w]) \union {Caller(f)}
      BY <3>4, <3>5 DEF Held
    <3>. QED  BY <1>2, <3>2, <3>6
  <2>2. CASE PopParent(w, f)
    <3>1. f \in Helper /\ ltq[w] # <<>> /\ ltq' = [ltq EXCEPT ![w] = Front(@)]
      BY <2>2 DEF PopParent
    <3>2. ltq'[w] = Front(ltq[w])
      BY <3>1, FParts DEF Typed, TypedRun
    <3>3. Len(ltq[w]) \in Nat \ {0} /\ Caller(f) = ltq[w][Len(ltq[w])]
      BY <1>2, <3>1, LastIsCaller
    <3>4. /\ Front(ltq[w]) \in Seq(Frame) /\ Len(Front(ltq[w])) = Len(ltq[w]) - 1
          /\ \A i \in 1..Len(ltq[w]) - 1 : Front(ltq[w])[i] = ltq[w][i]
      BY <1>2, <3>1, PopFacts
    <3>5. \A h \in Range(Front(ltq[w])) : h \in Range(ltq[w])
      <4>. TAKE h \in Range(Front(ltq[w]))
      <4>1. PICK i \in 1..Len(Front(ltq[w])) : Front(ltq[w])[i] = h
        BY <3>4 DEF Range
      <4>2. i \in 1..Len(ltq[w]) /\ ltq[w][i] = h
        BY <3>3, <3>4, <4>1
      <4>. QED  BY <1>2, <4>2 DEF Range
    <3>6. Caller(f) \in Range(ltq[w]) /\ Caller(f) \in Frame
      BY <1>2, <3>3 DEF Range
    <3>7. Tips(w)' = Append(Front(ltq[w]), Caller(f))
      BY <1>1, <1>2, <1>5, <3>2 DEF Tips
    <3>8. Range(Append(Front(ltq[w]), Caller(f))) = Range(Front(ltq[w])) \union {Caller(f)}
      BY <3>4, <3>6, PushRange
    <3>9. Held(w)' = Range(Front(ltq[w])) \union {Caller(f)}
      BY <3>7, <3>8 DEF Held
    <3>. QED  BY <1>2, <3>5, <3>6, <3>9
  <2>. QED  BY <2>1, <2>2
<1>8. pc'[w] \in {"user", "sync"} /\ \A v \in Worker \ {w} : pc'[v] = pc[v] /\ ltq'[v] = ltq[v] /\ cur'[v] = cur[v]
  BY <1>1, <1>2, <1>5, <1>6
<1>. QED  BY <1>1, <1>3, <1>7, <1>8, UserClaims

(* To the runtime.  A spawn helper that ends with nothing left on the shadow  *)
(* stack is what its closure is for, which its caller spawned.                *)
LEMMA SpawnedBy ==
  ASSUME FInv, NEW w \in Worker, NEW f \in Helper, InUser(w, f), ltq[w] = <<>>
  PROVE  HasFrame(cl[Hand(w)].spawn_parent, Caller(f))
<1>1. /\ pc[w] = "user" /\ Hand(w) \in Closure /\ Upper(w) = Hand(w) /\ Lower(w) = Tips(w)[1]
      /\ Covers(Hand(w), Tips(w)[1]) /\ cur[w] = f
  BY UserCover DEF InUser, At
<1>2. f \in Frame /\ f \notin Called
  BY Kinds
<1>3. Tips(w)[1] = f
  BY <1>1, <1>2, FParts, TipsAre DEF AtFrames
<1>4. cl[Hand(w)].frame = NULL \/ cl[Hand(w)].frame = f
  BY <1>1, <1>2, <1>3, CoverTop DEF Covers
<1>5. Oldest(Lower(w)) = f
  BY <1>1, <1>2, <1>3, StackletOf
<1>6. Begins(Hand(w), f)
  BY <1>1, <1>4, <1>5 DEF Begins
<1>7. Live(Hand(w))
  BY DEF Live
<1>. QED  BY <1>1, <1>6, <1>7 DEF FInv, SpawnLink

LEMMA LeavingClaims ==
  ASSUME FInv, IInv', ClaimInv, NEW w \in Worker, NEW f \in Frame,
         EnterHandler(w, f) \/ ReturnFullFrame(w, f) \/ (FinishRoot(w) /\ f = Root)
  PROVE  ClaimInv'
<1>1. InUser(w, f) /\ cl' = cl /\ good' = good /\ ltq' = ltq /\ fr' = [fr EXCEPT ![f].at = @ + 1]
      /\ (Leave(w, f) \/ cur' = cur)
      /\ (Goto(w, "handler") \/ Goto(w, "set_return") \/ Goto(w, "back"))
  BY DEF EnterHandler, ReturnFullFrame, FinishRoot, Leave, treeVars, fiberVars
<1>2. \A v \in Worker \ {w} : cur'[v] = cur[v]
  BY <1>1, LeaveIs
<1>3. pc'[w] \in {"handler", "set_return", "back"} /\ \A v \in Worker \ {w} : pc'[v] = pc[v]
  BY <1>1, GoesTo
<1>4. (\A v \in Worker : Hand(v)' = Hand(v)) /\ \A v \in Worker \ {w} : t'[v] = t[v] /\ deque'[v] = deque[v]
  <2>1. CASE ReturnFullFrame(w, f)
    <3>1. \A v \in Worker : Hand(v)' = Hand(v)
      BY <2>1, HandMoves DEF HandQuiet
    <3>2. \A v \in Worker \ {w} : t'[v] = t[v] /\ deque'[v] = deque[v]
      BY <2>1 DEF ReturnFullFrame
    <3>. QED  BY <3>1, <3>2
  <2>2. CASE EnterHandler(w, f) \/ FinishRoot(w)
    <3>1. t' = t /\ deque' = deque
      BY <2>2 DEF EnterHandler, FinishRoot, treeVars
    <3>. QED  BY <3>1, HandsStay
  <2>. QED  BY <2>1, <2>2
<1>5. \A v \in Worker \ {w} : Idles(v)
  BY <1>1, <1>2, <1>3, <1>4 DEF Idles
<1>6. \A h \in Frame : fr'[h].stolen = fr[h].stolen /\ fr'[h].worker = fr[h].worker
  BY <1>1, FParts DEF Typed, TypedRun, FrameRecord
<1>7. pc'[w] = "handler" => HasFrame(cl[Hand(w)].spawn_parent, cur'[w])
  <2>. HAVE pc'[w] = "handler"
  <2>1. EnterHandler(w, f)
    <3>1. pc[w] \in PC /\ pc \in [Worker -> PC]
      BY FParts DEF Typed, TypedRuntime
    <3>. QED  BY <3>1 DEF ReturnFullFrame, FinishRoot, Goto
  <2>2. f \in Helper /\ ltq[w] = <<>> /\ cur' = [cur EXCEPT ![w] = Caller(f)]
    BY <2>1 DEF EnterHandler, Leave
  <2>3. cur'[w] = Caller(f)
    BY <2>2, FParts DEF Typed, TypedRun
  <2>. QED  BY <1>1, <2>2, <2>3, SpawnedBy
<1>. QED  BY <1>1, <1>3, <1>4, <1>5, <1>6, <1>7, LeavesClaims

(* A step in the runtime that leaves the workers of frames alone.             *)
LEMMA RuntimeClaims ==
  ASSUME FInv, ClaimInv, NEW w \in Worker, ClaimTree,
         \A h \in Frame : fr'[h].stolen = fr[h].stolen /\ fr'[h].worker = fr[h].worker,
         \A v \in Worker : Hand(v)' = Hand(v), \A v \in Worker \ {w} : Idles(v),
         \A c \in Closure : c # Hand(w) => cl'[c].status = cl[c].status,
         Thief(w) => (Thief(w)' /\ t'[w] = t[w]) \/ fr[cl[t[w]].frame].stolen,
         pc'[w] \notin {"user", "sync", "push", "handler"}, cur'[w] = cur[w],
         Hand(w) # NULL /\ cl'[Hand(w)].status = "RETURNING" => Returning(w)
  PROVE  ClaimInv'
<1>1. ClaimFrames(w)
  BY DEF ClaimFrames
<1>2. \A v \in Worker \ {w} : Hand(v) # NULL /\ cl'[Hand(v)].status = "RETURNING" => cl[Hand(v)].status = "RETURNING"
  <2>. TAKE v \in Worker \ {w}
  <2>1. Hand(v) # NULL => Hand(v) \in Closure /\ Hand(v) # Hand(w)
    BY FParts, HandIs DEF IInv, OneHand
  <2>. QED  BY <2>1
<1>3. WorkerOf(w)'
  <2>1. ASSUME Hand(w) # NULL, cl'[Hand(w)].status = "RETURNING"
        PROVE  /\ cl'[Hand(w)].spawn_parent # NULL
               /\ cl'[cl'[Hand(w)].spawn_parent].frame = cur[w]
    <3>1. HasFrame(cl[Hand(w)].spawn_parent, cur[w])
      BY <2>1 DEF ClaimInv, WorkerOf
    <3>2. Hand(w) \in Closure
      BY <2>1, HandIs, FParts
    <3>3. cl[Hand(w)].spawn_parent \in Closure \union {NULL}
      BY <3>2, FParts DEF TypedTree
    <3>. QED  BY <3>1, <3>2, <3>3 DEF HasFrame, ClaimTree
  <2>2. Hand(w)' = Hand(w)
    OBVIOUS
  <2>. QED  BY <2>1, <2>2, WorkerNext
<1>. QED  BY <1>1, <1>2, <1>3, ClaimStep

LEMMA QuietClaimTree ==
  ASSUME QuietTree
  PROVE  ClaimTree
BY DEF QuietTree, SameSites, ClaimTree

(* The steps that write the lock or the status of the closure a worker has.   *)
LEMMA WriteClaims ==
  ASSUME FInv, ClaimInv, NEW w \in Worker, NEW c \in Closure,
         Handler(w, c) \/ SetReturnChild(w, c) \/ ReturnChild(w, c)
  PROVE  ClaimInv'
<1>1. QuietTree /\ c = Hand(w) /\ (\A v \in Worker : Hand(v)' = Hand(v)) /\ t' = t /\ deque' = deque
  BY WriteQuiet
<1>2. good' = good /\ fr' = fr /\ ltq' = ltq /\ cur' = cur
  BY DEF Handler, SetReturnChild, ReturnChild, runVars
<1>3. /\ \A v \in Worker \ {w} : pc'[v] = pc[v]
      /\ pc[w] \in {"handler", "set_return", "do"} /\ pc'[w] \in {"back", "set_return_parent", "return"}
      /\ pc[w] = "handler" \/ cl[c].status = "RETURNING" \/ (SetReturnChild(w, c))
  <2>1. CASE Handler(w, c)
    BY <2>1, GoesTo DEF Handler, runVars, At
  <2>2. CASE SetReturnChild(w, c)
    BY <2>2, GoesTo DEF SetReturnChild, runVars, At
  <2>3. CASE ReturnChild(w, c)
    BY <2>3, GoesTo DEF ReturnChild, runVars, At
  <2>. QED  BY <2>1, <2>2, <2>3
<1>4. \A v \in Worker \ {w} : Idles(v)
  BY <1>1, <1>2, <1>3 DEF Idles
<1>5. cl' = [cl EXCEPT ![c].status = "RETURNING"] \/ cl' = [cl EXCEPT ![c].mutex = w]
  BY DEF Handler, SetReturnChild, ReturnChild
<1>6. /\ \A d \in Closure : d # c => cl'[d].status = cl[d].status
      /\ SetReturnChild(w, c) => cl'[c].status = cl[c].status
  <2>1. \A d \in Closure : d # c => cl'[d] = cl[d]
    BY <1>5, TreeIsSeq, FParts
  <2>2. SetReturnChild(w, c) => cl' = [cl EXCEPT ![c].mutex = w] /\ cl[c] \in ClosureRecord /\ cl \in [Closure -> ClosureRecord]
    BY TreeIsSeq, FParts DEF SetReturnChild
  <2>3. SetReturnChild(w, c) => cl'[c].status = cl[c].status
    BY <2>2 DEF ClosureRecord
  <2>. QED  BY <2>1, <2>3
<1>7. cl'[c].status = "RETURNING" => Returning(w)
  <2>1. c # NULL
    BY FParts
  <2>. QED  BY <1>1, <1>3, <1>6, <2>1 DEF Returning
<1>8. ClaimTree /\ ~Thief(w)
  BY <1>1, <1>3, QuietClaimTree DEF Thief
<1>. QED  BY <1>1, <1>2, <1>3, <1>4, <1>6, <1>7, <1>8, RuntimeClaims

(* The steps that write no closure.                                           *)
LEMMA LocalClaims ==
  ASSUME FInv, ClaimInv, NEW w \in Worker, RuntimeQuiet(w) \/ Extract(w)
  PROVE  ClaimInv'
<1>1. cl' = cl /\ \A v \in Worker : Hand(v)' = Hand(v)
  <2>1. CASE Extract(w)
    BY <2>1, HandMoves DEF HandQuiet
  <2>2. CASE RuntimeQuiet(w)
    BY <2>2, StaysPut, HandsStay
  <2>. QED  BY <2>1, <2>2
<1>2. good' = good /\ fr' = fr /\ ltq' = ltq /\ cur' = cur
  BY DEF RuntimeQuiet, BackToRuntime, HaveWork, Exit, Extract, TryVictim, GiveUp, ReleaseVictim, runVars
<1>3. /\ \A v \in Worker \ {w} : pc'[v] = pc[v]
      /\ pc[w] \in {"back", "loop", "idle", "do", "steal", "promoted"}
      /\ pc'[w] \in {"loop", "do", "exit", "idle", "steal", "finish"}
      /\ pc[w] = "promoted" => pc'[w] = "finish" /\ t' = t
  <2>1. CASE HaveWork(w) \/ BackToRuntime(w)
    BY <2>1, GoesTo DEF HaveWork, BackToRuntime, At
  <2>2. CASE Exit(w)
    BY <2>2, GoesTo DEF Exit, At
  <2>3. CASE Extract(w)
    BY <2>3, GoesTo DEF Extract, At
  <2>4. CASE \E v \in Worker : TryVictim(w, v) \/ GiveUp(w, v) \/ ReleaseVictim(w, v)
    BY <2>4, GoesTo DEF TryVictim, GiveUp, ReleaseVictim, At
  <2>. QED  BY <2>1, <2>2, <2>3, <2>4 DEF RuntimeQuiet
<1>4. \A v \in Worker \ {w} : t'[v] = t[v] /\ deque'[v] = deque[v]
  <2>1. CASE Extract(w)
    BY <2>1, FParts DEF Extract, Typed, TypedRuntime
  <2>2. CASE RuntimeQuiet(w)
    BY <2>2, StaysPut
  <2>. QED  BY <2>1, <2>2
<1>5. \A v \in Worker \ {w} : Idles(v)
  BY <1>2, <1>3, <1>4 DEF Idles
<1>6. ClaimTree
  BY <1>1, NothingWritten, QuietClaimTree
<1>7. Hand(w) # NULL /\ cl'[Hand(w)].status = "RETURNING" => Returning(w)
  BY <1>1 DEF Returning
<1>8. Thief(w) => Thief(w)' /\ t'[w] = t[w]
  BY <1>3 DEF Thief
<1>9. (\A h \in Frame : fr'[h].stolen = fr[h].stolen /\ fr'[h].worker = fr[h].worker)
      /\ (\A c \in Closure : c # Hand(w) => cl'[c].status = cl[c].status) /\ cur'[w] = cur[w]
      /\ pc'[w] \notin {"user", "sync", "push", "handler"}
  BY <1>1, <1>2, <1>3
<1>. QED  BY <1>1, <1>5, <1>6, <1>7, <1>8, <1>9, RuntimeClaims

(* The thief of a frame that had a closure.                                   *)
LEMMA FinishFullClaims ==
  ASSUME FInv, ClaimInv, NEW w \in Worker, NEW y \in Closure, FinishPromote(w, y), fr[cl[y].frame].stolen
  PROVE  ClaimInv'
<1>1. QuietTree /\ y = Hand(w) /\ (\A v \in Worker : Hand(v)' = Hand(v)) /\ t' = t /\ deque' = deque
  BY WriteQuiet
<1>2. /\ good' = good /\ ltq' = ltq /\ cur' = cur /\ pc[w] = "finish" /\ t[w] = y
      /\ fr' = [fr EXCEPT ![cl[y].frame].unsynced = TRUE]
      /\ cl' = [cl EXCEPT ![y].mutex = NULL, ![y].status = "READY"]
  BY DEF FinishPromote, FinishFullFrame, At
<1>3. pc'[w] = "do" /\ \A v \in Worker \ {w} : pc'[v] = pc[v]
  BY GoesTo DEF FinishPromote
<1>4. fr \in [Frame -> FrameRecord] /\ cl \in [Closure -> ClosureRecord]
  BY FParts, TreeIsSeq DEF Typed, TypedRun
<1>5. \A h \in Frame : fr'[h].stolen = fr[h].stolen /\ fr'[h].worker = fr[h].worker
  BY <1>2, <1>4 DEF FrameRecord
<1>6. \A v \in Worker \ {w} : Idles(v)
  BY <1>1, <1>2, <1>3 DEF Idles
<1>7. cl'[y].status = "READY" /\ \A c \in Closure : c # y => cl'[c].status = cl[c].status
  BY <1>2, <1>4 DEF ClosureRecord
<1>8. ClaimTree
  BY <1>1, QuietClaimTree
<1>. QED  BY <1>1, <1>2, <1>3, <1>5, <1>6, <1>7, <1>8, RuntimeClaims

(* A step of w that writes the worker of the frame of a closure that no other *)
(* worker has, and leaves w with that frame or none.                          *)
LEMMA OneFrameClaims ==
  ASSUME FInv, NEW w \in Worker, NEW d \in Closure, cl[d].frame # NULL, fr[cl[d].frame].stolen,
         \A v \in Worker \ {w} : Hand(v) # d,
         ~cl'[d].has_cilk_callee \/ fr'[cl[d].frame].worker = NULL,
         \A h \in Frame : fr'[h].stolen = fr[h].stolen,
         \A h \in Frame \ {cl[d].frame} : fr'[h].worker = fr[h].worker
  PROVE  ClaimFrames(w)
<1>. SUFFICES ASSUME NEW h \in Frame, fr[h].at # 0
              PROVE  /\ fr'[h].stolen = fr[h].stolen
                     /\ \/ fr'[h].worker = fr[h].worker
                        \/ fr[h].stolen /\ \E e \in Closure : /\ cl[e].frame = h /\ \A v \in Worker \ {w} : Hand(v) # e
                                                              /\ cl'[e].has_cilk_callee => fr'[h].worker = NULL
  BY DEF ClaimFrames
<1>1. CASE h = cl[d].frame
  BY <1>1
<1>2. CASE h # cl[d].frame
  BY <1>2
<1>. QED  BY <1>1, <1>2

(* ... back in user code, at a frame of its own.                              *)
LEMMA ResumedClaims ==
  ASSUME NEW w \in Worker, NEW f \in Frame, pc'[w] = "user", Tips(w)' = <<f>>,
         NEW d, Hand(w)' = d, d # NULL, cl'[d].frame = f, cl'[d].status # "RETURNING",
         fr'[f].stolen, fr'[f].worker = w
  PROVE  WorkerOf(w)'
<1>1. Held(w)' = {f}
  BY OneTip
<1>2. OwnIn(fr', w, f)
  BY OwnTop
<1>. QED  BY <1>1, <1>2, WorkerNext

(* A closure that is to run.                                                  *)
LEMMA ExecuteClaims ==
  ASSUME FInv, ClaimInv, NEW w \in Worker, NEW c \in Closure, Execute(w, c)
  PROVE  ClaimInv'
<1>1. QuietTree /\ c = Hand(w) /\ (\A v \in Worker : Hand(v)' = Hand(v)) /\ t' = t /\ deque' = deque
  BY WriteQuiet
<1>2. /\ pc[w] = "do" /\ cl[c].status = "READY" /\ cl' = [cl EXCEPT ![c].status = "RUNNING"]
      /\ fr' = [fr EXCEPT ![cl[c].frame].worker = w] /\ ltq' = [ltq EXCEPT ![w] = <<>>]
      /\ cur' = [cur EXCEPT ![w] = cl[c].frame] /\ good' = good
  BY DEF Execute, At
<1>3. pc'[w] = "push" /\ \A v \in Worker \ {w} : pc'[v] = pc[v]
  BY GoesTo DEF Execute
<1>4. /\ fr \in [Frame -> FrameRecord] /\ cl \in [Closure -> ClosureRecord] /\ cur \in [Worker -> Frame \union {NULL}]
      /\ ltq \in [Worker -> Seq(Frame)] /\ IInv
  BY FParts, TreeIsSeq DEF Typed, TypedRun
<1>5. \A v \in Worker \ {w} : Idles(v) /\ Hand(v) # c
  <2>1. \A v \in Worker \ {w} : cur'[v] = cur[v] /\ ltq'[v] = ltq[v]
    BY <1>2, <1>4
  <2>2. \A v \in Worker \ {w} : Hand(v) # c
    BY <1>1, <1>4, FParts DEF IInv, OneHand
  <2>. QED  BY <1>1, <1>2, <1>3, <2>1, <2>2 DEF Idles
<1>6. cl[c].frame # NULL /\ cl[c].frame \in Frame /\ fr[cl[c].frame].at # 0 /\ ~cl[c].has_cilk_callee
  <2>1. cl[c].frame # NULL
    BY <1>2, <1>4 DEF IInv, ParentInv
  <2>2. cl[c].has_cilk_callee \in BOOLEAN
    BY <1>4 DEF ClosureRecord
  <2>. QED  BY <1>2, <1>4, <2>1, <2>2, FrameOfClosure DEF IInv, CallInv
<1>7. fr[cl[c].frame].stolen
  <2>1. ~Entering(c)
    <3>. SUFFICES ASSUME NEW v \in Worker, pc[v] \in {"promoted", "finish"}, t[v] = c  PROVE FALSE
      BY DEF Entering
    <3>1. Hand(v) = c /\ v # w
      BY <1>2, ThiefParked
    <3>. QED  BY <1>5, <3>1
  <2>. QED  BY <1>4, <1>6, <2>1 DEF IInv, FrameInv
<1>8. /\ \A h \in Frame : fr'[h].stolen = fr[h].stolen
      /\ \A h \in Frame \ {cl[c].frame} : fr'[h].worker = fr[h].worker
      /\ fr'[cl[c].frame].worker = w
  BY <1>2, <1>4, <1>6 DEF FrameRecord
<1>9. cl'[c].status = "RUNNING" /\ \A d \in Closure : d # c => cl'[d].status = cl[d].status
  BY <1>2, <1>4 DEF ClosureRecord
<1>10. ClaimTree /\ cl'[c].has_cilk_callee = cl[c].has_cilk_callee /\ cl'[c].frame = cl[c].frame
  BY <1>1, QuietClaimTree DEF QuietTree, SameSites
<1>11. ClaimFrames(w)
  BY <1>5, <1>6, <1>7, <1>8, <1>10, OneFrameClaims
<1>12. WorkerOf(w)'
  BY <1>1, <1>3, <1>8, <1>9, <1>10, WorkerNext
<1>13. \A v \in Worker \ {w} : Hand(v) # NULL /\ cl'[Hand(v)].status = "RETURNING" => cl[Hand(v)].status = "RETURNING"
  <2>. TAKE v \in Worker \ {w}
  <2>1. Hand(v) # NULL => Hand(v) \in Closure
    BY HandIs, FParts
  <2>. QED  BY <1>5, <1>9, <2>1
<1>14. ~Thief(w)
  BY <1>2 DEF Thief
<1>. QED  BY <1>1, <1>5, <1>10, <1>11, <1>12, <1>13, <1>14, ClaimStep

LEMMA PushClaims ==
  ASSUME FInv, ClaimInv, NEW w \in Worker, NEW c \in Closure, PushAndRun(w, c)
  PROVE  ClaimInv'
<1>1. cl' = cl /\ \A v \in Worker : Hand(v)' = Hand(v)
  BY HandMoves DEF HandQuiet
<1>2. pc[w] = "push" /\ t[w] = c /\ ltq' = ltq /\ cur' = cur
  BY DEF PushAndRun, At
<1>3. pc'[w] = "user" /\ \A v \in Worker \ {w} : pc'[v] = pc[v]
  BY GoesTo DEF PushAndRun
<1>4. \A v \in Worker \ {w} : t'[v] = t[v] /\ deque'[v] = deque[v] /\ good'[v] = good[v]
  BY FParts DEF PushAndRun, Typed, TypedRuntime
<1>5. /\ cl[c].frame \in Frame /\ fr[cl[c].frame].stolen /\ Hand(w) = c /\ cur[w] = cl[c].frame /\ ltq[w] = <<>>
      /\ cl[c].status = "RUNNING" /\ c # NULL /\ cl[c].frame # NULL
  <2>1. StageInv(w) /\ ChainInv(w) /\ PlaceInv(w)
    BY FParts
  <2>2. /\ cl[c].frame \in Frame /\ fr[cl[c].frame].stolen /\ Hand(w) = c
    BY <1>2, PushedApart
  <2>3. c # NULL
    BY FParts
  <2>. QED  BY <1>2, <2>1, <2>2, <2>3, Kinds DEF StageInv, ChainInv, PlaceInv
<1>6. fr[cl[c].frame].worker = w
  BY <1>2, <1>5 DEF ClaimInv, WorkerOf
<1>7. \A h \in Frame : fr'[h].stolen = fr[h].stolen /\ fr'[h].worker = fr[h].worker
  <2>1. fr \in [Frame -> FrameRecord]
    BY FParts DEF Typed, TypedRun
  <2>2. \/ fr' = [fr EXCEPT ![cl[c].frame].at = @ + 1]
        \/ fr' = [fr EXCEPT ![cl[c].frame].sp = cl[c].fiber]
    BY DEF PushAndRun
  <2>. QED  BY <2>1, <2>2 DEF FrameRecord
<1>8. WorkerOf(w)'
  <2>1. Tips(w)' = <<cl[c].frame>>
    <3>1. Tips(w)' = Append(ltq'[w], cur'[w])
      BY <1>3 DEF Tips
    <3>. QED  BY <1>2, <1>5, <3>1, OneEntry
  <2>. QED  BY <1>1, <1>3, <1>5, <1>6, <1>7, <2>1, ResumedClaims
<1>9. ClaimTree /\ ClaimFrames(w)
  <2>1. Closure' = Closure
    BY <1>1 DEF Closure
  <2>. QED  BY <1>1, <1>7, <2>1 DEF ClaimTree, ClaimFrames
<1>10. \A v \in Worker \ {w} : Idles(v) /\ Hand(v)' = Hand(v)
  BY <1>1, <1>2, <1>3, <1>4 DEF Idles
<1>11. \A v \in Worker \ {w} : Hand(v) # NULL /\ cl'[Hand(v)].status = "RETURNING" => cl[Hand(v)].status = "RETURNING"
  BY <1>1
<1>12. ~Thief(w)
  BY <1>2 DEF Thief
<1>. QED  BY <1>8, <1>9, <1>10, <1>11, <1>12, ClaimStep

(* A sync: the frame goes on, or it waits with no worker.                     *)
LEMMA SyncClaims ==
  ASSUME FInv, FiberInv, ClaimInv, NEW w \in Worker, NEW c \in Closure, SyncNotReady(w, c) \/ SyncReady(w, c)
  PROVE  ClaimInv'
<1>1. /\ Closure' = Closure /\ c = Hand(w) /\ \A d \in Closure \ {c} : cl'[d] = cl[d]
      /\ cl'[c] = IF Closure_has_children(c) THEN [cl[c] EXCEPT !.status = "SUSPENDED", !.fiber = NULL]
                                             ELSE SetupForSync(cl[c])
      /\ \A d \in Closure : /\ cl'[d].spawn_parent = cl[d].spawn_parent
                            /\ cl'[d].call_parent = cl[d].call_parent /\ cl'[d].frame = cl[d].frame
                            /\ cl'[d].has_cilk_callee = cl[d].has_cilk_callee
      /\ \A v \in Worker \ {w} : Hand(v)' = Hand(v)
  BY SyncTree
<1>2. /\ pc[w] = "sync" /\ cl[c].frame = cur[w] /\ cur[w] \in Frame /\ fr[cur[w]].stolen /\ ltq[w] = <<>>
      /\ cl[c].frame # NULL /\ c # NULL
  BY SyncFrame, Kinds, FParts
<1>3. /\ \A h \in Frame : fr'[h].stolen = fr[h].stolen
      /\ \A h \in Frame \ {cur[w]} : fr'[h] = fr[h]
      /\ \A v \in Worker \ {w} : Idles(v)
      /\ ~cl[c].has_cilk_callee /\ cl[c].status # "SUSPENDED"
  BY SyncLeaves
<1>4. \A v \in Worker \ {w} : Hand(v) # c
  BY <1>1, <1>2, FParts DEF IInv, OneHand
<1>5. ClaimTree
  BY <1>1 DEF ClaimTree
<1>6. ClaimFrames(w)
  BY <1>1, <1>2, <1>3, <1>4, OneFrameClaims
<1>7. \A v \in Worker \ {w} : Hand(v) # NULL /\ cl'[Hand(v)].status = "RETURNING" => cl[Hand(v)].status = "RETURNING"
  <2>. TAKE v \in Worker \ {w}
  <2>1. Hand(v) # NULL => Hand(v) \in Closure \ {c}
    BY <1>4, HandIs, FParts
  <2>. QED  BY <1>1, <2>1
<1>8. ~Thief(w)
  BY <1>2 DEF Thief
<1>9. cl[c] \in ClosureRecord /\ fr \in [Frame -> FrameRecord]
  BY FParts, TreeIsSeq DEF Typed, TypedRun
<1>10. ASSUME SyncNotReady(w, c)
       PROVE  WorkerOf(w)'
  <2>1. pc'[w] = "back"
    BY <1>10, GoesTo DEF SyncNotReady
  <2>2. t' = t /\ deque' = [deque EXCEPT ![w] = Front(@)] /\ t[w] = NULL /\ deque[w] = <<c>>
    BY <1>1, <1>2, <1>10, UserCover DEF SyncNotReady
  <2>3. Hand(w)' = NULL
    <3>1. deque'[w] = <<>>
      BY <2>2, OneEntry, FParts DEF Typed, TypedRuntime
    <3>. QED  BY <2>2, <3>1 DEF Hand
  <2>. QED  BY <2>1, <2>3, WorkerNext
<1>11. ASSUME SyncReady(w, c)
       PROVE  WorkerOf(w)'
  <2>1. pc'[w] = "user" /\ ltq' = ltq /\ cur' = cur /\ t' = t /\ deque' = deque
    BY <1>11, GoesTo DEF SyncReady
  <2>2. Hand(w)' = c
    BY <1>1, <2>1, HandsStay
  <2>3. cl'[c].status = cl[c].status
    <3>1. ~Closure_has_children(c)
      BY <1>11 DEF SyncReady
    <3>. QED  BY <1>1, <1>9, <3>1 DEF SetupForSync, ClosureRecord
  <2>4. cl[c].status # "RETURNING"
    BY <1>1, <1>2 DEF ClaimInv, WorkerOf
  <2>5. fr'[cur[w]].worker = w
    <3>1. fr' = [fr EXCEPT ![cur[w]] = [SyncedFrame(w, cl[c]) EXCEPT !.at = @ + 1]]
      BY <1>2, <1>11 DEF SyncReady
    <3>2. SyncedFrame(w, cl[c]) = [fr[cur[w]] EXCEPT !.unsynced = FALSE, !.sp = cl[c].orig_rsp, !.worker = w]
      BY <1>2 DEF SyncedFrame
    <3>3. fr[cur[w]] \in FrameRecord
      BY <1>2, <1>9
    <3>4. [SyncedFrame(w, cl[c]) EXCEPT !.at = @ + 1].worker = w
      BY <3>2, <3>3 DEF FrameRecord
    <3>. QED  BY <1>2, <1>9, <3>1, <3>4
  <2>6. Tips(w)' = <<cur[w]>>
    <3>1. Tips(w)' = Append(ltq'[w], cur'[w])
      BY <2>1 DEF Tips
    <3>. QED  BY <1>2, <2>1, <3>1, OneEntry
  <2>. QED  BY <1>1, <1>2, <1>3, <2>1, <2>2, <2>3, <2>4, <2>5, <2>6, ResumedClaims
<1>. QED  BY <1>1, <1>3, <1>5, <1>6, <1>7, <1>8, <1>10, <1>11, ClaimStep

(* A called full frame returns: its caller goes on.                           *)
LEMMA SetReturnClaims ==
  ASSUME FInv, ClaimInv, NEW w \in Worker, NEW c \in Closure, NEW p \in Closure, SetReturnParent(w, c, p)
  PROVE  ClaimInv'
<1>0. ResumesCaller(w, c, p)
  BY CalledReturns
<1>1. /\ pc[w] = "set_return_parent" /\ pc'[w] = "user" /\ \A v \in Worker \ {w} : pc'[v] = pc[v]
      /\ cl[p].frame = cur[w] /\ cur[w] \in Frame /\ fr[cur[w]].stolen
      /\ cl[p].status = "SUSPENDED" /\ cl[p].has_cilk_callee /\ ltq[w] = <<>>
      /\ Closure' = Closure /\ cl'[p].status = "RUNNING" /\ ~cl'[p].has_cilk_callee
      /\ \A d \in Closure : SameSites(cl'[d], cl[d])
      /\ \A d \in Closure \ {p} : cl'[d].status = cl[d].status /\ cl'[d].has_cilk_callee = cl[d].has_cilk_callee
  BY <1>0 DEF ResumesCaller
<1>2. /\ Hand(w)' = p /\ \A v \in Worker \ {w} : Idles(v) /\ Hand(v)' = Hand(v)
      /\ \A h \in Frame \ {cur[w]} : fr'[h] = fr[h]
      /\ fr'[cur[w]] = [fr[cur[w]] EXCEPT !.worker = w]
      /\ ltq' = ltq /\ cur' = cur
  BY <1>0 DEF ResumesCaller
<1>3. \A v \in Worker : Hand(v) # p
  BY <1>1, SuspendedStolen
<1>4. fr'[cur[w]].worker = w /\ \A h \in Frame : fr'[h].stolen = fr[h].stolen
  <2>1. fr[cur[w]] \in FrameRecord
    BY <1>1, FParts DEF Typed, TypedRun
  <2>. QED  BY <1>1, <1>2, <2>1 DEF FrameRecord
<1>5. ClaimTree
  BY <1>1 DEF ClaimTree, SameSites
<1>6. ClaimFrames(w)
  BY <1>1, <1>2, <1>3, <1>4, Kinds, OneFrameClaims
<1>7. WorkerOf(w)'
  <2>1. Tips(w)' = <<cur[w]>>
    <3>1. Tips(w)' = Append(ltq'[w], cur'[w])
      BY <1>1 DEF Tips
    <3>. QED  BY <1>1, <1>2, <3>1, OneEntry
  <2>2. p # NULL /\ cl'[p].frame = cur[w]
    BY <1>1, FParts DEF SameSites
  <2>. QED  BY <1>1, <1>2, <1>4, <2>1, <2>2, ResumedClaims
<1>8. \A v \in Worker \ {w} : Hand(v) # NULL /\ cl'[Hand(v)].status = "RETURNING" => cl[Hand(v)].status = "RETURNING"
  <2>. TAKE v \in Worker \ {w}
  <2>1. Hand(v) # NULL => Hand(v) \in Closure \ {p}
    BY <1>3, HandIs, FParts
  <2>. QED  BY <1>1, <2>1
<1>9. ~Thief(w)
  BY <1>1 DEF Thief
<1>. QED  BY <1>2, <1>5, <1>6, <1>7, <1>8, <1>9, ClaimStep

(* A child is back: the worker that is to resume its parent is its worker.    *)
LEMMA RejoinClaims ==
  ASSUME FInv, ClaimInv, NEW w \in Worker, NEW c \in Closure, NEW p \in Closure, ReturnParent(w, c, p)
  PROVE  ClaimInv'
<1>0. PICK steal \in BOOLEAN : steal <=> IsGoodSteal(p)
  OBVIOUS
<1>1. GivesBack(w, c, p)
  BY ChildBack
<1>2. /\ pc[w] = "return" /\ pc'[w] = "loop" /\ Closure' = Closure
      /\ \A d \in Closure : /\ cl'[d].frame = cl[d].frame /\ cl'[d].call_parent = cl[d].call_parent
                            /\ cl'[d].spawn_parent = cl[d].spawn_parent
                            /\ cl'[d].has_cilk_callee = cl[d].has_cilk_callee
                            /\ cl'[d].status = IF d = p /\ steal THEN "READY" ELSE cl[d].status
  BY <1>0, <1>1 DEF GivesBack
<1>3. /\ \A v \in Worker \ {w} : Idles(v) /\ Hand(v)' = Hand(v)
      /\ Hand(w)' = IF steal THEN p ELSE NULL
      /\ ~steal => fr' = fr
      /\ steal => /\ fr' = [fr EXCEPT ![cl[p].frame] = SyncedFrame(w, cl[p])]
                  /\ cl[p].status = "SUSPENDED" /\ \A v \in Worker : Hand(v) # p
  BY <1>0, <1>1 DEF GivesBack
<1>4. ClaimTree
  BY <1>2 DEF ClaimTree
<1>5. ClaimFrames(w)
  <2>1. CASE ~steal
    BY <1>3, <2>1 DEF ClaimFrames
  <2>2. CASE steal
    <3>1. cl[p].frame \in Frame /\ \A h \in Frame : fr'[h].stolen = fr[h].stolen
      BY <1>1, ChildGone DEF GivesBack
    <3>2. fr[cl[p].frame].stolen /\ cl[p].frame # NULL
      BY <1>3, <2>2, <3>1, SuspendedStolen, Kinds
    <3>3. \A h \in Frame \ {cl[p].frame} : fr'[h].worker = fr[h].worker
      BY <1>3, <2>2, FParts DEF Typed, TypedRun
    <3>4. ~cl'[p].has_cilk_callee
      BY <1>0, <1>2, <2>2 DEF IsGoodSteal
    <3>. QED  BY <1>3, <2>2, <3>1, <3>2, <3>3, <3>4, OneFrameClaims
  <2>. QED  BY <2>1, <2>2
<1>6. WorkerOf(w)'
  BY <1>2, <1>3, WorkerNext
<1>7. \A v \in Worker \ {w} : Hand(v) # NULL /\ cl'[Hand(v)].status = "RETURNING" => cl[Hand(v)].status = "RETURNING"
  <2>. TAKE v \in Worker \ {w}
  <2>1. Hand(v) # NULL => Hand(v) \in Closure
    BY HandIs, FParts
  <2>. QED  BY <1>2, <2>1
<1>8. ~Thief(w)
  BY <1>2 DEF Thief
<1>. QED  BY <1>3, <1>4, <1>5, <1>6, <1>7, <1>8, ClaimStep

(* The thief of a frame that had no closure makes the victim's wait.          *)
LEMMA PromoteClaims ==
  ASSUME FInv, ClaimInv, NEW w \in Worker, NEW v \in Worker, NEW c \in Closure, Promote(w, v, c)
  PROVE  ClaimInv'
<1>1. PICK x, d \in Nat, f \in Frame : Takes(w, v, c, x, d, f)
  BY PromoteTakes
<1>2. /\ fr' = fr /\ cur' = cur /\ pc[w] = "steal" /\ pc'[w] = "promoted" /\ pc[v] = "user" /\ pc'[v] = "user"
      /\ v # w /\ t'[w] = x /\ Hand(v) = c /\ Hand(w)' = x /\ Hand(v)' = d
      /\ \A u \in Worker \ {v, w} : Idles(u) /\ Hand(u)' = Hand(u) /\ Hand(u) \notin {c, x, d}
      /\ Closure' = Closure \union {x, d} /\ d \notin Closure /\ x # d
      /\ cl'[d].frame = NULL /\ ~cl'[d].has_cilk_callee /\ cl'[d].status = "RUNNING"
      /\ cl'[x].frame = f /\ ~cl'[x].has_cilk_callee /\ cl'[x].status = "RUNNING"
  BY <1>1 DEF Takes
<1>3. \A e \in Closure : /\ cl'[e].frame = cl[e].frame /\ cl'[e].call_parent = cl[e].call_parent
                         /\ cl'[e].spawn_parent = cl[e].spawn_parent
                         /\ e # c => /\ cl'[e].has_cilk_callee = cl[e].has_cilk_callee
                                     /\ cl'[e].status = cl[e].status
  BY <1>1 DEF Takes
<1>4. x = c \/ (x \notin Closure /\ cl'[x].call_parent = c /\ ~fr[f].stolen)
  BY <1>1, TakenFrame DEF Takes
<1>5. Held(v)' \subseteq Held(v)
  BY <1>1, TakenTips
<1>6. ASSUME NEW e \in Closure, Pending(e)  PROVE Pending(e)'
  <2>1. PICK u \in Worker : Thief(u) /\ ~fr[cl[t[u]].frame].stolen /\ cl[t[u]].call_parent = e
    BY <1>6 DEF Pending
  <2>2. t[u] \in Closure
    BY <2>1, ThiefParked DEF Thief
  <2>3. u \in Worker \ {v, w}
    BY <1>2, <2>1 DEF Thief
  <2>4. Thief(u)' /\ t'[u] = t[u]
    BY <1>2, <2>1, <2>3 DEF Idles, Thief
  <2>5. cl'[t[u]].frame = cl[t[u]].frame /\ cl'[t[u]].call_parent = e
    BY <1>3, <2>1, <2>2
  <2>6. ~fr'[cl'[t'[u]].frame].stolen /\ cl'[t'[u]].call_parent = e
    BY <1>2, <2>1, <2>4, <2>5
  <2>. QED  BY <2>4, <2>6 DEF Pending
<1>7. NullInv'
  <2>. SUFFICES ASSUME NEW e \in Closure', cl'[e].has_cilk_callee, cl'[e].frame # NULL
                PROVE  fr'[cl'[e].frame].worker = NULL \/ Pending(e)'
    BY DEF NullInv
  <2>1. e \in Closure /\ e # x /\ e # d
    BY <1>2
  <2>2. CASE e = c
    <3>1. x # c /\ cl'[x].call_parent = c /\ ~fr[f].stolen
      BY <1>4, <2>1, <2>2
    <3>2. Thief(w)' /\ ~fr'[cl'[t'[w]].frame].stolen /\ cl'[t'[w]].call_parent = e
      BY <1>2, <2>2, <3>1 DEF Thief
    <3>. QED  BY <3>2 DEF Pending
  <2>3. CASE e # c
    <3>1. fr[cl[e].frame].worker = NULL \/ Pending(e)
      BY <1>3, <2>1, <2>3 DEF ClaimInv, NullInv
    <3>. QED  BY <1>2, <1>3, <1>6, <2>1, <3>1
  <2>. QED  BY <2>2, <2>3
<1>8. WorkerOf(w)'
  BY <1>2, WorkerNext
<1>9. WorkerOf(v)'
  <2>1. \A h \in Held(v) : OwnIn(fr, v, h)
    BY <1>2 DEF ClaimInv, WorkerOf
  <2>2. \A h \in Held(v)' : OwnIn(fr', v, h)
    BY <1>2, <1>5, <2>1
  <2>3. cl'[Hand(v)'].status = "RUNNING" /\ cl'[Hand(v)'].frame = NULL /\ pc'[v] = "user"
    BY <1>2
  <2>. QED  BY <2>2, <2>3, WorkerNext
<1>10. ASSUME NEW u \in Worker \ {v, w}  PROVE WorkerOf(u)'
  <2>1. WorkersStay(u)
    BY <1>2 DEF WorkersStay
  <2>2. Idles(u) /\ Hand(u)' = Hand(u) /\ Hand(u) # c
    BY <1>2, <1>10
  <2>3. Hand(u) \in Closure \union {NULL} /\ NULL \notin Closure
    BY FParts, HandIs
  <2>4. Hand(u) # NULL => /\ cl'[Hand(u)].frame = cl[Hand(u)].frame
                          /\ cl'[Hand(u)].spawn_parent = cl[Hand(u)].spawn_parent
                          /\ cl'[Hand(u)].status = "RETURNING" => cl[Hand(u)].status = "RETURNING"
    BY <1>3, <2>2, <2>3
  <2>5. WorkerOf(u) /\ \A e \in Closure : cl[e].frame # NULL => cl'[e].frame = cl[e].frame
    BY <1>3 DEF ClaimInv
  <2>. QED  BY <2>1, <2>2, <2>4, <2>5, OthersWorkers
<1>. QED  BY <1>7, <1>8, <1>9, <1>10 DEF ClaimInv

(* The thief that linked the callers of what it stole has taken them from     *)
(* their workers.                                                             *)
LEMMA FinishNewClaims ==
  ASSUME FInv, IInv', ClaimInv, NEW w \in Worker, NEW y \in Closure, FinishPromote(w, y),
         ~fr[cl[y].frame].stolen
  PROVE  ClaimInv'
<1>1. PICK o \in Closure, f \in Frame, n \in Nat : \E L, G : Finishes(w, y, o, f, n, L, G)
  BY FinishPath
<1>2. PICK L, G : Finishes(w, y, o, f, n, L, G)
  BY <1>1
<1>3. /\ pc[w] = "finish" /\ pc'[w] = "do" /\ t[w] = y /\ Hand(w) = y /\ y # o /\ cl[y].frame = f
      /\ t' = t /\ ltq' = ltq /\ cur' = cur /\ cl[y].call_parent = o
      /\ \A u \in Worker : Hand(u)' = Hand(u)
      /\ \A u \in Worker \ {w} : Idles(u) /\ Hand(u) \notin {y, o}
      /\ \A g \in Frame : /\ fr[g].stolen => fr'[g].stolen
                          /\ g \notin Range(Stacklet[f]) => fr'[g].stolen = fr[g].stolen
  BY <1>2 DEF Finishes
<1>4. /\ \A e \in Closure' : e \in Closure \ {y, o} \/ e = o \/ \E i \in 1..n + 1 : e = L[i]
      /\ \A i \in 1..n + 1 : cl'[L[i]].frame = G[i]
      /\ cl'[y].frame = f /\ cl'[y].status = "READY" /\ ~cl'[y].has_cilk_callee
      /\ cl'[o].frame = G[0] /\ L[n + 1] = y
      /\ \A e \in Closure \ {y, o} : cl'[e] = cl[e]
      /\ \A e \in Closure : /\ cl'[e].spawn_parent = cl[e].spawn_parent
                            /\ cl[e].frame # NULL => cl'[e].frame = cl[e].frame
      /\ NULL \notin Closure' /\ Closure \subseteq Closure'
  BY <1>2, FinishedClosures
<1>5. \A g \in Frame : fr'[g].worker = IF g # f /\ (fr'[g].stolen # fr[g].stolen \/ g = G[0])
                                       THEN NULL ELSE fr[g].worker
  <2>1. FinishedSites(y, o)
    BY <1>3, FParts, NewFrameFinished
  <2>. QED  BY <1>3, <1>4, <2>1 DEF FinishedSites
<1>6. /\ \A i \in 0..n + 1 : G[i] \in Frame /\ fr'[G[i]].stolen
      /\ \A i \in 1..n + 1 : ~fr[G[i]].stolen
      /\ \A i, j \in 0..n + 1 : G[i] = G[j] => i = j
      /\ G[n + 1] = f
  BY <1>2 DEF Finishes
<1>7. \A e \in Closure \ {y} : cl[e].frame \in Range(Stacklet[f]) => fr[cl[e].frame].stolen
  BY <1>2, FinishedApart
<1>0. \A h \in Frame : fr[h].stolen \in BOOLEAN /\ fr'[h].stolen \in BOOLEAN
  <2>1. fr' \in [Frame -> FrameRecord]
    BY DEF IInv, Typed, TypedRun
  <2>2. \A h \in Frame : fr'[h].stolen \in BOOLEAN
    BY <2>1 DEF FrameRecord
  <2>. QED  BY <2>2, FParts, AtFacts
<1>8. ASSUME NEW e \in Closure \ {y, o}, Pending(e)  PROVE Pending(e)'
  <2>1. PICK u \in Worker : Thief(u) /\ ~fr[cl[t[u]].frame].stolen /\ cl[t[u]].call_parent = e
    BY <1>8 DEF Pending
  <2>2. t[u] \in Closure /\ Hand(u) = t[u] /\ cl[t[u]].frame \in Frame
    BY <2>1, ThiefParked DEF Thief
  <2>3. u # w
    BY <1>3, <1>8, <2>1
  <2>4. t[u] \in Closure \ {y, o}
    BY <1>3, <2>2, <2>3
  <2>5. cl[t[u]].frame \notin Range(Stacklet[f])
    BY <1>7, <2>1, <2>4
  <2>6. Thief(u)' /\ t'[u] = t[u]
    BY <1>3, <2>1, <2>3 DEF Idles, Thief
  <2>7. cl'[t[u]] = cl[t[u]] /\ ~fr'[cl[t[u]].frame].stolen
    BY <1>3, <1>4, <2>1, <2>2, <2>4, <2>5
  <2>8. ~fr'[cl'[t'[u]].frame].stolen /\ cl'[t'[u]].call_parent = e
    BY <2>1, <2>6, <2>7
  <2>. QED  BY <2>6, <2>8 DEF Pending
<1>9. NullInv'
  <2>. SUFFICES ASSUME NEW e \in Closure', cl'[e].has_cilk_callee, cl'[e].frame # NULL
                PROVE  fr'[cl'[e].frame].worker = NULL \/ Pending(e)'
    BY DEF NullInv
  <2>1. CASE e \in Closure \ {y, o}
    <3>1. fr[cl[e].frame].worker = NULL \/ Pending(e)
      BY <1>4, <2>1 DEF ClaimInv, NullInv
    <3>2. cl[e].frame \in Frame /\ cl'[e].frame = cl[e].frame
      BY <1>4, <2>1, FrameOfClosure
    <3>. QED  BY <1>5, <1>8, <2>1, <3>1, <3>2
  <2>2. CASE e = o
    <3>1. 0 \in 0..n + 1 /\ n + 1 \in 0..n + 1 /\ n + 1 # 0
      OBVIOUS
    <3>2. G[0] \in Frame /\ G[0] # f
      BY <1>6, <3>1
    <3>. QED  BY <1>4, <1>5, <2>2, <3>2
  <2>3. CASE \E i \in 1..n + 1 : e = L[i]
    <3>1. PICK i \in 1..n + 1 : e = L[i]
      BY <2>3
    <3>2. i # n + 1
      BY <1>4, <3>1
    <3>3. i \in 0..n + 1 /\ n + 1 \in 0..n + 1
      BY <3>1
    <3>4. G[i] \in Frame /\ G[i] # f /\ fr'[G[i]].stolen /\ ~fr[G[i]].stolen
      BY <1>6, <3>1, <3>2, <3>3
    <3>5. fr'[G[i]].worker = NULL
      BY <1>5, <3>4
    <3>. QED  BY <1>4, <3>1, <3>5
  <2>. QED  BY <1>4, <2>1, <2>2, <2>3
<1>10. WorkerOf(w)'
  <2>1. pc'[w] = "do" /\ cl'[Hand(w)'].status = "READY"
    BY <1>3, <1>4
  <2>. QED  BY <2>1, WorkerNext
<1>11. ASSUME NEW u \in Worker \ {w}  PROVE WorkerOf(u)'
  <2>1. Idles(u) /\ Hand(u)' = Hand(u) /\ Hand(u) \notin {y, o}
    BY <1>3
  <2>2. Hand(u) \in Closure \union {NULL} /\ NULL \notin Closure
    BY FParts, HandIs
  <2>3. WorkersStay(u)
    <3>. SUFFICES ASSUME NEW h \in Frame, fr[h].at # 0
                  PROVE  /\ fr[h].stolen => fr'[h].stolen
                         /\ \/ fr'[h].worker = fr[h].worker
                            \/ fr'[h].stolen /\ ~(Hand(u) # NULL /\ cl[Hand(u)].frame = h)
      BY DEF WorkersStay
    <3>1. CASE fr'[h].worker = fr[h].worker
      BY <1>3, <3>1
    <3>2. CASE fr'[h].worker # fr[h].worker
      <4>1. h # f /\ (fr'[h].stolen # fr[h].stolen \/ h = G[0])
        BY <1>5, <3>2
      <4>2. 0 \in 0..n + 1
        OBVIOUS
      <4>3. fr'[h].stolen
        <5>1. CASE h = G[0]
          BY <1>6, <4>2, <5>1
        <5>2. CASE fr'[h].stolen # fr[h].stolen
          BY <1>0, <1>3, <5>2
        <5>. QED  BY <4>1, <5>1, <5>2
      <4>4. ASSUME Hand(u) # NULL, cl[Hand(u)].frame = h  PROVE FALSE
        <5>1. Hand(u) \in Closure \ {y, o} /\ cl'[Hand(u)].frame = h
          BY <1>4, <2>1, <2>2, <4>4
        <5>2. CASE h = G[0]
          <6>1. Hand(u) \in Closure' /\ o \in Closure' /\ cl'[o].frame = h /\ h # NULL
            BY <1>4, <5>1, <5>2, Kinds
          <6>2. OneClosure'
            BY <1>2, FinishedLinks
          <6>. QED  BY <5>1, <6>1, <6>2 DEF OneClosure
        <5>3. CASE fr'[h].stolen # fr[h].stolen
          <6>1. h \in Range(Stacklet[f])
            BY <1>3, <5>3
          <6>. QED  BY <1>0, <1>7, <4>3, <4>4, <5>1, <5>3, <6>1
        <5>. QED  BY <4>1, <5>2, <5>3
      <4>. QED  BY <1>3, <4>3, <4>4
    <3>. QED  BY <3>1, <3>2
  <2>4. Hand(u) # NULL => cl'[Hand(u)] = cl[Hand(u)]
    BY <1>4, <2>1, <2>2
  <2>5. WorkerOf(u) /\ \A e \in Closure : cl[e].frame # NULL => cl'[e].frame = cl[e].frame
    BY <1>4 DEF ClaimInv
  <2>. QED  BY <2>1, <2>3, <2>4, <2>5, OthersWorkers
<1>. QED  BY <1>9, <1>10, <1>11 DEF ClaimInv

-----------------------------------------------------------------------------
(* Nobody has a frame at first.                                               *)
LEMMA InitClaims ==
  ASSUME Init
  PROVE  ClaimInv
<1>1. Closure = {1} /\ cl[1].status = "READY" /\ ~cl[1].has_cilk_callee
  BY InitTree
<1>2. NullInv
  BY <1>1 DEF NullInv
<1>3. IInv /\ NULL \notin Closure
  BY InitHolds, FInitHolds, FParts
<1>4. ASSUME NEW w \in Worker  PROVE WorkerOf(w)
  <2>1. pc[w] = "loop"
    BY DEF Init
  <2>2. Hand(w) # NULL => cl[Hand(w)].status = "READY"
    BY <1>1, <1>3, HandIs
  <2>. QED  BY <2>1, <2>2 DEF WorkerOf, Returning
<1>. QED  BY <1>2, <1>4 DEF ClaimInv

LEMMA StillClaims ==
  ASSUME ClaimInv, UNCHANGED vars
  PROVE  ClaimInv'
<1>1. cl' = cl /\ fr' = fr /\ pc' = pc /\ t' = t /\ deque' = deque /\ ltq' = ltq /\ cur' = cur
  BY DEF vars, treeVars, runVars
<1>2. \A w \in Worker : WorkerOf(w)'
  BY <1>1 DEF ClaimInv, WorkerOf, Returning, HasFrame, Held, Tips, Hand, Bottom, OwnIn, Opens
<1>3. NullInv'
  BY <1>1 DEF ClaimInv, NullInv, Pending, Thief, Closure
<1>. QED  BY <1>2, <1>3 DEF ClaimInv

(* Every step keeps the workers of the frames.                                *)
LEMMA ClaimsKept ==
  ASSUME FInv, IInv', FiberInv, ClaimInv, [Next]_vars
  PROVE  ClaimInv'
<1>1. ASSUME NEW w \in Worker, Acquire(w)  PROVE ClaimInv'
  <2>1. CASE \E f \in Frame : SlowSync(w, f) \/ ReturnFullFrame(w, f) \/ EnterHandler(w, f)
    BY <2>1, AtSyncClaims, LeavingClaims
  <2>2. CASE \E c \in Closure : SyncNotReady(w, c) \/ SyncReady(w, c)
    BY <2>2, SyncClaims
  <2>3. CASE \E c \in Closure : Handler(w, c) \/ SetReturnChild(w, c) \/ ReturnChild(w, c)
    BY <2>3, WriteClaims
  <2>4. CASE \E c \in Closure : Execute(w, c) \/ PushAndRun(w, c)
    BY <2>4, ExecuteClaims, PushClaims
  <2>5. CASE \E c \in Closure : \E p \in Closure : SetReturnParent(w, c, p) \/ ReturnParent(w, c, p)
    BY <2>5, SetReturnClaims, RejoinClaims
  <2>6. CASE Extract(w)
    BY <2>6, LocalClaims
  <2>. QED  BY <1>1, <2>1, <2>2, <2>3, <2>4, <2>5, <2>6, Zenon DEF Acquire
<1>2. ASSUME NEW w \in Worker, Proceed(w)  PROVE ClaimInv'
  <2>1. CASE \E f \in Frame : Spawn(w, f) \/ Call(w, f) \/ FastSync(w, f)
    BY <2>1, SpawnClaims, CallClaims, AtSyncClaims
  <2>2. CASE \E f \in Frame : ReturnToCaller(w, f) \/ PopParent(w, f)
    BY <2>2, BelowClaims
  <2>3. CASE FinishRoot(w)
    BY <2>3, LeavingClaims, Kinds
  <2>4. CASE BackToRuntime(w) \/ HaveWork(w) \/ Exit(w) \/ \E v \in Worker : GiveUp(w, v) \/ ReleaseVictim(w, v)
    BY <2>4, LocalClaims DEF RuntimeQuiet
  <2>5. CASE \E v \in Worker : \E c \in Closure : Promote(w, v, c)
    BY <2>5, PromoteClaims
  <2>6. CASE \E y \in Closure : FinishPromote(w, y)
    BY <2>6, FinishFullClaims, FinishNewClaims
  <2>. QED  BY <1>2, <2>1, <2>2, <2>3, <2>4, <2>5, <2>6, Zenon DEF Proceed
<1>3. ASSUME NEW w \in Worker, Steal(w)  PROVE ClaimInv'
  BY <1>3, LocalClaims DEF Steal, RuntimeQuiet
<1>4. CASE UNCHANGED vars
  BY <1>4, StillClaims
<1>. QED  BY <1>1, <1>2, <1>3, <1>4, Zenon DEF Next, Terminated

LEMMA ClaimsInvariant == Spec => [](FInv /\ SibInv /\ FiberInv /\ ClaimInv)
<1>1. Init => FInv /\ SibInv /\ FiberInv /\ ClaimInv
  BY FInitHolds, InitSiblings, InitFibers, InitClaims
<1>2. FInv /\ SibInv /\ FiberInv /\ ClaimInv /\ [Next]_vars => FInv' /\ SibInv' /\ FiberInv' /\ ClaimInv'
  <2>1. FInv /\ [Next]_vars => FInv' /\ IInv'
    BY FNextKeeps DEF FInv
  <2>. QED  BY <2>1, SiblingsKept, FibersKept, ClaimsKept
<1>. QED  BY <1>1, <1>2, PTL DEF Spec

-----------------------------------------------------------------------------
(* A closure whose frame has ended, or that never had one, has no children.   *)
LEMMA EndedAlone ==
  ASSUME FInv, FiberInv, NEW p \in Closure, cl[p].frame = NULL \/ Over(cl[p].frame)
  PROVE  Kids(p) = {} /\ cl[p].join_counter = 0
<1>1. Kids(p) = {}
  <2>. SUFFICES ASSUME Kids(p) # {}  PROVE FALSE
    OBVIOUS
  <2>1. PICK k \in Closure : cl[k].spawn_parent = p
    BY DEF Kids
  <2>2. cl[p].frame # NULL /\ p # NULL
    BY <2>1, FParts DEF IInv, ParentInv
  <2>3. cl[p].frame \in Frame /\ Over(cl[p].frame) /\ Typed
    BY <2>2, FrameOfClosure, FParts
  <2>4. fr[cl[p].frame].at \in Nat /\ fr[cl[p].frame].at >= End(cl[p].frame)
    BY <2>3, AtFacts
  <2>5. ~Spawning(cl[p].frame)
    BY <2>3, <2>4, SyncedAtEnd
  <2>6. fr[cl[p].frame].unsynced \/ BeingStolen(p)
    BY DEF FInv, KidsInv
  <2>7. CASE fr[cl[p].frame].unsynced
    BY <2>3, <2>5, <2>7 DEF FiberInv, PosInv
  <2>8. CASE BeingStolen(p)
    BY <2>5, <2>8 DEF FiberInv, PosInv, BeingStolen, Thief
  <2>. QED  BY <2>6, <2>7, <2>8
<1>2. cl[p].join_counter = Cardinality(Kids(p))
  BY DEF FInv, CountInv
<1>. QED  BY <1>1, <1>2, FS_EmptySet

(* User code runs with its frame's worker set.                                *)
LEMMA OwnsItsFrame ==
  ASSUME FInv, ClaimInv, NEW w \in Worker, pc[w] = "user"
  PROVE  fr[cur[w]].worker = w
<1>1. cur[w] \in Frame /\ cur[w] \in Held(w) /\ Hand(w) \in Closure /\ WorkerOf(w)
  BY UserCover DEF ClaimInv
<1>2. CASE ~fr[cur[w]].stolen
  <2>1. OwnIn(fr, w, cur[w])
    BY <1>1 DEF WorkerOf
  <2>. QED  BY <1>1, <1>2, <2>1, OwnTop
<1>3. CASE fr[cur[w]].stolen
  <2>1. cl[Hand(w)].frame = cur[w] /\ cur[w] # NULL
    BY <1>1, <1>3, StolenAlone, Kinds
  <2>. QED  BY <2>1, <1>1 DEF WorkerOf
<1>. QED  BY <1>2, <1>3

(* The caller of a full frame that returns waits for it, and is no worker's.  *)
LEMMA CallerWaiting ==
  ASSUME FInv, ClaimInv, NEW w \in Worker, pc[w] = "set_return_parent", NEW p, p = cl[t[w]].call_parent
  PROVE  /\ cl[p].status = "SUSPENDED" /\ cl[p].has_cilk_callee
         /\ cl[p].frame = cur[w] /\ fr[cur[w]].stolen
         /\ fr[cur[w]].worker = NULL /\ ltq[w] = <<>>
<1>1. /\ IInv /\ TypedTree /\ PlaceInv(w) /\ ChainInv(w) /\ StageInv(w) /\ NULL \notin Closure
      /\ OneHand /\ CallInv
  BY FParts DEF IInv
<1>2. t[w] \in Closure /\ Hand(w) = t[w] /\ t[w] # NULL
  BY <1>1, HandIs DEF PlaceInv
<1>3. /\ p # NULL /\ cl[p].frame = cur[w] /\ cur[w] \in Frame /\ ltq[w] = <<>> /\ cur[w] # NULL
  BY <1>1, Kinds DEF StageInv, PlaceInv, ChainInv, HasFrame
<1>4. p \in Closure
  BY <1>1, <1>2, <1>3 DEF TypedTree, ClosureRecord
<1>5. Live(t[w])
  BY <1>2 DEF Live
<1>6. cl[p].has_cilk_callee /\ \A d \in Closure : Live(d) /\ cl[d].call_parent = p => d = t[w]
  BY <1>1, <1>2, <1>3, <1>5 DEF CallInv
<1>7. cl[p].status = "SUSPENDED"
  BY <1>1, <1>4, <1>6 DEF CallInv
<1>8. fr[cur[w]].stolen
  BY <1>3, <1>4, <1>7, SuspendedStolen
<1>9. ~Pending(p)
  <2>. SUFFICES ASSUME NEW u \in Worker, Thief(u), cl[t[u]].call_parent = p  PROVE FALSE
    BY DEF Pending
  <2>1. t[u] \in Closure /\ Hand(u) = t[u]
    BY ThiefParked DEF Thief
  <2>2. t[u] = t[w]
    BY <1>6, <2>1 DEF Live
  <2>3. u # w
    BY DEF Thief
  <2>. QED  BY <1>1, <1>2, <2>1, <2>2, <2>3 DEF OneHand
<1>10. fr[cur[w]].worker = NULL
  BY <1>3, <1>4, <1>6, <1>9 DEF ClaimInv, NullInv
<1>. QED  BY <1>3, <1>6, <1>7, <1>8, <1>10

(* A spawn helper that comes to its handler has no children.                  *)
LEMMA HandlerAlone ==
  ASSUME FInv, FiberInv, NEW w \in Worker, pc[w] = "handler"
  PROVE  ~Closure_has_children(Bottom(w))
<1>1. IInv /\ PlaceInv(w) /\ StageInv(w) /\ OneHand /\ CallInv /\ NULL \notin Closure
  BY FParts DEF IInv
<1>2. Hand(w) \in Closure /\ Bottom(w) = Hand(w)
  BY <1>1, HandIs DEF PlaceInv
<1>3. cl[Hand(w)].join_counter = 0
  BY <1>1, <1>2, EndedAlone DEF StageInv
<1>4. cl[Hand(w)].status # "SUSPENDED"
  BY <1>1, <1>2 DEF OneHand
<1>5. ~cl[Hand(w)].has_cilk_callee
  BY <1>1, <1>2, <1>4 DEF CallInv
<1>. QED  BY <1>2, <1>3, <1>5 DEF Closure_has_children

(* The parent of a spawned closure that returns counts it, and has not        *)
(* returned; the fiber it keeps for its sync is another.                      *)
LEMMA ParentWaiting ==
  ASSUME FInv, FiberInv, ClaimInv, NEW w \in Worker, pc[w] = "return", NEW p, p = cl[t[w]].spawn_parent
  PROVE  /\ cl[t[w]].join_counter = 0 /\ cl[t[w]].call_parent = NULL
         /\ cl[p].join_counter > 0 /\ cl[p].status # "RETURNING"
         /\ cl[p].frame = cur[w] /\ cl[p].fiber_child # cl[t[w]].fiber
<1>1. /\ IInv /\ TypedTree /\ PlaceInv(w) /\ StageInv(w) /\ NULL \notin Closure
      /\ OneHand /\ CallInv /\ ParentInv /\ WorkerOf(w) /\ StatusInv
  BY FParts DEF IInv, ClaimInv, FInv
<1>2. PICK c \in Closure : c = t[w] /\ Hand(w) = c /\ cl[c].status = "RETURNING"
  BY <1>1, HandIs DEF PlaceInv, StageInv
<1>3. p # NULL /\ cl[p].frame = cur[w]
  BY <1>1, <1>2 DEF WorkerOf, Returning, HasFrame
<1>4. p \in Closure /\ p = cl[c].spawn_parent
  BY <1>1, <1>2, <1>3 DEF TypedTree, ClosureRecord
<1>5. Live(c) /\ c \in Kids(p)
  BY <1>2, <1>4 DEF Live, Kids
<1>6. cl[c].join_counter = 0
  BY <1>1, <1>2, EndedAlone DEF StatusInv
<1>7. cl[c].call_parent = NULL
  BY <1>1, <1>3, <1>4 DEF ParentInv
<1>8. cl[p].join_counter > 0
  <2>1. cl[p].join_counter = Cardinality(Kids(p)) /\ IsFiniteSet(Kids(p))
    BY <1>4, KidsFinite DEF FInv, CountInv
  <2>. QED  BY <1>5, <2>1, FS_EmptySet, FS_CardinalityType
<1>9. cl[p].status # "RETURNING"
  <2>. SUFFICES ASSUME cl[p].status = "RETURNING"  PROVE FALSE
    OBVIOUS
  <2>1. cl[p].frame = NULL \/ Over(cl[p].frame)
    BY <1>1, <1>4 DEF StatusInv
  <2>. QED  BY <1>4, <1>5, <2>1, EndedAlone
<1>10. cl[p].fiber_child # cl[c].fiber
  <2>. SUFFICES ASSUME cl[p].fiber_child = cl[c].fiber  PROVE FALSE
    OBVIOUS
  <2>1. ~cl[c].has_cilk_callee
    BY <1>1, <1>2 DEF CallInv
  <2>2. cl[c].fiber # NULL
    BY <1>2, <1>5 DEF FiberInv, FiberPart
  <2>3. PICK x \in Fiber : x = cl[c].fiber
    BY <2>2 DEF FiberInv, FiberTyped
  <2>4. Owns("run", c, x) /\ Owns("sync", p, x)
    BY <1>4, <1>5, <2>1, <2>3 DEF Owns
  <2>5. \E k : \A l, j : Owns(l, j, x) => l = k
    BY <2>3 DEF FiberInv, OwnInv
  <2>. QED  BY <2>4, <2>5
<1>. QED  BY <1>2, <1>3, <1>6, <1>7, <1>8, <1>9, <1>10

(* What the code asserts (CILK_ASSERT is compiled out) holds: at the          *)
(* compiler's entry points that user code runs with sf->worker its own        *)
(* worker; in setup_call_parent_resumption, Cilk_exception_handler and        *)
(* Closure_return that the parent of who returns waits for it, that nobody    *)
(* has its frame, and that who returns has no children left (ReturnClaims).   *)
THEOREM FramesReturnAsAsserted == Spec => []ReturnClaims
<1>1. FInv /\ FiberInv /\ ClaimInv => ReturnClaims
  <2>. SUFFICES ASSUME FInv, FiberInv, ClaimInv, NEW w \in Worker
                PROVE  /\ At(w, "user") => fr[cur[w]].worker = w
                       /\ At(w, "set_return_parent") =>
                            LET p == cl[t[w]].call_parent
                            IN /\ cl[p].status = "SUSPENDED" /\ cl[p].has_cilk_callee
                               /\ cl[p].frame = cur[w] /\ fr[cur[w]].stolen
                               /\ fr[cur[w]].worker = NULL /\ ltq[w] = <<>>
                       /\ At(w, "handler") => ~Closure_has_children(Bottom(w))
                       /\ At(w, "return") =>
                            LET p == cl[t[w]].spawn_parent
                            IN /\ cl[t[w]].join_counter = 0 /\ cl[t[w]].call_parent = NULL
                               /\ cl[p].join_counter > 0 /\ cl[p].status # "RETURNING"
                               /\ cl[p].frame = cur[w] /\ cl[p].fiber_child # cl[t[w]].fiber
    BY DEF ReturnClaims
  <2>1. At(w, "user") => fr[cur[w]].worker = w
    BY OwnsItsFrame DEF At
  <2>2. At(w, "set_return_parent") =>
          LET p == cl[t[w]].call_parent
          IN /\ cl[p].status = "SUSPENDED" /\ cl[p].has_cilk_callee
             /\ cl[p].frame = cur[w] /\ fr[cur[w]].stolen
             /\ fr[cur[w]].worker = NULL /\ ltq[w] = <<>>
    BY CallerWaiting DEF At
  <2>3. At(w, "handler") => ~Closure_has_children(Bottom(w))
    BY HandlerAlone DEF At
  <2>4. At(w, "return") =>
          LET p == cl[t[w]].spawn_parent
          IN /\ cl[t[w]].join_counter = 0 /\ cl[t[w]].call_parent = NULL
             /\ cl[p].join_counter > 0 /\ cl[p].status # "RETURNING"
             /\ cl[p].frame = cur[w] /\ cl[p].fiber_child # cl[t[w]].fiber
    BY ParentWaiting DEF At
  <2>. QED  BY <2>1, <2>2, <2>3, <2>4
<1>. QED  BY <1>1, ClaimsInvariant, PTL
=============================================================================
