----------------------- MODULE SchedulerProgram_proof -----------------------
(***************************************************************************)
(* Proofs about the program that the scheduler runs, for any number of     *)
(* workers and any program: it runs as the fork-join semantics says, what  *)
(* a worker finds on its shadow stack is what it left there, and counters  *)
(* and lists of children are right.                                        *)
(*                                                                         *)
(* FInv, the inductive invariant of Scheduler_proof, survives the          *)
(* steps that change the tree of closures: a sync that fails, a return to  *)
(* the parent, and the two halves of a steal, promotion and the thief's    *)
(* finishing of it.  With FInv every step of the scheduler is a step of    *)
(* ForkJoin or a stutter.  SibInv goes on with the lists of children,      *)
(* which five actions change; PosInv says that only a frame that has       *)
(* spawned since its last sync is marked unsynced or stolen from.          *)
(***************************************************************************)
EXTENDS Scheduler_proof

-----------------------------------------------------------------------------
(* Steps that suspend a closure, resume one or end one: no frame moves, and   *)
(* no closure gets another frame or another parent.                           *)
TreeOnly(w) ==
  /\ AtsStay /\ (\A h \in Frame : fr'[h].stolen = fr[h].stolen)
  /\ Closure' = Closure /\ (done => done') /\ (\A v \in Worker \ {w} : Idles(v))
  /\ \A c \in Closure : /\ cl'[c].frame = cl[c].frame /\ cl'[c].spawn_parent = cl[c].spawn_parent
                        /\ cl'[c].call_parent = cl[c].call_parent
                        /\ Live(c)' => Live(c)
                        /\ Live(c) /\ ~Live(c)' => c = Hand(w) /\ ~(\E h \in Helper : cl[c].frame = h /\ Running(h))
                        /\ Parked(c)' => Parked(c) \/ (cl[c].frame \in Held(w) /\ cl[c].frame \notin Held(w)')
  /\ \A v \in Worker \ {w} : Hand(v) # NULL => cl'[Hand(v)].status = cl[Hand(v)].status
  /\ \A h \in Frame : fr[h].unsynced => fr'[h].unsynced \/ \A v \in Worker \ {w} : h \notin Held(v)
  /\ Held(w)' \subseteq Held(w) /\ IsInjective(Tips(w))' /\ Len(Tips(w)) \in {0, 1}
  /\ Upper(w)' # NULL => Upper(w)' \in Closure /\ cl[Upper(w)'].frame # NULL
  /\ Upper(w) # NULL => cl[Upper(w)].frame # NULL

LEMMA TreeStep ==
  ASSUME FInv, IInv', NEW w \in Worker, TreeOnly(w), UnsyncedInv', CountInv', KidsInv', StatusInv',
         ChainInv(w)', CoverInv(w)', StageInv(w)'
  PROVE  FInv'
<1>1. /\ IInv /\ Typed /\ TypedTree /\ AtInv /\ TipInv /\ NULL \notin Closure /\ OneHand /\ CallInv
      /\ \A v \in Worker : PlaceInv(v) /\ HandInv(v) /\ ChainInv(v) /\ CoverInv(v) /\ StageInv(v)
  BY FParts DEF IInv
<1>2. /\ AtInv'
      /\ \A h \in Frame : /\ Active(h) => Active(h)'
                          /\ Running(h)' <=> Running(h)
                          /\ Over(h)' <=> Over(h)
                          /\ AtSync(h)' <=> AtSync(h)
                          /\ Prev(h)' = Prev(h)
  <2>1. fr'[Root].stolen /\ AtsStay
    BY <1>1, Kinds DEF AtInv, TreeOnly
  <2>. QED  BY <2>1, AtStays
<1>3. ASSUME NEW h \in Frame
      PROVE  /\ FreshIn(fr, h) => FreshIn(fr', h)
             /\ \A x : CoversIn(fr, x, h) => CoversIn(fr', x, h)
  <2>1. \A g \in Range(Stacklet[h]) : fr[g].stolen = fr'[g].stolen
    BY StackletOf DEF TreeOnly
  <2>. QED  BY <2>1, CoverKept
<1>4. /\ Closure' = Closure
      /\ \A c \in Closure : /\ cl'[c].frame = cl[c].frame /\ cl'[c].spawn_parent = cl[c].spawn_parent
                            /\ cl'[c].call_parent = cl[c].call_parent
                            /\ Live(c)' => Live(c)
  BY DEF TreeOnly
<1>5. \A v \in Worker \ {w} : Idles(v) /\ Tips(v)' = Tips(v) /\ Held(v)' = Held(v) /\ Hand(v)' = Hand(v)
  BY IdleTips DEF TreeOnly
<1>6. ASSUME NEW v \in Worker \ {w}
      PROVE  /\ ChainInv(v)' /\ CoverInv(v)' /\ StageInv(v)'
             /\ Upper(v)' = Upper(v) /\ (Upper(v) # NULL => Lower(v)' = Lower(v))
  <2>1. KeepsHand(v)
    <3>. SUFFICES ASSUME Hand(v) # NULL
                  PROVE  /\ cl'[Hand(v)].status = cl[Hand(v)].status /\ cl'[Hand(v)].frame = cl[Hand(v)].frame
                         /\ cl'[Hand(v)].call_parent = cl[Hand(v)].call_parent
                         /\ cl[Hand(v)].call_parent # NULL /\ cl[cl[Hand(v)].call_parent].frame # NULL =>
                              cl'[cl[Hand(v)].call_parent].frame = cl[cl[Hand(v)].call_parent].frame
      BY DEF KeepsHand
    <3>1. Hand(v) \in Closure
      BY <1>1, HandIs
    <3>2. cl[Hand(v)].call_parent \in Closure \union {NULL}
      BY <1>1, <3>1 DEF TypedTree
    <3>. QED  BY <3>1, <3>2 DEF TreeOnly
  <2>2. KeepsFrames(v)
    <3>1. ASSUME NEW h \in Held(v)
          PROVE  /\ fr'[h].at = fr[h].at /\ (fr[h].unsynced => fr'[h].unsynced)
                 /\ (FreshIn(fr, h) => FreshIn(fr', h))
      <4>1. h \in Frame
        BY <1>1, <3>1, TipsAre
      <4>. QED  BY <1>3, <3>1, <4>1 DEF TreeOnly, AtsStay
    <3>2. pc[v] \in {"promoted", "finish"} => fr'[cl[t[v]].frame].stolen = fr[cl[t[v]].frame].stolen
      BY ThiefParked DEF TreeOnly
    <3>3. Upper(v) # NULL => /\ cl'[Upper(v)].frame = cl[Upper(v)].frame
                             /\ \A x : CoversIn(fr, x, Lower(v)) => CoversIn(fr', x, Lower(v))
      BY <1>3, <1>4, LowerIs
    <3>4. good[v] => fr'[cl[t[v]].frame].at = fr[cl[t[v]].frame].at /\ Kids(t[v])' = {}
      <4>. SUFFICES ASSUME good[v]  PROVE fr'[cl[t[v]].frame].at = fr[cl[t[v]].frame].at /\ Kids(t[v])' = {}
        OBVIOUS
      <4>1. t[v] \in Closure /\ cl[t[v]].frame \in Frame /\ Kids(t[v]) = {}
        BY <1>1, GoodParked DEF StageInv
      <4>2. t'[v] = t[v]
        BY <1>5 DEF Idles
      <4>3. Kids(t[v])' \subseteq Kids(t[v])
        BY <1>4, <4>2 DEF Kids
      <4>. QED  BY <4>1, <4>3 DEF TreeOnly, AtsStay
    <3>5. \A h \in Frame : Over(h) => Over(h)'
      BY <1>2
    <3>. QED  BY <3>1, <3>2, <3>3, <3>4, <3>5 DEF KeepsFrames
  <2>3. Idles(v) /\ (done => done')
    BY DEF TreeOnly
  <2>. QED  BY <2>1, <2>2, <2>3, IdleKeepsAll
<1>7. SpawnLink'
  <2>. SUFFICES ASSUME NEW c \in Closure, NEW h \in Helper, Live(c)', Begins(c, h)'
                PROVE  HasFrame(cl[c].spawn_parent, Caller(h))'
    BY <1>4 DEF SpawnLink
  <2>1. Begins(c, h)
    <3>1. CASE cl'[c].frame = h
      BY <1>4, <3>1 DEF Begins
    <3>2. CASE cl'[c].frame # h
      <4>1. cl'[c].frame = NULL /\ cl[c].frame = NULL
        BY <1>4, <3>2 DEF Begins
      <4>2. PICK v \in Worker : Upper(v)' = c /\ Oldest(Lower(v))' = h
        BY <3>2 DEF Begins
      <4>3. v # w
        BY <1>1, <4>1, <4>2 DEF TreeOnly
      <4>4. Upper(v) = c /\ Oldest(Lower(v)) = h
        BY <1>1, <1>6, <4>2, <4>3 DEF Oldest
      <4>. QED  BY <4>1, <4>4 DEF Begins
    <3>. QED  BY <3>1, <3>2
  <2>2. HasFrame(cl[c].spawn_parent, Caller(h))
    BY <1>4, <2>1 DEF FInv, SpawnLink
  <2>3. cl[c].spawn_parent \in Closure
    BY <1>1, <2>2 DEF TypedTree, HasFrame
  <2>. QED  BY <1>4, <2>2, <2>3 DEF HasFrame
<1>8. CallLink'
  <2>. SUFFICES ASSUME NEW c \in Closure, Live(c)', cl'[c].frame \in Called, fr'[cl'[c].frame].stolen
                PROVE  HasFrame(cl[c].call_parent, Caller(cl[c].frame))'
    BY <1>4 DEF CallLink
  <2>1. cl'[c].frame = cl[c].frame /\ cl'[c].call_parent = cl[c].call_parent /\ Live(c) /\ cl[c].frame \in Frame
    BY <1>4, Kinds
  <2>2. HasFrame(cl[c].call_parent, Caller(cl[c].frame))
    BY <2>1 DEF FInv, CallLink, TreeOnly
  <2>3. cl[c].call_parent \in Closure
    BY <1>1, <2>2 DEF TypedTree, HasFrame
  <2>4. cl[c].call_parent # NULL /\ cl'[cl[c].call_parent].frame = Caller(cl[c].frame)
    BY <1>4, <2>2, <2>3 DEF HasFrame
  <2>. QED  BY <2>1, <2>4 DEF HasFrame
<1>9. OneClosure'
  BY <1>4 DEF FInv, OneClosure
<1>10. TipInv'
  <2>1. ASSUME NEW v \in Worker  PROVE IsInjective(Tips(v))' /\ \A h \in Held(v)' : Active(h)'
    <3>1. CASE v = w
      <4>1. \A h \in Held(w) : Active(h)'
        BY <1>1, <1>2, TipsAre DEF TipInv
      <4>. QED  BY <3>1, <4>1 DEF TreeOnly
    <3>2. CASE v # w
      <4>1. \A h \in Held(v) : Active(h)'
        BY <1>1, <1>2, TipsAre DEF TipInv
      <4>. QED  BY <1>1, <1>5, <3>2, <4>1 DEF TipInv
    <3>. QED  BY <3>1, <3>2
  <2>2. \A v \in Worker : Held(v)' \subseteq Held(v)
    BY <1>5 DEF TreeOnly
  <2>3. \A u, v \in Worker : u # v => Held(u)' \intersect Held(v)' = {}
    BY <1>1, <2>2 DEF TipInv
  <2>4. ASSUME NEW c \in Closure, Parked(c)'
        PROVE  Active(cl[c].frame)' /\ \A v \in Worker : cl'[c].frame \notin Held(v)'
    <3>1. cl'[c].frame = cl[c].frame /\ cl[c].frame # NULL
      BY <1>4, <2>4 DEF Parked
    <3>2. PICK x \in Frame : x = cl[c].frame
      BY <3>1, FrameOfClosure
    <3>3. Active(x) /\ \A v \in Worker : x \notin Held(v)'
      <4>1. CASE Parked(c)
        BY <1>1, <2>2, <3>2, <4>1 DEF TipInv
      <4>2. CASE ~Parked(c)
        <5>1. x \in Held(w) /\ x \notin Held(w)'
          BY <2>4, <3>2, <4>2 DEF TreeOnly
        <5>2. \A v \in Worker \ {w} : x \notin Held(v)
          BY <1>1, <5>1 DEF TipInv
        <5>. QED  BY <1>1, <2>2, <5>1, <5>2 DEF TipInv
      <4>. QED  BY <4>1, <4>2
    <3>4. cl[c]'.frame = x
      BY <3>1, <3>2
    <3>. QED  BY <1>2, <3>3, <3>4
  <2>. QED  BY <1>4, <2>1, <2>3, <2>4 DEF TipInv
<1>11. SpawnInv'
  <2>. SUFFICES ASSUME NEW h \in Helper, Running(h)'
                PROVE  \/ \E v \in Worker : \E i \in 1..Len(Tips(v)') - 1 : Oldest(Tips(v)[i + 1])' = h
                       \/ \E c \in Closure : Live(c)' /\ Begins(c, h)'
    BY <1>4 DEF SpawnInv
  <2>1. Running(h)
    BY <1>2, Kinds
  <2>2. CASE \E v \in Worker : \E i \in 1..Len(Tips(v)) - 1 : Oldest(Tips(v)[i + 1]) = h
    <3>1. PICK v \in Worker : \E i \in 1..Len(Tips(v)) - 1 : Oldest(Tips(v)[i + 1]) = h
      BY <2>2
    <3>2. v # w
      BY <3>1 DEF TreeOnly
    <3>3. Tips(v)' = Tips(v)
      BY <1>5, <3>2
    <3>4. \E i \in 1..Len(Tips(v)') - 1 : Oldest(Tips(v)[i + 1])' = h
      BY <3>1, <3>3 DEF Oldest
    <3>. QED  BY <3>4
  <2>3. CASE \E c \in Closure : Live(c) /\ Begins(c, h)
    <3>1. PICK c \in Closure : Live(c) /\ Begins(c, h)
      BY <2>3
    <3>2. CASE cl[c].frame = h
      <4>1. Live(c)'
        BY <2>1, <3>1, <3>2 DEF TreeOnly
      <4>. QED  BY <1>4, <3>2, <4>1 DEF Begins
    <3>3. CASE cl[c].frame # h
      <4>1. cl[c].frame = NULL
        BY <3>1, <3>3 DEF Begins
      <4>2. PICK v \in Worker : Upper(v) = c /\ Oldest(Lower(v)) = h
        BY <3>1, <3>3 DEF Begins
      <4>3. v # w
        BY <1>1, <4>1, <4>2 DEF TreeOnly
      <4>4. Upper(v)' = c /\ Lower(v)' = Lower(v)
        BY <1>1, <1>6, <4>2, <4>3
      <4>5. Oldest(Lower(v))' = h
        BY <4>2, <4>4 DEF Oldest
      <4>6. Live(c)'
        <5>. SUFFICES ASSUME c = Hand(w)  PROVE FALSE
          BY <3>1 DEF TreeOnly
        <5>1. pc[v] \in {"user", "sync", "promoted", "finish"}
          BY <1>1, <4>2, LowerIs
        <5>2. CASE pc[v] \in {"user", "sync"}
          <6>1. Hand(v) = c
            BY <1>1, <4>2, <5>2, LowerIs
          <6>. QED  BY <1>1, <4>3, <6>1 DEF OneHand
        <5>3. CASE pc[v] \in {"promoted", "finish"}
          <6>1. t[v] \in Closure /\ Hand(v) = t[v] /\ cl[t[v]].call_parent = c
            BY <1>1, <4>2, <5>3, LowerIs, ThiefParked
          <6>2. Live(t[v])
            BY <6>1 DEF Live
          <6>3. cl[c].status = "SUSPENDED"
            BY <1>1, <6>1, <6>2 DEF CallInv
          <6>. QED  BY <1>1, <6>3 DEF OneHand
        <5>. QED  BY <5>1, <5>2, <5>3
      <4>. QED  BY <1>4, <4>1, <4>4, <4>5, <4>6 DEF Begins
    <3>. QED  BY <3>2, <3>3
  <2>. QED  BY <2>1, <2>2, <2>3 DEF FInv, SpawnInv
<1>12. \A v \in Worker : ChainInv(v)' /\ CoverInv(v)' /\ StageInv(v)'
  BY <1>6
<1>. QED  BY <1>2, <1>7, <1>8, <1>9, <1>10, <1>11, <1>12 DEF FInv

(* A worker that is in user code, at a sync or at the end of a called frame   *)
(* has no provably good steal, and is no thief.                               *)
LEMMA NotGood ==
  ASSUME FInv, NEW w \in Worker, pc[w] \notin {"loop", "do", "push", "exit"}
  PROVE  good[w] = FALSE
<1>1. StageInv(w) /\ good \in [Worker -> BOOLEAN]
  BY FParts DEF Typed, TypedRuntime
<1>. QED  BY <1>1 DEF StageInv

(* The invariant, kept where no child comes or goes.                          *)
LEMMA CountsStay ==
  ASSUME FInv, Closure' = Closure,
         \A c \in Closure : /\ cl'[c].frame = cl[c].frame /\ cl'[c].spawn_parent = cl[c].spawn_parent
                            /\ cl'[c].join_counter = cl[c].join_counter
                            /\ Live(c)' => Live(c)
                            /\ Live(c) /\ ~Live(c)' => cl[c].spawn_parent = NULL,
         \A f \in Frame : fr[f].unsynced => fr'[f].unsynced,
         \A c \in Closure : BeingStolen(c) => BeingStolen(c)' \/ fr'[cl[c].frame].unsynced
  PROVE  CountInv' /\ KidsInv' /\ \A p \in Closure : Kids(p)' = Kids(p)
<1>1. CountInv /\ KidsInv /\ NULL \notin Closure
  BY FParts DEF FInv
<1>2. ASSUME NEW p \in Closure  PROVE Kids(p)' = Kids(p)
  <2>1. \A c \in Closure : cl'[c].spawn_parent = p /\ Live(c)' <=> cl[c].spawn_parent = p /\ Live(c)
    BY <1>1
  <2>. QED  BY <2>1 DEF Kids
<1>3. CountInv'
  BY <1>1, <1>2 DEF CountInv
<1>4. ASSUME NEW p \in Closure, Kids(p) # {}  PROVE fr'[cl[p].frame].unsynced \/ BeingStolen(p)'
  <2>1. fr[cl[p].frame].unsynced \/ BeingStolen(p)
    BY <1>1, <1>4 DEF KidsInv
  <2>2. cl[p].frame \in Frame
    <3>1. PICK c \in Closure : cl[c].spawn_parent = p
      BY <1>4 DEF Kids
    <3>2. cl[p].frame # NULL
      BY <1>1, <3>1, FParts DEF IInv, ParentInv
    <3>. QED  BY <3>2, FrameOfClosure
  <2>. QED  BY <2>1, <2>2
<1>5. KidsInv'
  BY <1>2, <1>4 DEF KidsInv
<1>. QED  BY <1>2, <1>3, <1>5

LEMMA SyncNotReadyF ==
  ASSUME FInv, IInv', NEW w \in Worker, NEW c \in Closure, SyncNotReady(w, c)
  PROVE  FInv'
<1>. DEFINE r == [cl[c] EXCEPT !.status = "SUSPENDED", !.fiber = NULL]
<1>1. /\ pc[w] = "sync" /\ c = Bottom(w) /\ Goto(w, "back")
      /\ cl' = [cl EXCEPT ![c] = r] /\ fr' = [fr EXCEPT ![cl[c].frame] = [fr[cl[c].frame] EXCEPT !.worker = NULL]]
      /\ t' = t /\ deque' = [deque EXCEPT ![w] = Front(@)]
      /\ ltq' = ltq /\ cur' = cur /\ good' = good /\ done' = done
  BY DEF SyncNotReady, At
<1>2. /\ IInv /\ Typed /\ PlaceInv(w) /\ ChainInv(w) /\ StageInv(w) /\ TipInv /\ NULL \notin Closure /\ OneHand
      /\ fr \in [Frame -> FrameRecord] /\ fr' \in [Frame -> FrameRecord] /\ deque \in [Worker -> Deques]
      /\ cl \in Seq(ClosureRecord) /\ Closure = DOMAIN cl /\ cl[c] \in ClosureRecord /\ StatusInv
  BY FParts, TreeIsSeq DEF Typed, TypedRun, TypedRuntime, TypedTree, IInv, Closure, FInv
<1>3. pc'[w] = "back" /\ \A v \in Worker \ {w} : pc'[v] = pc[v]
  BY <1>1, GoesTo
<1>0. PICK f \in Frame : f = cur[w]
  BY <1>1, UserCover
<1>4. c = Hand(w) /\ cur[w] = f /\ f \in Held(w) /\ Active(f) /\ t[w] = NULL /\ Upper(w) = c /\ deque[w] = <<c>>
  BY <1>0, <1>1, UserCover
<1>5. AtSync(f) /\ fr[f].unsynced /\ fr[f].stolen
  BY <1>1, <1>2, <1>4, FParts DEF StageInv, UnsyncedInv
<1>6. ltq[w] = <<>> /\ cl[c].frame = f /\ Tips(w) = <<f>>
  BY <1>1, <1>4, <1>5, StolenAlone
<1>7. r.frame = cl[c].frame /\ r.call_parent = cl[c].call_parent
      /\ r.spawn_parent = cl[c].spawn_parent /\ r.has_cilk_callee = cl[c].has_cilk_callee
      /\ r.status = "SUSPENDED" /\ r.join_counter = cl[c].join_counter
  BY <1>2 DEF ClosureRecord, Status
<1>. HIDE DEF r
<1>8. /\ Closure' = Closure /\ cl'[c].status = "SUSPENDED" /\ \A d \in Closure \ {c} : cl'[d] = cl[d]
      /\ \A d \in Closure : /\ cl'[d].frame = cl[d].frame /\ cl'[d].spawn_parent = cl[d].spawn_parent
                            /\ cl'[d].call_parent = cl[d].call_parent /\ cl'[d].join_counter = cl[d].join_counter
                            /\ cl'[d].has_cilk_callee = cl[d].has_cilk_callee
  <2>1. DOMAIN cl' = DOMAIN cl /\ cl'[c] = r /\ \A d \in Closure \ {c} : cl'[d] = cl[d]
    BY <1>1, <1>2
  <2>2. Closure' = Closure
    BY <1>2, <2>1 DEF Closure
  <2>. QED  BY <1>7, <2>1, <2>2
<1>9. FramesStay
  <2>1. \A h \in Frame \ {f} : fr'[h] = fr[h]
    BY <1>1, <1>2, <1>6
  <2>2. fr'[f] = [fr[f] EXCEPT !.worker = NULL]
    BY <1>1, <1>2, <1>6
  <2>3. fr'[f].at = fr[f].at /\ fr'[f].stolen = fr[f].stolen /\ fr'[f].unsynced = fr[f].unsynced
    BY <1>2, <2>2 DEF FrameRecord
  <2>. QED  BY <2>1, <2>3 DEF FramesStay
<1>10. /\ UnsyncedInv'
       /\ \A h \in Frame : (Over(h)' <=> Over(h)) /\ (AtSync(h)' <=> AtSync(h))
  BY <1>9, StayAt
<1>11. \A v \in Worker \ {w} : Idles(v)
  BY <1>1, <1>3 DEF Idles
<1>12. deque'[w] = <<>> /\ t'[w] = NULL /\ Hand(w)' = NULL /\ \A v \in Worker \ {w} : Hand(v)' = Hand(v) /\ Hand(v) # c
  <2>1. deque'[w] = <<>> /\ t'[w] = NULL
    BY <1>1, <1>2, <1>4, OneEntry
  <2>2. Hand(w)' = NULL
    BY <2>1 DEF Hand
  <2>. QED  BY <1>2, <1>4, <1>11, <2>1, <2>2, IdleTips DEF OneHand
<1>13. \A d \in Closure : Live(d)' <=> Live(d)
  <2>. TAKE d \in Closure
  <2>1. CASE d = c
    BY <1>4, <1>8, <2>1 DEF Live
  <2>2. CASE d # c
    <3>1. \A v \in Worker : Hand(v)' = d <=> Hand(v) = d
      BY <1>2, <1>4, <1>12, <2>2
    <3>. QED  BY <1>8, <2>2, <3>1 DEF Live
  <2>. QED  BY <2>1, <2>2
<1>14. Tips(w)' = <<>> /\ Held(w)' = {} /\ Len(Tips(w)) = 1 /\ f \in Held(w)
  <2>1. Tips(w)' = <<>> /\ Tips(w)' \in Seq(Frame)
    BY <1>3 DEF Tips
  <2>2. Held(w)' = {}
    BY <2>1, EmptyRange DEF Held
  <2>. QED  BY <1>4, <1>6, <2>1, <2>2, OneEntry
<1>15. ASSUME NEW d \in Closure, Parked(d)'
       PROVE  Parked(d) \/ (cl[d].frame \in Held(w) /\ cl[d].frame \notin Held(w)')
  <2>1. CASE d = c
    BY <1>6, <1>14, <2>1
  <2>2. CASE d # c
    <3>1. cl'[d] = cl[d]
      BY <1>8, <2>2
    <3>2. ASSUME NEW v \in Worker, t'[v] = d  PROVE t[v] = d /\ pc'[v] = pc[v]
      <4>1. v # w
        BY <1>2, <1>12, <3>2
      <4>. QED  BY <1>11, <3>2, <4>1 DEF Idles
    <3>. QED  BY <1>15, <3>1, <3>2 DEF Parked
  <2>. QED  BY <2>1, <2>2
<1>16. Upper(w)' = NULL
  BY <1>3 DEF Upper
<1>17. TreeOnly(w)
  <2>1. AtsStay /\ \A h \in Frame : fr'[h].stolen = fr[h].stolen /\ (fr[h].unsynced => fr'[h].unsynced)
    BY <1>9 DEF FramesStay, AtsStay
  <2>2. IsInjective(Tips(w))' /\ Len(Tips(w)) \in {0, 1}
    BY <1>14 DEF IsInjective
  <2>3. \A v \in Worker \ {w} : Hand(v) # NULL => cl'[Hand(v)].status = cl[Hand(v)].status
    BY <1>2, <1>8, <1>12, HandIs
  <2>4. \A d \in Closure :
          /\ cl'[d].frame = cl[d].frame /\ cl'[d].spawn_parent = cl[d].spawn_parent
          /\ cl'[d].call_parent = cl[d].call_parent
          /\ Live(d)' <=> Live(d)
          /\ Parked(d)' => Parked(d) \/ (cl[d].frame \in Held(w) /\ cl[d].frame \notin Held(w)')
    BY <1>8, <1>13, <1>15
  <2>5. cl[Upper(w)].frame # NULL
    BY <1>4, <1>6, Kinds
  <2>. QED  BY <1>1, <1>8, <1>11, <1>14, <1>16, <2>1, <2>2, <2>3, <2>4, <2>5 DEF TreeOnly
<1>18. CountInv' /\ KidsInv'
  <2>1. \A d \in Closure : BeingStolen(d) => BeingStolen(d)'
    BY <1>1, <1>3 DEF BeingStolen
  <2>2. \A h \in Frame : fr[h].unsynced => fr'[h].unsynced
    BY <1>9 DEF FramesStay
  <2>. QED  BY <1>8, <1>13, <2>1, <2>2, CountsStay
<1>19. StatusInv'
  <2>1. ASSUME NEW d \in Closure
        PROVE  /\ cl'[d].status = "RETURNING" => cl'[d].frame = NULL \/ Over(cl[d].frame)'
               /\ cl'[d].status = "SUSPENDED" /\ ~cl'[d].has_cilk_callee => cl'[d].frame # NULL /\ AtSync(cl[d].frame)'
    <3>1. CASE d = c
      <4>1. AtSync(f)' /\ cl'[c].frame = f /\ cl'[c].status = "SUSPENDED" /\ f # NULL
        BY <1>5, <1>6, <1>8, <1>10, Kinds
      <4>2. AtSync(cl[c].frame)'
        BY <4>1
      <4>. QED  BY <3>1, <4>1, <4>2
    <3>2. CASE d # c
      <4>1. cl'[d] = cl[d]
        BY <1>8, <3>2
      <4>2. CASE cl[d].frame = NULL
        BY <1>2, <4>1, <4>2 DEF StatusInv
      <4>3. CASE cl[d].frame # NULL
        <5>1. PICK x \in Frame : x = cl[d].frame
          BY <4>3, FrameOfClosure
        <5>2. (Over(x)' <=> Over(x)) /\ (AtSync(x)' <=> AtSync(x)) /\ cl'[d].frame = x
          BY <1>10, <4>1, <5>1
        <5>. QED  BY <1>2, <4>1, <5>1, <5>2 DEF StatusInv
      <4>. QED  BY <4>2, <4>3
    <3>. QED  BY <3>1, <3>2
  <2>. QED  BY <1>8, <2>1 DEF StatusInv
<1>20. ChainInv(w)' /\ CoverInv(w)' /\ StageInv(w)'
  <2>1. good'[w] = FALSE
    BY <1>1, NotGood
  <2>2. Len(Tips(w)') = 0
    BY <1>14, OneEntry
  <2>3. ChainInv(w)'
    BY <1>1, <1>3, <1>6, <2>2 DEF ChainInv
  <2>. QED  BY <1>3, <1>12, <1>16, <2>1, <2>3 DEF CoverInv, StageInv
<1>. QED  BY <1>10, <1>17, <1>18, <1>19, <1>20, TreeStep

LEMMA StatusStays ==
  ASSUME FInv, AtsStay, fr'[Root].stolen, NEW d \in Closure,
         cl'[d].frame = cl[d].frame, cl'[d].status = cl[d].status,
         cl'[d].has_cilk_callee = cl[d].has_cilk_callee
  PROVE  /\ cl'[d].status = "RETURNING" => cl'[d].frame = NULL \/ Over(cl[d].frame)'
         /\ cl'[d].status = "SUSPENDED" /\ ~cl'[d].has_cilk_callee => cl'[d].frame # NULL /\ AtSync(cl[d].frame)'
<1>1. StatusInv /\ \A h \in Frame : (Over(h)' <=> Over(h)) /\ (AtSync(h)' <=> AtSync(h))
  BY AtStays DEF FInv
<1>2. CASE cl[d].frame = NULL
  BY <1>1, <1>2 DEF StatusInv
<1>3. CASE cl[d].frame # NULL
  <2>1. PICK x \in Frame : x = cl[d].frame
    BY <1>3, FrameOfClosure
  <2>2. (Over(x)' <=> Over(x)) /\ (AtSync(x)' <=> AtSync(x)) /\ cl'[d].frame = x
    BY <1>1, <2>1
  <2>. QED  BY <1>1, <2>1, <2>2 DEF StatusInv
<1>. QED  BY <1>2, <1>3

(* A suspended closure is in nobody's hand, and its frame has a closure.      *)
LEMMA SuspendedStolen ==
  ASSUME FInv, NEW p \in Closure, cl[p].status = "SUSPENDED"
  PROVE  /\ \A v \in Worker : Hand(v) # p /\ t[v] # p
         /\ cl[p].frame # NULL => cl[p].frame \in Frame /\ fr[cl[p].frame].stolen
<1>1. IInv /\ NULL \notin Closure /\ OneHand /\ FrameInv
  BY FParts DEF IInv
<1>2. ASSUME NEW v \in Worker  PROVE Hand(v) # p /\ t[v] # p
  <2>1. Hand(v) # p
    BY <1>1 DEF OneHand
  <2>2. t[v] # p
    BY <1>1, <2>1 DEF Hand
  <2>. QED  BY <2>1, <2>2
<1>3. ~Entering(p)
  BY <1>2 DEF Entering
<1>. QED  BY <1>1, <1>2, <1>3, FrameOfClosure DEF FrameInv

LEMMA SetReturnParentF ==
  ASSUME FInv, IInv', NEW w \in Worker, NEW c \in Closure, NEW p \in Closure, SetReturnParent(w, c, p)
  PROVE  FInv'
<1>. DEFINE a == [cl[c] EXCEPT !.mutex = NULL]
            r == [cl[p] EXCEPT !.status = "RUNNING", !.has_cilk_callee = FALSE, !.callee = NULL]
<1>1. /\ pc[w] = "set_return_parent" /\ c = t[w] /\ p = cl[c].call_parent /\ Goto(w, "user")
      /\ fr' = [fr EXCEPT ![cl[p].frame] = [fr[cl[p].frame] EXCEPT !.worker = w]]
      /\ t' = [t EXCEPT ![w] = NULL] /\ deque' = [deque EXCEPT ![w] = Append(@, p)]
      /\ ltq' = ltq /\ cur' = cur /\ good' = good /\ done' = done
  BY Zenon DEF SetReturnParent, At, CallParentResumption
<1>2. /\ IInv /\ Typed /\ PlaceInv(w) /\ ChainInv(w) /\ StageInv(w) /\ TipInv /\ NULL \notin Closure /\ OneHand
      /\ fr \in [Frame -> FrameRecord] /\ fr' \in [Frame -> FrameRecord] /\ deque \in [Worker -> Deques]
      /\ t \in [Worker -> Closure \union {NULL}] /\ CallInv /\ ParentInv
      /\ cl \in Seq(ClosureRecord) /\ Closure = DOMAIN cl /\ cl[c] \in ClosureRecord /\ cl[p] \in ClosureRecord
  BY FParts, TreeIsSeq, SMTT(30) DEF Typed, TypedRun, TypedRuntime, TypedTree, IInv, Closure
<1>3. pc'[w] = "user" /\ \A v \in Worker \ {w} : pc'[v] = pc[v]
  BY <1>1, GoesTo
<1>0. PICK f \in Frame : f = cur[w]
  BY <1>1, <1>2 DEF PlaceInv
<1>4. c = Hand(w) /\ deque[w] = <<>> /\ ltq[w] = <<>> /\ cl[p].frame = f /\ cl[c].frame \in Called
      /\ Upper(w) = NULL
  BY <1>0, <1>1, <1>2, HandIs DEF StageInv, ChainInv, HasFrame, Upper
<1>5. /\ cl[p].status = "SUSPENDED" /\ cl[c].status # "SUSPENDED" /\ p # c /\ cl[c].spawn_parent = NULL
      /\ \A v \in Worker : Hand(v) # p /\ t[v] # p
      /\ fr[f].stolen
  <2>1. Live(c) /\ cl[c].call_parent # NULL
    BY <1>1, <1>2, <1>4 DEF Live
  <2>2. cl[p].has_cilk_callee
    BY <1>1, <1>2, <2>1 DEF CallInv
  <2>3. cl[p].status = "SUSPENDED"
    BY <1>2, <2>2 DEF CallInv
  <2>4. cl[c].status # "SUSPENDED"
    BY <1>2, <1>4 DEF OneHand
  <2>5. cl[c].spawn_parent = NULL
    BY <1>2, <2>1 DEF ParentInv
  <2>. QED  BY <1>4, <2>3, <2>4, <2>5, SuspendedStolen, Kinds
<1>6. a.frame = cl[c].frame /\ a.call_parent = cl[c].call_parent /\ a.spawn_parent = cl[c].spawn_parent
      /\ a.has_cilk_callee = cl[c].has_cilk_callee /\ a.status = cl[c].status /\ a.join_counter = cl[c].join_counter
  BY <1>2 DEF ClosureRecord
<1>7. r.frame = cl[p].frame /\ r.call_parent = cl[p].call_parent /\ r.spawn_parent = cl[p].spawn_parent
      /\ ~r.has_cilk_callee /\ r.status = "RUNNING" /\ r.join_counter = cl[p].join_counter
  BY <1>2 DEF ClosureRecord, Status
<1>8. cl' = [cl EXCEPT ![c] = a, ![p] = r]
  BY <1>5, Zenon DEF SetReturnParent
<1>. HIDE DEF a, r
<1>9. /\ Closure' = Closure /\ cl'[p].status = "RUNNING" /\ \A d \in Closure \ {c, p} : cl'[d] = cl[d]
      /\ \A d \in Closure : /\ cl'[d].frame = cl[d].frame /\ cl'[d].spawn_parent = cl[d].spawn_parent
                            /\ cl'[d].call_parent = cl[d].call_parent /\ cl'[d].join_counter = cl[d].join_counter
      /\ \A d \in Closure \ {p} : cl'[d].status = cl[d].status /\ cl'[d].has_cilk_callee = cl[d].has_cilk_callee
  <2>1. DOMAIN cl' = DOMAIN cl /\ cl'[c] = a /\ cl'[p] = r /\ \A d \in Closure \ {c, p} : cl'[d] = cl[d]
    BY <1>2, <1>5, <1>8
  <2>2. Closure' = Closure
    BY <1>2, <2>1 DEF Closure
  <2>. QED  BY <1>6, <1>7, <2>1, <2>2
<1>10. FramesStay
  <2>1. \A h \in Frame \ {f} : fr'[h] = fr[h]
    BY <1>1, <1>2, <1>4
  <2>2. fr'[f] = [fr[f] EXCEPT !.worker = w]
    BY <1>1, <1>2, <1>4
  <2>3. fr'[f].at = fr[f].at /\ fr'[f].stolen = fr[f].stolen /\ fr'[f].unsynced = fr[f].unsynced
    BY <1>2, <2>2 DEF FrameRecord
  <2>. QED  BY <2>1, <2>3 DEF FramesStay
<1>11. /\ t'[w] = NULL /\ deque'[w] = <<p>> /\ Hand(w)' = p
       /\ \A v \in Worker \ {w} : Idles(v) /\ Hand(v)' = Hand(v) /\ Hand(v) # c
  <2>1. t'[w] = NULL /\ deque'[w] = <<p>>
    BY <1>1, <1>2, <1>4, OneEntry
  <2>2. Hand(w)' = p
    BY <2>1, OneEntry, SMTT(30) DEF Hand
  <2>3. \A v \in Worker \ {w} : Idles(v)
    BY <1>1, <1>3 DEF Idles
  <2>. QED  BY <1>2, <1>4, <2>1, <2>2, <2>3, IdleTips DEF OneHand
<1>12. /\ ~Live(c)' /\ Live(c) /\ \A d \in Closure \ {c} : Live(d)' <=> Live(d)
  <2>1. ~Live(c)'
    BY <1>5, <1>9, <1>11 DEF Live
  <2>2. Live(p)' /\ Live(p) /\ Live(c)
    BY <1>4, <1>5, <1>11 DEF Live
  <2>3. ASSUME NEW d \in Closure \ {c, p}  PROVE Live(d)' <=> Live(d)
    <3>1. \A v \in Worker : Hand(v)' = d <=> Hand(v) = d
      BY <1>4, <1>11
    <3>. QED  BY <1>9, <3>1 DEF Live
  <2>. QED  BY <2>1, <2>2, <2>3
<1>13. Tips(w) = <<f>> /\ Tips(w)' = <<f>>
  <2>1. Tips(w) = Append(<<>>, f) /\ Tips(w)' = Append(<<>>, f)
    BY <1>0, <1>1, <1>3, <1>4 DEF Tips
  <2>. QED  BY <2>1, OneEntry
<1>14. IsInjective(Tips(w))' /\ Held(w)' = {f} /\ Len(Tips(w)') = 1 /\ Tips(w)'[1] = f
  BY <1>13, OneTip
<1>15. ASSUME NEW d \in Closure, Parked(d)'  PROVE Parked(d)
  <2>1. ASSUME NEW v \in Worker, t'[v] = d  PROVE t[v] = d /\ pc'[v] = pc[v] /\ d # p /\ d # c
    <3>1. v # w
      BY <1>2, <1>11, <2>1
    <3>2. t[v] = d /\ pc'[v] = pc[v]
      BY <1>11, <2>1, <3>1 DEF Idles
    <3>3. Hand(v) = d
      BY <1>2, <3>2 DEF Hand
    <3>. QED  BY <1>5, <1>11, <3>1, <3>2, <3>3
  <2>2. d # p
    BY <1>9, <1>15, <2>1 DEF Parked
  <2>. QED  BY <1>9, <1>15, <2>1, <2>2 DEF Parked
<1>16. Upper(w)' = p /\ Lower(w)' = f
  BY <1>3, <1>11, <1>14, SMTT(30) DEF Upper, Lower
<1>17. TreeOnly(w)
  <2>1. AtsStay /\ \A h \in Frame : fr'[h].stolen = fr[h].stolen /\ (fr[h].unsynced => fr'[h].unsynced)
    BY <1>10 DEF FramesStay, AtsStay
  <2>2. Held(w)' \subseteq Held(w) /\ Len(Tips(w)) \in {0, 1}
    BY <1>13, <1>14, OneEntry DEF Held
  <2>3. \A v \in Worker \ {w} : Hand(v) # NULL => cl'[Hand(v)].status = cl[Hand(v)].status
    BY <1>2, <1>5, <1>9, HandIs
  <2>4. ASSUME NEW d \in Closure
        PROVE
          /\ cl'[d].frame = cl[d].frame /\ cl'[d].spawn_parent = cl[d].spawn_parent
          /\ cl'[d].call_parent = cl[d].call_parent
          /\ Live(d)' => Live(d)
          /\ Live(d) /\ ~Live(d)' => d = Hand(w) /\ ~(\E h \in Helper : cl[d].frame = h /\ Running(h))
          /\ Parked(d)' => Parked(d) \/ (cl[d].frame \in Held(w) /\ cl[d].frame \notin Held(w)')
    BY <1>4, <1>9, <1>12, <1>15, Kinds
  <2>5. Upper(w)' \in Closure /\ cl[Upper(w)'].frame # NULL
    BY <1>4, <1>16, Kinds
  <2>. QED  BY <1>1, <1>4, <1>9, <1>11, <1>14, <2>1, <2>2, <2>3, <2>4, <2>5 DEF TreeOnly
<1>18. CountInv' /\ KidsInv'
  <2>1. \A d \in Closure : BeingStolen(d) => BeingStolen(d)'
    <3>. TAKE d \in Closure
    <3>1. ASSUME NEW v \in Worker, pc[v] \in {"promoted", "finish"}, t[v] = d
          PROVE  pc'[v] \in {"promoted", "finish"} /\ t'[v] = d
      <4>1. v # w
        BY <1>1, <3>1
      <4>. QED  BY <1>11, <3>1, <4>1, SMTT(30) DEF Idles
    <3>. QED  BY <3>1 DEF BeingStolen
  <2>2. \A h \in Frame : fr[h].unsynced => fr'[h].unsynced
    BY <1>10 DEF FramesStay
  <2>. QED  BY <1>5, <1>9, <1>12, <2>1, <2>2, CountsStay
<1>19. UnsyncedInv' /\ AtsStay /\ fr'[Root].stolen
  BY <1>10, StayAt, FParts, Kinds DEF FramesStay, AtsStay, AtInv
<1>20. StatusInv'
  <2>1. ASSUME NEW d \in Closure
        PROVE  /\ cl'[d].status = "RETURNING" => cl'[d].frame = NULL \/ Over(cl[d].frame)'
               /\ cl'[d].status = "SUSPENDED" /\ ~cl'[d].has_cilk_callee => cl'[d].frame # NULL /\ AtSync(cl[d].frame)'
    BY <1>9, <1>19, StatusStays
  <2>. QED  BY <1>9, <2>1 DEF StatusInv
<1>21. ChainInv(w)' /\ CoverInv(w)' /\ StageInv(w)'
  <2>1. good'[w] = FALSE
    BY <1>1, NotGood
  <2>2. ChainInv(w)'
    BY <1>3, <1>14 DEF ChainInv
  <2>3. CoversIn(fr', f, f)
    <3>1. fr'[f].stolen
      BY <1>5, <1>10 DEF FramesStay
    <3>. QED  BY <3>1, CoverTop
  <2>4. CoversIn(fr', cl'[p].frame, f)
    BY <1>4, <1>9, <2>3
  <2>5. CoverInv(w)'
    BY <1>16, <2>4 DEF CoverInv, Covers
  <2>. QED  BY <1>3, <2>1, <2>2, <2>5, SMTT(30) DEF StageInv
<1>. QED  BY <1>17, <1>18, <1>19, <1>20, <1>21, TreeStep

LEMMA RejoinedCount ==
  ASSUME TypedTree, NEW c \in Closure, NEW p \in Closure
  PROVE  /\ Rejoined(p, c).join_counter = cl[p].join_counter - 1
         /\ Unlinked(p, c).join_counter = cl[p].join_counter
         /\ cl[p].join_counter \in Int
<1>1. cl[p] \in ClosureRecord
  BY TreeIsSeq
<1>2. DOMAIN cl[p] = {"mutex", "frame", "fiber", "fiber_child", "join_counter", "orig_rsp", "status",
                      "has_cilk_callee", "callee", "call_parent", "spawn_parent", "left_sib", "right_sib",
                      "right_most_child"} /\ cl[p].join_counter \in Int
  BY <1>1 DEF ClosureRecord
<1>. QED  BY <1>2 DEF Rejoined, Unlinked

(* The child goes, and the closures but the parent are as they were.          *)
LEMMA ChildGone ==
  ASSUME FInv, NEW w \in Worker, NEW c \in Closure, NEW p \in Closure, ReturnParent(w, c, p)
  PROVE  /\ Closure' = Closure /\ p # c /\ c = Hand(w) /\ deque[w] = <<>>
         /\ cl[p].frame \in Frame
         /\ cl'[p].join_counter = cl[p].join_counter - 1 /\ cl[p].join_counter \in Int
         /\ \A d \in Closure : /\ cl'[d].frame = cl[d].frame /\ cl'[d].call_parent = cl[d].call_parent
                               /\ cl'[d].spawn_parent = cl[d].spawn_parent
                               /\ cl'[d].has_cilk_callee = cl[d].has_cilk_callee
                               /\ d # p => cl'[d].join_counter = cl[d].join_counter
                               /\ cl'[d].status = IF d = p /\ IsGoodSteal(p) THEN "READY" ELSE cl[d].status
<1>. DEFINE a == [cl[c] EXCEPT !.mutex = NULL, !.left_sib = NULL, !.right_sib = NULL,
                               !.fiber = IF KeepsFiber(c) THEN NULL ELSE @]
            b == SetupForSync(Rejoined(p, c))
            r == [b EXCEPT !.status = "READY"]
            New(d) == IF d = c THEN a ELSE IF d # p THEN Unlinked(d, c)
                      ELSE IF IsGoodSteal(p) THEN r ELSE Rejoined(p, c)
<1>1. /\ IInv /\ TypedTree /\ ParentInv /\ PlaceInv(w) /\ NULL \notin Closure
      /\ \A d \in Closure : cl[d] \in ClosureRecord
  BY FParts, TreeIsSeq DEF IInv
<1>2. pc[w] = "return" /\ c = t[w] /\ p = cl[c].spawn_parent /\ cl' = [d \in Closure |-> New(d)]
  BY DEF ReturnParent, At
<1>3. p # c
  BY <1>2 DEF FInv, CountInv
<1>4. c = Hand(w) /\ deque[w] = <<>>
  BY <1>1, <1>2, HandIs DEF PlaceInv
<1>5. cl[p].frame \in Frame
  BY <1>1, <1>2, FrameOfClosure DEF ParentInv
<1>6. SameLinks(a, cl[c]) /\ \A d \in Closure : SameLinks(Unlinked(d, c), cl[d]) /\ SameLinks(Rejoined(d, c), cl[d])
  BY <1>1, Rejoining
<1>7. \A d \in Closure : /\ Rejoined(d, c).join_counter = cl[d].join_counter - 1
                         /\ Unlinked(d, c).join_counter = cl[d].join_counter
                         /\ cl[d].join_counter \in Int
  BY <1>1, RejoinedCount
<1>8. a.join_counter = cl[c].join_counter
  BY <1>1 DEF ClosureRecord
<1>9. r.frame = cl[p].frame /\ r.call_parent = cl[p].call_parent
      /\ r.spawn_parent = cl[p].spawn_parent /\ r.has_cilk_callee = cl[p].has_cilk_callee
      /\ r.status = "READY" /\ r.join_counter = cl[p].join_counter - 1
  <2>1. Rejoined(p, c) \in ClosureRecord
    BY <1>6 DEF SameLinks
  <2>2. b \in ClosureRecord /\ b.frame = cl[p].frame /\ b.call_parent = cl[p].call_parent
        /\ b.spawn_parent = cl[p].spawn_parent /\ b.has_cilk_callee = cl[p].has_cilk_callee
        /\ b.join_counter = cl[p].join_counter - 1
    BY <1>6, <1>7, <2>1, SetUp, SetUpSame DEF SameLinks
  <2>. HIDE DEF b
  <2>. QED  BY <2>2 DEF ClosureRecord, Status
<1>. HIDE DEF a, b, r
<1>10. DOMAIN cl' = Closure
  BY <1>2
<1>11. Closure' = Closure
  BY <1>10 DEF Closure
<1>12. ASSUME NEW d \in Closure
       PROVE  /\ cl'[d].frame = cl[d].frame /\ cl'[d].call_parent = cl[d].call_parent
              /\ cl'[d].spawn_parent = cl[d].spawn_parent
              /\ cl'[d].has_cilk_callee = cl[d].has_cilk_callee
              /\ d # p => cl'[d].join_counter = cl[d].join_counter
              /\ cl'[d].status = IF d = p /\ IsGoodSteal(p) THEN "READY" ELSE cl[d].status
  <2>1. CASE d = c
    BY <1>2, <1>3, <1>6, <1>8, <2>1 DEF SameLinks
  <2>2. CASE d # c /\ d # p
    BY <1>2, <1>6, <1>7, <2>2, SMTT(30) DEF SameLinks
  <2>3. CASE d # c /\ d = p /\ IsGoodSteal(p)
    BY <1>2, <1>9, <2>3
  <2>4. CASE d # c /\ d = p /\ ~IsGoodSteal(p)
    BY <1>2, <1>6, <2>4 DEF SameLinks
  <2>. QED  BY <2>1, <2>2, <2>3, <2>4
<1>13. cl'[p].join_counter = cl[p].join_counter - 1
  <2>1. CASE IsGoodSteal(p)
    BY <1>2, <1>3, <1>9, <2>1
  <2>2. CASE ~IsGoodSteal(p)
    BY <1>2, <1>3, <1>7, <2>2
  <2>. QED  BY <2>1, <2>2
<1>. QED  BY <1>3, <1>4, <1>5, <1>7, <1>11, <1>12, <1>13

LEMMA KidsFinite ==
  ASSUME FInv, NEW p \in Closure
  PROVE  IsFiniteSet(Kids(p)) /\ Kids(p) \subseteq Closure
<1>1. Len(cl) \in Nat /\ Closure = 1..Len(cl)
  BY FParts, TreeIsSeq
<1>2. IsFiniteSet(Closure)
  BY <1>1, FS_Interval
<1>3. Kids(p) \subseteq Closure
  BY DEF Kids
<1>. QED  BY <1>2, <1>3, FS_Subset

(* A child is back: it leaves its siblings, and resumes its parent if it was  *)
(* the last and the parent waits for it.                                      *)
GivesBack(w, c, p) ==
  /\ pc[w] = "return" /\ c = t[w] /\ p = cl[c].spawn_parent /\ Goto(w, "loop")
  /\ ltq' = ltq /\ cur' = cur /\ deque' = deque /\ done' = done
  /\ IsGoodSteal(p) => /\ fr' = [fr EXCEPT ![cl[p].frame] = SyncedFrame(w, cl[p])]
                       /\ good' = [good EXCEPT ![w] = TRUE] /\ t' = [t EXCEPT ![w] = p]
  /\ ~IsGoodSteal(p) => t' = [t EXCEPT ![w] = NULL] /\ fr' = fr /\ good' = good
  /\ pc'[w] = "loop" /\ \A v \in Worker \ {w} : pc'[v] = pc[v]
  /\ Closure' = Closure /\ p # c /\ c = Hand(w) /\ deque[w] = <<>>
  /\ cl'[p].join_counter = cl[p].join_counter - 1
  /\ \A d \in Closure : /\ cl'[d].frame = cl[d].frame /\ cl'[d].call_parent = cl[d].call_parent
                        /\ cl'[d].spawn_parent = cl[d].spawn_parent
                        /\ cl'[d].has_cilk_callee = cl[d].has_cilk_callee
                        /\ d # p => cl'[d].join_counter = cl[d].join_counter
                        /\ cl'[d].status = IF d = p /\ IsGoodSteal(p) THEN "READY" ELSE cl[d].status
  /\ cl[c].status = "RETURNING" /\ (cl[c].frame = NULL \/ Over(cl[c].frame))
  /\ ltq[w] = <<>> /\ Upper(w) = NULL /\ good[w] = FALSE
  /\ Tips(w) = <<>> /\ Len(Tips(w)) = 0 /\ Held(w) = {}
  /\ IsGoodSteal(p) => /\ Parked(p) /\ AtSync(cl[p].frame) /\ cl[p].status = "SUSPENDED" /\ \A v \in Worker : Hand(v) # p
                       /\ \A v \in Worker : cl[p].frame \notin Held(v)
  /\ \A h \in Frame : fr'[h].at = fr[h].at /\ fr'[h].stolen = fr[h].stolen
  /\ \A h \in Frame : h # cl[p].frame \/ ~IsGoodSteal(p) => fr'[h].unsynced = fr[h].unsynced
  /\ IsGoodSteal(p) => ~fr'[cl[p].frame].unsynced
  /\ t'[w] = IF IsGoodSteal(p) THEN p ELSE NULL
  /\ good'[w] = IF IsGoodSteal(p) THEN TRUE ELSE FALSE
  /\ \A v \in Worker \ {w} : Idles(v) /\ Hand(v)' = Hand(v) /\ Hand(v) # c
  /\ Hand(w)' = IF IsGoodSteal(p) THEN p ELSE NULL
  /\ ~Live(c)' /\ Live(c) /\ \A d \in Closure \ {c} : Live(d)' <=> Live(d)
  /\ Kids(p)' = Kids(p) \ {c} /\ c \in Kids(p) /\ \A d \in Closure \ {p} : Kids(d)' = Kids(d)
LEMMA ChildBack ==
  ASSUME FInv, NEW w \in Worker, NEW c \in Closure, NEW p \in Closure, ReturnParent(w, c, p)
  PROVE  GivesBack(w, c, p)
<1>1. /\ pc[w] = "return" /\ c = t[w] /\ p = cl[c].spawn_parent /\ Goto(w, "loop")
      /\ ltq' = ltq /\ cur' = cur /\ deque' = deque /\ done' = done
      /\ IsGoodSteal(p) => /\ fr' = [fr EXCEPT ![cl[p].frame] = SyncedFrame(w, cl[p])]
                           /\ good' = [good EXCEPT ![w] = TRUE] /\ t' = [t EXCEPT ![w] = p]
      /\ ~IsGoodSteal(p) => t' = [t EXCEPT ![w] = NULL] /\ fr' = fr /\ good' = good
  BY DEF ReturnParent, At
<1>2. /\ IInv /\ Typed /\ PlaceInv(w) /\ ChainInv(w) /\ StageInv(w) /\ TipInv /\ NULL \notin Closure /\ OneHand
      /\ fr \in [Frame -> FrameRecord] /\ good \in [Worker -> BOOLEAN] /\ StatusInv /\ CountInv /\ KidsInv /\ OneClosure
      /\ t \in [Worker -> Closure \union {NULL}] /\ ParentInv /\ UnsyncedInv /\ AtInv
      /\ \A d \in Closure : cl[d] \in ClosureRecord
  BY FParts, TreeIsSeq DEF Typed, TypedRun, TypedRuntime, IInv, FInv
<1>3. pc'[w] = "loop" /\ \A v \in Worker \ {w} : pc'[v] = pc[v]
  BY <1>1, GoesTo
<1>4. /\ Closure' = Closure /\ p # c /\ c = Hand(w) /\ deque[w] = <<>>
      /\ cl'[p].join_counter = cl[p].join_counter - 1
      /\ \A d \in Closure : /\ cl'[d].frame = cl[d].frame /\ cl'[d].call_parent = cl[d].call_parent
                            /\ cl'[d].spawn_parent = cl[d].spawn_parent
                            /\ cl'[d].has_cilk_callee = cl[d].has_cilk_callee
                            /\ d # p => cl'[d].join_counter = cl[d].join_counter
                            /\ cl'[d].status = IF d = p /\ IsGoodSteal(p) THEN "READY" ELSE cl[d].status
  BY ChildGone
<1>0. PICK x \in Frame : x = cl[p].frame
  BY ChildGone
<1>5. /\ cl[c].status = "RETURNING" /\ (cl[c].frame = NULL \/ Over(cl[c].frame))
      /\ ltq[w] = <<>> /\ Upper(w) = NULL /\ good[w] = FALSE
  <2>1. cl[c].status = "RETURNING"
    BY <1>1, <1>2 DEF StageInv
  <2>. QED  BY <1>1, <1>2, <2>1, NotGood DEF StatusInv, ChainInv, Upper
<1>6. Tips(w) = <<>> /\ Len(Tips(w)) = 0 /\ Held(w) = {}
  BY <1>1, <1>2, TipsAre DEF AtFrames
<1>7. IsGoodSteal(p) => /\ Parked(p) /\ AtSync(x) /\ cl[p].status = "SUSPENDED" /\ \A v \in Worker : Hand(v) # p
                        /\ \A v \in Worker : x \notin Held(v)
  <2>. SUFFICES ASSUME IsGoodSteal(p)
                PROVE  /\ Parked(p) /\ AtSync(x) /\ cl[p].status = "SUSPENDED" /\ \A v \in Worker : Hand(v) # p
                       /\ \A v \in Worker : x \notin Held(v)
    OBVIOUS
  <2>1. cl[p].status = "SUSPENDED" /\ ~cl[p].has_cilk_callee /\ cl[p].frame # NULL
    BY <1>0, Kinds DEF IsGoodSteal
  <2>2. Parked(p)
    BY <2>1 DEF Parked
  <2>3. AtSync(x)
    BY <1>0, <1>2, <2>1 DEF StatusInv
  <2>. QED  BY <1>0, <1>2, <2>1, <2>2, <2>3, SuspendedStolen DEF TipInv
<1>8. /\ \A h \in Frame : fr'[h].at = fr[h].at /\ fr'[h].stolen = fr[h].stolen
      /\ \A h \in Frame : h # x \/ ~IsGoodSteal(p) => fr'[h].unsynced = fr[h].unsynced
      /\ IsGoodSteal(p) => ~fr'[x].unsynced
  <2>1. CASE ~IsGoodSteal(p)
    BY <1>1, <2>1
  <2>2. CASE IsGoodSteal(p)
    <3>. DEFINE q == SyncedFrame(w, cl[p])
    <3>1. q \in FrameRecord /\ q.at = fr[x].at /\ q.stolen = fr[x].stolen /\ ~q.unsynced
      BY <1>0, <1>2, SyncedFlags
    <3>. HIDE DEF q
    <3>2. fr' = [fr EXCEPT ![x] = q]
      BY <1>0, <1>1, <2>2 DEF q
    <3>3. fr'[x] = q /\ \A h \in Frame \ {x} : fr'[h] = fr[h]
      BY <1>2, <3>2
    <3>. QED  BY <2>2, <3>1, <3>3
  <2>. QED  BY <2>1, <2>2
<1>9. /\ t'[w] = IF IsGoodSteal(p) THEN p ELSE NULL
      /\ good'[w] = IF IsGoodSteal(p) THEN TRUE ELSE FALSE
      /\ \A v \in Worker \ {w} : Idles(v) /\ Hand(v)' = Hand(v) /\ Hand(v) # c
  <2>1. \A v \in Worker \ {w} : t'[v] = t[v] /\ good'[v] = good[v]
    BY <1>1, <1>2
  <2>2. \A v \in Worker \ {w} : Idles(v)
    BY <1>1, <1>3, <2>1 DEF Idles
  <2>3. t'[w] = IF IsGoodSteal(p) THEN p ELSE NULL
    BY <1>1, <1>2
  <2>4. good'[w] = IF IsGoodSteal(p) THEN TRUE ELSE FALSE
    BY <1>1, <1>2, <1>5
  <2>5. \A v \in Worker \ {w} : Hand(v) # c
    BY <1>2, <1>4 DEF OneHand
  <2>. QED  BY <2>2, <2>3, <2>4, <2>5, IdleTips
<1>10. Hand(w)' = IF IsGoodSteal(p) THEN p ELSE NULL
  <2>1. deque'[w] = <<>>
    BY <1>1, <1>4
  <2>. QED  BY <1>9, <2>1 DEF Hand
<1>11. ~Live(c)' /\ Live(c) /\ \A d \in Closure \ {c} : Live(d)' <=> Live(d)
  <2>1. ~Live(c)'
    BY <1>2, <1>4, <1>5, <1>9, <1>10 DEF Live
  <2>2. Live(c)
    BY <1>4 DEF Live
  <2>3. ASSUME NEW d \in Closure \ {c}  PROVE Live(d)' <=> Live(d)
    <3>1. CASE d = p /\ IsGoodSteal(p)
      BY <1>7, <1>10, <3>1 DEF Live
    <3>2. CASE ~(d = p /\ IsGoodSteal(p))
      <4>1. \A v \in Worker : Hand(v)' = d <=> Hand(v) = d
        BY <1>2, <1>4, <1>9, <1>10, <3>2
      <4>. QED  BY <1>4, <3>2, <4>1 DEF Live
    <3>. QED  BY <3>1, <3>2
  <2>. QED  BY <2>1, <2>2, <2>3
<1>12. /\ Kids(p)' = Kids(p) \ {c} /\ c \in Kids(p) /\ \A d \in Closure \ {p} : Kids(d)' = Kids(d)
  <2>1. \A d, e \in Closure : e \in Kids(d)' <=> e # c /\ e \in Kids(d)
    BY <1>4, <1>11 DEF Kids
  <2>2. c \in Kids(p) /\ \A d \in Closure \ {p} : c \notin Kids(d)
    BY <1>1, <1>11 DEF Kids
  <2>3. \A d \in Closure : Kids(d)' \subseteq Closure /\ Kids(d) \subseteq Closure
    BY <1>4 DEF Kids
  <2>. QED  BY <2>1, <2>2, <2>3
<1>. QED  BY <1>0, <1>1, <1>3, <1>4, <1>5, <1>6, <1>7, <1>8, <1>9, <1>10, <1>11, <1>12 DEF GivesBack

LEMMA ReturnParentF ==
  ASSUME FInv, IInv', NEW w \in Worker, NEW c \in Closure, NEW p \in Closure, ReturnParent(w, c, p)
  PROVE  FInv'
<1>a. GivesBack(w, c, p)
  BY ChildBack
<1>1. /\ pc[w] = "return" /\ c = t[w] /\ p = cl[c].spawn_parent /\ Goto(w, "loop")
      /\ ltq' = ltq /\ cur' = cur /\ deque' = deque /\ done' = done
      /\ IsGoodSteal(p) => /\ fr' = [fr EXCEPT ![cl[p].frame] = SyncedFrame(w, cl[p])]
                           /\ good' = [good EXCEPT ![w] = TRUE] /\ t' = [t EXCEPT ![w] = p]
      /\ ~IsGoodSteal(p) => t' = [t EXCEPT ![w] = NULL] /\ fr' = fr /\ good' = good
  BY <1>a DEF GivesBack
<1>2. /\ IInv /\ Typed /\ PlaceInv(w) /\ ChainInv(w) /\ StageInv(w) /\ TipInv /\ NULL \notin Closure /\ OneHand
      /\ fr \in [Frame -> FrameRecord] /\ good \in [Worker -> BOOLEAN] /\ StatusInv /\ CountInv /\ KidsInv /\ OneClosure
      /\ t \in [Worker -> Closure \union {NULL}] /\ ParentInv /\ UnsyncedInv /\ AtInv
      /\ \A d \in Closure : cl[d] \in ClosureRecord
  BY FParts, TreeIsSeq DEF Typed, TypedRun, TypedRuntime, IInv, FInv
<1>3. pc'[w] = "loop" /\ \A v \in Worker \ {w} : pc'[v] = pc[v]
  BY <1>a DEF GivesBack
<1>4. /\ Closure' = Closure /\ p # c /\ c = Hand(w) /\ deque[w] = <<>>
      /\ cl'[p].join_counter = cl[p].join_counter - 1
      /\ \A d \in Closure : /\ cl'[d].frame = cl[d].frame /\ cl'[d].call_parent = cl[d].call_parent
                            /\ cl'[d].spawn_parent = cl[d].spawn_parent
                            /\ cl'[d].has_cilk_callee = cl[d].has_cilk_callee
                            /\ d # p => cl'[d].join_counter = cl[d].join_counter
                            /\ cl'[d].status = IF d = p /\ IsGoodSteal(p) THEN "READY" ELSE cl[d].status
  BY <1>a DEF GivesBack
<1>0. PICK x \in Frame : x = cl[p].frame
  BY ChildGone
<1>5. /\ cl[c].status = "RETURNING" /\ (cl[c].frame = NULL \/ Over(cl[c].frame))
      /\ ltq[w] = <<>> /\ Upper(w) = NULL /\ good[w] = FALSE
  BY <1>a DEF GivesBack
<1>6. Tips(w) = <<>> /\ Len(Tips(w)) = 0 /\ Held(w) = {}
  BY <1>a DEF GivesBack
<1>7. IsGoodSteal(p) => /\ Parked(p) /\ AtSync(x) /\ cl[p].status = "SUSPENDED" /\ \A v \in Worker : Hand(v) # p
                        /\ \A v \in Worker : x \notin Held(v)
  BY <1>0, <1>a DEF GivesBack
<1>8. /\ \A h \in Frame : fr'[h].at = fr[h].at /\ fr'[h].stolen = fr[h].stolen
      /\ \A h \in Frame : h # x \/ ~IsGoodSteal(p) => fr'[h].unsynced = fr[h].unsynced
      /\ IsGoodSteal(p) => ~fr'[x].unsynced
  BY <1>0, <1>a DEF GivesBack
<1>9. /\ t'[w] = IF IsGoodSteal(p) THEN p ELSE NULL
      /\ good'[w] = IF IsGoodSteal(p) THEN TRUE ELSE FALSE
      /\ \A v \in Worker \ {w} : Idles(v) /\ Hand(v)' = Hand(v) /\ Hand(v) # c
  BY <1>a DEF GivesBack
<1>10. Hand(w)' = IF IsGoodSteal(p) THEN p ELSE NULL
  BY <1>a DEF GivesBack
<1>11. ~Live(c)' /\ Live(c) /\ \A d \in Closure \ {c} : Live(d)' <=> Live(d)
  BY <1>a DEF GivesBack
<1>12. /\ Kids(p)' = Kids(p) \ {c} /\ c \in Kids(p) /\ \A d \in Closure \ {p} : Kids(d)' = Kids(d)
  BY <1>a DEF GivesBack
<1>13. CountInv' /\ (IsGoodSteal(p) => Kids(p)' = {})
  <2>1. /\ Cardinality(Kids(p)) = cl[p].join_counter
        /\ Cardinality(Kids(p) \ {c}) = Cardinality(Kids(p)) - 1 /\ IsFiniteSet(Kids(p) \ {c})
    BY <1>2, <1>12, KidsFinite, FS_RemoveElement DEF CountInv
  <2>2. IsGoodSteal(p) => Kids(p)' = {}
    <3>. SUFFICES ASSUME IsGoodSteal(p)  PROVE Kids(p)' = {}
      OBVIOUS
    <3>1. Cardinality(Kids(p) \ {c}) = 0
      BY <2>1 DEF IsGoodSteal
    <3>. QED  BY <1>12, <2>1, <3>1, FS_EmptySet
  <2>3. ASSUME NEW d \in Closure
        PROVE  cl'[d].spawn_parent # d /\ cl'[d].join_counter = Cardinality(Kids(d)')
    <3>1. CASE d = p
      BY <1>2, <1>4, <1>12, <2>1, <3>1 DEF CountInv
    <3>2. CASE d # p
      BY <1>2, <1>4, <1>12, <3>2 DEF CountInv
    <3>. QED  BY <3>1, <3>2
  <2>. QED  BY <1>4, <2>2, <2>3 DEF CountInv
<1>14. KidsInv'
  <2>. SUFFICES ASSUME NEW d \in Closure, Kids(d)' # {}  PROVE fr'[cl'[d].frame].unsynced \/ BeingStolen(d)'
    BY <1>4 DEF KidsInv
  <2>1. Kids(d) # {} /\ (d = p => ~IsGoodSteal(p))
    BY <1>12, <1>13
  <2>2. fr[cl[d].frame].unsynced \/ BeingStolen(d)
    BY <1>2, <2>1 DEF KidsInv
  <2>3. PICK y \in Frame : y = cl[d].frame
    <3>1. PICK e \in Closure : cl[e].spawn_parent = d
      BY <2>1 DEF Kids
    <3>2. cl[d].frame # NULL
      BY <1>2, <3>1 DEF ParentInv
    <3>. QED  BY <3>2, FrameOfClosure
  <2>4. y = x => d = p
    BY <1>0, <1>2, <2>3, Kinds DEF OneClosure
  <2>5. fr[y].unsynced => fr'[y].unsynced
    BY <1>8, <2>1, <2>4
  <2>6. BeingStolen(d) => BeingStolen(d)'
    <3>1. ASSUME NEW v \in Worker, pc[v] \in {"promoted", "finish"}, t[v] = d
          PROVE  pc'[v] \in {"promoted", "finish"} /\ t'[v] = d
      <4>1. v # w
        BY <1>1, <3>1
      <4>. QED  BY <1>9, <3>1, <4>1 DEF Idles
    <3>. QED  BY <3>1 DEF BeingStolen
  <2>. QED  BY <1>4, <2>2, <2>3, <2>5, <2>6
<1>15. UnsyncedInv' /\ AtsStay /\ fr'[Root].stolen
  <2>1. \A h \in Frame : fr'[h].unsynced => fr[h].unsynced
    BY <1>8
  <2>. QED  BY <1>2, <1>8, <2>1, Kinds DEF UnsyncedInv, AtInv, AtsStay
<1>16. ASSUME NEW d \in Closure, Parked(d)'  PROVE Parked(d)
  <2>1. CASE d = p /\ IsGoodSteal(p)
    BY <1>7, <2>1
  <2>2. CASE ~(d = p /\ IsGoodSteal(p))
    <3>1. ASSUME NEW v \in Worker, t'[v] = d  PROVE t[v] = d /\ pc'[v] = pc[v]
      <4>1. v # w
        BY <1>2, <1>9, <2>2, <3>1
      <4>. QED  BY <1>9, <3>1, <4>1 DEF Idles
    <3>. QED  BY <1>4, <1>16, <2>2, <3>1 DEF Parked
  <2>. QED  BY <2>1, <2>2
<1>17. Upper(w)' = NULL /\ Tips(w)' = <<>> /\ Held(w)' = {} /\ Len(Tips(w)') = 0
  <2>1. Tips(w)' = <<>> /\ Tips(w)' \in Seq(Frame)
    BY <1>3 DEF Tips
  <2>2. Held(w)' = {}
    BY <2>1, EmptyRange DEF Held
  <2>3. Upper(w)' = NULL
    BY <1>3 DEF Upper
  <2>. QED  BY <2>1, <2>2, <2>3, OneEntry
<1>18. TreeOnly(w)
  <2>1. ASSUME NEW h \in Frame, fr[h].unsynced  PROVE fr'[h].unsynced \/ \A v \in Worker \ {w} : h \notin Held(v)
    BY <1>7, <1>8, <2>1
  <2>2. IsInjective(Tips(w))'
    BY <1>17 DEF IsInjective
  <2>3. ASSUME NEW v \in Worker \ {w}, Hand(v) # NULL  PROVE cl'[Hand(v)].status = cl[Hand(v)].status
    BY <1>2, <1>4, <1>7, <2>3, HandIs
  <2>4. ASSUME NEW d \in Closure
        PROVE
          /\ cl'[d].frame = cl[d].frame /\ cl'[d].spawn_parent = cl[d].spawn_parent
          /\ cl'[d].call_parent = cl[d].call_parent
          /\ Live(d)' => Live(d)
          /\ Live(d) /\ ~Live(d)' => d = Hand(w) /\ ~(\E h \in Helper : cl[d].frame = h /\ Running(h))
          /\ Parked(d)' => Parked(d) \/ (cl[d].frame \in Held(w) /\ cl[d].frame \notin Held(w)')
    <3>1. ASSUME NEW h \in Helper, cl[c].frame = h, Running(h)  PROVE FALSE
      BY <1>2, <1>5, <3>1, AtFacts, Kinds
    <3>. QED  BY <1>4, <1>11, <1>16, <3>1
  <2>. QED  BY <1>1, <1>4, <1>5, <1>6, <1>8, <1>9, <1>15, <1>17, <2>1, <2>2, <2>3, <2>4 DEF TreeOnly
<1>19. StatusInv'
  <2>1. ASSUME NEW d \in Closure
        PROVE  /\ cl'[d].status = "RETURNING" => cl'[d].frame = NULL \/ Over(cl[d].frame)'
               /\ cl'[d].status = "SUSPENDED" /\ ~cl'[d].has_cilk_callee => cl'[d].frame # NULL /\ AtSync(cl[d].frame)'
    <3>1. CASE d = p /\ IsGoodSteal(p)
      BY <1>4, <3>1
    <3>2. CASE ~(d = p /\ IsGoodSteal(p))
      BY <1>4, <1>15, <3>2, StatusStays
    <3>. QED  BY <3>1, <3>2
  <2>. QED  BY <1>4, <2>1 DEF StatusInv
<1>20. ChainInv(w)' /\ CoverInv(w)' /\ StageInv(w)'
  <2>1. ChainInv(w)' /\ CoverInv(w)'
    BY <1>1, <1>3, <1>5, <1>17 DEF ChainInv, CoverInv
  <2>2. IsGoodSteal(p) => AtSync(x)' /\ cl'[p].frame = x /\ cl'[p].status = "READY" /\ x # NULL
    BY <1>0, <1>4, <1>7, <1>15, AtStays, Kinds
  <2>3. IsGoodSteal(p) => AtSync(cl[p].frame)' /\ t'[w] = p
    BY <1>9, <2>2
  <2>4. good'[w] => /\ t'[w] # NULL /\ cl'[t'[w]].status # "RETURNING" /\ cl'[t'[w]].frame # NULL
                    /\ AtSync(cl[t[w]].frame)' /\ Kids(t[w])' = {}
    <3>. SUFFICES ASSUME IsGoodSteal(p)
                  PROVE /\ t'[w] # NULL /\ cl'[t'[w]].status # "RETURNING" /\ cl'[t'[w]].frame # NULL
                        /\ AtSync(cl[t[w]].frame)' /\ Kids(t[w])' = {}
      BY <1>9
    <3>1. t'[w] = p
      BY <1>9
    <3>2. AtSync(cl[t[w]].frame)'
      BY <2>3, <3>1
    <3>3. Kids(t[w])' = {}
      BY <1>13, <3>1
    <3>. QED  BY <1>2, <2>2, <3>1, <3>2, <3>3
  <2>5. StageInv(w)'
    BY <1>1, <1>3, <1>4, <2>4 DEF StageInv
  <2>. QED  BY <2>1, <2>5
<1>. QED  BY <1>13, <1>14, <1>15, <1>18, <1>19, <1>20, TreeStep

(* The thief of a frame that had a closure lets go of it.                     *)
LEMMA FinishFullFrameF ==
  ASSUME FInv, IInv', NEW w \in Worker, NEW y \in Closure, FinishPromote(w, y), fr[cl[y].frame].stolen
  PROVE  FInv'
<1>. DEFINE r == [cl[y] EXCEPT !.mutex = NULL, !.status = "READY"]
<1>1. /\ pc[w] = "finish" /\ y = t[w] /\ Goto(w, "do")
      /\ cl' = [cl EXCEPT ![y] = r] /\ fr' = [fr EXCEPT ![cl[y].frame] = [fr[cl[y].frame] EXCEPT !.unsynced = TRUE]]
      /\ t' = t /\ deque' = deque /\ ltq' = ltq /\ cur' = cur /\ good' = good /\ done' = done
  BY DEF FinishPromote, FinishFullFrame, At
<1>2. /\ IInv /\ Typed /\ PlaceInv(w) /\ ChainInv(w) /\ StageInv(w) /\ TipInv /\ NULL \notin Closure /\ OneHand
      /\ fr \in [Frame -> FrameRecord] /\ UnsyncedInv /\ AtInv
      /\ cl \in Seq(ClosureRecord) /\ Closure = DOMAIN cl /\ cl[y] \in ClosureRecord
  BY FParts, TreeIsSeq DEF Typed, TypedRun, TypedRuntime, TypedTree, IInv, Closure
<1>3. pc'[w] = "do" /\ \A v \in Worker \ {w} : pc'[v] = pc[v]
  BY <1>1, GoesTo
<1>4. Parked(y) /\ cl[y].frame \in Frame /\ Hand(w) = y /\ deque[w] = <<>>
  BY <1>1, <1>2, ThiefParked, HandIs
<1>0. PICK f \in Frame : f = cl[y].frame
  BY <1>4
<1>5. fr[f].stolen /\ Upper(w) = NULL /\ ltq[w] = <<>> /\ Tips(w) = <<>> /\ Len(Tips(w)) = 0 /\ Held(w) = {}
  <2>1. fr[f].stolen /\ Upper(w) = NULL
    BY <1>0, <1>1 DEF Upper
  <2>. QED  BY <1>1, <1>2, <2>1, TipsAre DEF AtFrames, ChainInv
<1>6. r.frame = cl[y].frame /\ r.call_parent = cl[y].call_parent /\ r.spawn_parent = cl[y].spawn_parent
      /\ r.has_cilk_callee = cl[y].has_cilk_callee /\ r.status = "READY" /\ r.join_counter = cl[y].join_counter
  BY <1>2 DEF ClosureRecord, Status
<1>. HIDE DEF r
<1>7. /\ Closure' = Closure /\ cl'[y].status = "READY" /\ \A d \in Closure \ {y} : cl'[d] = cl[d]
      /\ \A d \in Closure : /\ cl'[d].frame = cl[d].frame /\ cl'[d].spawn_parent = cl[d].spawn_parent
                            /\ cl'[d].call_parent = cl[d].call_parent /\ cl'[d].join_counter = cl[d].join_counter
                            /\ cl'[d].has_cilk_callee = cl[d].has_cilk_callee
  <2>1. DOMAIN cl' = DOMAIN cl /\ cl'[y] = r /\ \A d \in Closure \ {y} : cl'[d] = cl[d]
    BY <1>1, <1>2
  <2>2. Closure' = Closure
    BY <1>2, <2>1 DEF Closure
  <2>. QED  BY <1>6, <2>1, <2>2
<1>8. /\ \A h \in Frame : fr'[h].at = fr[h].at /\ fr'[h].stolen = fr[h].stolen /\ (fr[h].unsynced => fr'[h].unsynced)
      /\ fr'[f].unsynced /\ \A h \in Frame \ {f} : fr'[h] = fr[h]
  <2>1. \A h \in Frame \ {f} : fr'[h] = fr[h]
    BY <1>0, <1>1, <1>2
  <2>2. fr'[f] = [fr[f] EXCEPT !.unsynced = TRUE]
    BY <1>0, <1>1, <1>2
  <2>3. fr'[f].at = fr[f].at /\ fr'[f].stolen = fr[f].stolen /\ fr'[f].unsynced
    BY <1>2, <2>2 DEF FrameRecord
  <2>. QED  BY <2>1, <2>3
<1>9. \A v \in Worker \ {w} : Idles(v) /\ Hand(v)' = Hand(v) /\ Hand(v) # y
  <2>1. \A v \in Worker \ {w} : Idles(v)
    BY <1>1, <1>3 DEF Idles
  <2>. QED  BY <1>2, <1>4, <2>1, IdleTips DEF OneHand
<1>10. Hand(w)' = y
  BY <1>1, <1>4 DEF Hand
<1>11. \A d \in Closure : Live(d)' <=> Live(d)
  <2>. TAKE d \in Closure
  <2>1. CASE d = y
    BY <1>4, <1>10, <2>1 DEF Live
  <2>2. CASE d # y
    BY <1>4, <1>7, <1>9, <1>10, <2>2 DEF Live
  <2>. QED  BY <2>1, <2>2
<1>12. ASSUME NEW d \in Closure, Parked(d)'  PROVE Parked(d)
  <2>1. CASE d = y
    BY <1>4, <2>1
  <2>2. CASE d # y
    <3>1. ASSUME NEW v \in Worker, t'[v] = d  PROVE t[v] = d /\ pc'[v] = pc[v]
      BY <1>1, <1>3, <2>2, <3>1
    <3>. QED  BY <1>7, <1>12, <2>2, <3>1 DEF Parked
  <2>. QED  BY <2>1, <2>2
<1>13. Upper(w)' = NULL /\ Tips(w)' = <<>> /\ Held(w)' = {} /\ Len(Tips(w)') = 0
  <2>1. Tips(w)' = <<>> /\ Tips(w)' \in Seq(Frame)
    BY <1>3 DEF Tips
  <2>2. Held(w)' = {}
    BY <2>1, EmptyRange DEF Held
  <2>3. Upper(w)' = NULL
    BY <1>3 DEF Upper
  <2>. QED  BY <2>1, <2>2, <2>3, OneEntry
<1>14. UnsyncedInv' /\ AtsStay /\ fr'[Root].stolen
  <2>1. \A h \in Frame : fr'[h].unsynced => h = f \/ fr[h].unsynced
    BY <1>8, SMTT(30)
  <2>. QED  BY <1>2, <1>5, <1>8, <2>1, Kinds DEF UnsyncedInv, AtInv, AtsStay
<1>15. TreeOnly(w)
  <2>1. IsInjective(Tips(w))'
    BY <1>13 DEF IsInjective
  <2>2. ASSUME NEW v \in Worker \ {w}, Hand(v) # NULL  PROVE cl'[Hand(v)].status = cl[Hand(v)].status
    BY <1>2, <1>7, <1>9, <2>2, HandIs
  <2>. QED  BY <1>1, <1>5, <1>7, <1>8, <1>9, <1>11, <1>12, <1>13, <1>14, <2>1, <2>2 DEF TreeOnly
<1>16. CountInv' /\ KidsInv'
  <2>1. ASSUME NEW d \in Closure, BeingStolen(d)  PROVE BeingStolen(d)' \/ fr'[cl[d].frame].unsynced
    <3>1. CASE d = y
      BY <1>0, <1>8, <3>1
    <3>2. CASE d # y
      <4>1. ASSUME NEW v \in Worker, pc[v] \in {"promoted", "finish"}, t[v] = d
            PROVE  pc'[v] \in {"promoted", "finish"} /\ t'[v] = d
        BY <1>1, <1>3, <3>2, <4>1
      <4>. QED  BY <2>1, <4>1 DEF BeingStolen
    <3>. QED  BY <3>1, <3>2
  <2>. QED  BY <1>7, <1>8, <1>11, <2>1, CountsStay
<1>17. StatusInv'
  <2>1. ASSUME NEW d \in Closure
        PROVE  /\ cl'[d].status = "RETURNING" => cl'[d].frame = NULL \/ Over(cl[d].frame)'
               /\ cl'[d].status = "SUSPENDED" /\ ~cl'[d].has_cilk_callee => cl'[d].frame # NULL /\ AtSync(cl[d].frame)'
    <3>1. CASE d = y
      BY <1>7, <3>1
    <3>2. CASE d # y
      BY <1>7, <1>14, <3>2, StatusStays
    <3>. QED  BY <3>1, <3>2
  <2>. QED  BY <1>7, <2>1 DEF StatusInv
<1>18. ChainInv(w)' /\ CoverInv(w)' /\ StageInv(w)'
  <2>1. good'[w] = FALSE
    BY <1>1, NotGood
  <2>. QED  BY <1>1, <1>3, <1>5, <1>13, <2>1 DEF ChainInv, CoverInv, StageInv
<1>. QED  BY <1>14, <1>15, <1>16, <1>17, <1>18, TreeStep

-----------------------------------------------------------------------------
(* The thief w has x, the closure of f, which was the oldest frame on the     *)
(* stack of the victim v; v goes on with the child d.                         *)
Takes(w, v, c, x, d, f) ==
  /\ fr' = fr /\ cur' = cur /\ good' = good /\ done' = done
  /\ pc[w] = "steal" /\ pc'[w] = "promoted" /\ pc[v] = "user" /\ pc'[v] = "user" /\ v # w
  /\ t'[w] = x /\ Hand(w) = NULL /\ Hand(v) = c /\ Hand(w)' = x /\ Hand(v)' = d
  /\ \A u \in Worker \ {v, w} : Idles(u) /\ Hand(u)' = Hand(u) /\ Hand(u) \notin {c, x, d}
  /\ ltq'[w] = ltq[w] /\ ltq[v] # <<>> /\ f = Head(ltq[v]) /\ ltq'[v] = Tail(ltq[v])
  /\ Closure' = Closure \union {x, d} /\ d \notin Closure /\ x # d /\ x # NULL /\ d # NULL
  /\ cl[c].status = "RUNNING" /\ ~cl[c].has_cilk_callee
  /\ cl'[d].frame = NULL /\ cl'[d].call_parent = NULL /\ cl'[d].spawn_parent = x
  /\ ~cl'[d].has_cilk_callee /\ cl'[d].status = "RUNNING" /\ cl'[d].join_counter = 0
  /\ cl'[x].frame = f /\ ~cl'[x].has_cilk_callee /\ cl'[x].status = "RUNNING"
  /\ \A e \in Closure : /\ cl'[e].frame = cl[e].frame /\ cl'[e].call_parent = cl[e].call_parent
                        /\ cl'[e].spawn_parent = cl[e].spawn_parent
                        /\ e # c => /\ cl'[e].has_cilk_callee = cl[e].has_cilk_callee
                                    /\ cl'[e].status = cl[e].status
                                    /\ cl'[e].join_counter = cl[e].join_counter
  /\ \/ x = c /\ cl'[c].join_counter = cl[c].join_counter + 1
     \/ /\ x \notin Closure /\ cl[c].frame # f /\ cl'[c].join_counter = cl[c].join_counter
        /\ cl'[c].has_cilk_callee /\ cl'[c].status = "SUSPENDED"
        /\ cl'[x].join_counter = 1 /\ cl'[x].spawn_parent = NULL /\ cl'[x].call_parent = c

LEMMA PromoteTakes ==
  ASSUME FInv, NEW w \in Worker, NEW v \in Worker, NEW c \in Closure, Promote(w, v, c)
  PROVE  \E x, d \in Nat : \E f \in Frame : Takes(w, v, c, x, d, f) /\ TakenSites(c, x, d, f)
<1>1. /\ pc[w] = "steal" /\ Hand(w) = NULL /\ v # w /\ Hand(v) = c /\ cl[c].status = "RUNNING"
      /\ ltq[v] # <<>> /\ Head(ltq[v]) \in Frame /\ fr' = fr /\ cur' = cur
  BY FParts, CanStealFrom
<1>2. /\ IInv /\ Typed /\ NULL \notin Closure /\ Closure \subseteq Nat /\ NULL \notin Nat /\ ChainInv(v) /\ CallInv
      /\ deque \in [Worker -> Deques] /\ t \in [Worker -> Closure \union {NULL}] /\ ltq \in [Worker -> Seq(Frame)]
  BY FParts, WorkerAssumption DEF IInv, Typed, TypedRuntime, TypedRun
<1>3. pc[v] = "user" /\ ~cl[c].has_cilk_callee
  BY <1>1, <1>2 DEF ChainInv, CallInv
<1>4. good' = good /\ done' = done /\ ltq' = [ltq EXCEPT ![v] = Tail(ltq[v])]
  BY DEF Promote, Unhooked
<1>5. ltq'[w] = ltq[w] /\ ltq'[v] = Tail(ltq[v]) /\ \A u \in Worker \ {v} : ltq'[u] = ltq[u]
  BY <1>1, <1>2, <1>4
<1>6. \A x, d : AfterPromotion(w, v, c, x, d) /\ deque' = [deque EXCEPT ![v] = <<d>>] =>
        /\ pc'[w] = "promoted" /\ pc'[v] = "user" /\ t'[w] = x /\ Hand(w)' = x /\ Hand(v)' = d
        /\ \A u \in Worker \ {v, w} : Idles(u) /\ Hand(u)' = Hand(u) /\ Hand(u) \notin {c, x, d}
  BY <1>1, <1>2, <1>3, <1>4, <1>5 DEF AfterPromotion, Idles
<1>7. CASE cl[c].frame = Head(ltq[v]) /\ PromoteFullFrame(w, v, c)
  <2>1. PICK d \in Nat : FullFrameTakes(w, v, c, d) /\ TakenSites(c, c, d, Head(ltq[v]))
    BY <1>2, <1>7, FullFrameTaken
  <2>2. PICK f \in Frame : f = Head(ltq[v])
    BY <1>1
  <2>3. AfterPromotion(w, v, c, c, d) /\ deque' = [deque EXCEPT ![v] = <<d>>]
    BY <2>1 DEF FullFrameTakes
  <2>4. /\ pc'[w] = "promoted" /\ pc'[v] = "user" /\ t'[w] = c /\ Hand(w)' = c /\ Hand(v)' = d
        /\ \A u \in Worker \ {v, w} : Idles(u) /\ Hand(u)' = Hand(u) /\ Hand(u) \notin {c, c, d}
    BY <1>6, <2>3
  <2>5. /\ Closure' = Closure \union {c, d} /\ d \notin Closure /\ c # d /\ c # NULL /\ d # NULL
        /\ cl'[d].frame = NULL /\ cl'[d].call_parent = NULL /\ cl'[d].spawn_parent = c
        /\ ~cl'[d].has_cilk_callee /\ cl'[d].status = "RUNNING" /\ cl'[d].join_counter = 0
    BY <1>2, <2>1 DEF FullFrameTakes
  <2>6. \A e \in Closure : /\ cl'[e].frame = cl[e].frame /\ cl'[e].call_parent = cl[e].call_parent
                           /\ cl'[e].spawn_parent = cl[e].spawn_parent
                           /\ cl'[e].has_cilk_callee = cl[e].has_cilk_callee /\ cl'[e].status = cl[e].status
                           /\ cl'[e].join_counter = cl[e].join_counter + (IF e = c THEN 1 ELSE 0)
    BY <2>1 DEF FullFrameTakes
  <2>7. \A e \in Closure : cl[e].join_counter \in Int
    BY <1>2, TreeIsSeq DEF Typed, ClosureRecord
  <2>8. \A e \in Closure \ {c} : cl'[e].join_counter = cl[e].join_counter
    BY <2>6, <2>7
  <2>9. cl'[c].frame = f /\ ~cl'[c].has_cilk_callee /\ cl'[c].status = "RUNNING"
        /\ cl'[c].join_counter = cl[c].join_counter + 1
    BY <1>1, <1>3, <1>7, <2>2, <2>6
  <2>10. Takes(w, v, c, c, d, f)
    BY <1>1, <1>3, <1>4, <1>5, <2>2, <2>4, <2>5, <2>6, <2>8, <2>9 DEF Takes
  <2>. QED  BY <1>2, <2>1, <2>2, <2>10
<1>8. CASE cl[c].frame # Head(ltq[v]) /\ PromoteNewFrame(w, v, c)
  <2>1. PICK x, d \in Nat : NewFrameTakes(w, v, c, x, d) /\ TakenSites(c, x, d, Head(ltq[v]))
    BY <1>2, <1>8, NewFrameTaken
  <2>2. PICK f \in Frame : f = Head(ltq[v])
    BY <1>1
  <2>3. AfterPromotion(w, v, c, x, d) /\ deque' = [deque EXCEPT ![v] = <<d>>]
    BY <2>1 DEF NewFrameTakes
  <2>4. /\ pc'[w] = "promoted" /\ pc'[v] = "user" /\ t'[w] = x /\ Hand(w)' = x /\ Hand(v)' = d
        /\ \A u \in Worker \ {v, w} : Idles(u) /\ Hand(u)' = Hand(u) /\ Hand(u) \notin {c, x, d}
    BY <1>6, <2>3
  <2>5. /\ Closure' = Closure \union {x, d} /\ d \notin Closure /\ x # d /\ x # NULL /\ d # NULL
        /\ cl'[d].frame = NULL /\ cl'[d].call_parent = NULL /\ cl'[d].spawn_parent = x
        /\ ~cl'[d].has_cilk_callee /\ cl'[d].status = "RUNNING" /\ cl'[d].join_counter = 0
    BY <1>2, <2>1 DEF NewFrameTakes
  <2>6. \A e \in Closure : /\ cl'[e].frame = cl[e].frame /\ cl'[e].call_parent = cl[e].call_parent
                           /\ cl'[e].spawn_parent = cl[e].spawn_parent
                           /\ cl'[e].join_counter = cl[e].join_counter
                           /\ e # c => cl'[e] = cl[e]
    BY <2>1 DEF NewFrameTakes
  <2>7. /\ cl'[x].frame = f /\ ~cl'[x].has_cilk_callee /\ cl'[x].status = "RUNNING"
        /\ x \notin Closure /\ cl[c].frame # f
        /\ cl'[c].has_cilk_callee /\ cl'[c].status = "SUSPENDED"
        /\ cl'[x].join_counter = 1 /\ cl'[x].spawn_parent = NULL /\ cl'[x].call_parent = c
    BY <1>8, <2>1, <2>2 DEF NewFrameTakes
  <2>8. Takes(w, v, c, x, d, f)
    BY <1>1, <1>3, <1>4, <1>5, <2>2, <2>4, <2>5, <2>6, <2>7 DEF Takes
  <2>. QED  BY <1>2, <2>1, <2>2, <2>8
<1>. QED  BY <1>7, <1>8 DEF Promote

(* The frames of the thief, who has none, and those left to the victim.       *)
LEMMA TakenTips ==
  ASSUME FInv, NEW w \in Worker, NEW v \in Worker, NEW c \in Closure, NEW x \in Nat, NEW d \in Nat,
         NEW f \in Frame, Takes(w, v, c, x, d, f)
  PROVE  /\ Len(Tips(v)) \in Nat /\ Len(Tips(v)) > 1 /\ Tips(v)[1] = f /\ f \in Held(v) /\ Active(f)
         /\ Tips(v)' \in Seq(Frame) /\ Len(Tips(v)') = Len(Tips(v)) - 1
         /\ \A i \in 1..Len(Tips(v)') : Tips(v)'[i] = Tips(v)[i + 1] /\ i + 1 \in 1..Len(Tips(v))
         /\ \A i \in 1..Len(Tips(v)) : Tips(v)[i] \in Held(v)
         /\ IsInjective(Tips(v))' /\ Held(v)' \subseteq Held(v) /\ f \notin Held(v)'
         /\ \A h \in Held(v) : h # f => h \in Held(v)'
         /\ Tips(w) = <<>> /\ Tips(w)' = <<>> /\ Held(w) = {} /\ Held(w)' = {} /\ ltq'[w] = <<>>
         /\ Len(Tips(w)) = 0 /\ Len(Tips(w)') = 0 /\ IsInjective(Tips(w))'
<1>. DEFINE s == ltq[v]
            r == Tail(s)
            a == cur[v]
            q == Tips(v)
            u == Append(r, a)
            n == Len(s)
<1>1. /\ pc[w] = "steal" /\ pc'[w] = "promoted" /\ pc[v] = "user" /\ pc'[v] = "user"
      /\ s # <<>> /\ f = Head(s) /\ ltq'[v] = r /\ cur'[v] = a /\ ltq'[w] = ltq[w]
  BY DEF Takes
<1>2. Typed /\ PlaceInv(v) /\ PlaceInv(w) /\ TipInv /\ ChainInv(w)
  BY FParts
<1>3. /\ a \in Frame /\ s \in Seq(Frame) /\ n \in Nat /\ q \in Seq(Frame) /\ Len(q) = n + 1
      /\ q[n + 1] = a /\ \A i \in 1..n : q[i] = s[i]
      /\ Held(v) = {q[i] : i \in 1..Len(q)} /\ q[1] \in Held(v)
  BY <1>1, <1>2, TipsAre DEF AtFrames
<1>4. IsInjective(q) /\ \A h \in Held(v) : Active(h)
  BY <1>2 DEF TipInv
<1>5. Tips(v)' = u
  BY <1>1 DEF Tips
<1>6. /\ r \in Seq(Frame) /\ Len(r) = n - 1 /\ Head(s) = s[1] /\ n > 0
      /\ \A i \in 1..Len(r) : r[i] = s[i + 1]
  <2>1. /\ r \in Seq(Frame) /\ Len(r) = Len(s) - 1 /\ \A i \in 1..Len(r) : r[i] = s[i + 1]
    BY <1>1, <1>3, HeadTailProperties
  <2>2. n # 0
    BY <1>1, <1>3, EmptySeq
  <2>3. Head(s) = s[1]
    BY <1>1, <1>3
  <2>. QED  BY <1>3, <2>1, <2>2, <2>3
<1>7. u \in Seq(Frame) /\ Len(u) = n /\ u[n] = a /\ \A i \in 1..n - 1 : u[i] = r[i]
  <2>1. /\ u \in Seq(Frame) /\ Len(u) = Len(r) + 1 /\ u[Len(r) + 1] = a
        /\ \A i \in 1..Len(r) : u[i] = r[i]
    BY <1>3, <1>6, PushFacts
  <2>. QED  BY <1>3, <1>6, <2>1
<1>. HIDE DEF s, r, a, u
<1>8. \A i \in 1..n : u[i] = q[i + 1] /\ i + 1 \in 1..Len(q)
  <2>. TAKE i \in 1..n
  <2>1. CASE i = n
    BY <1>3, <1>7, <2>1
  <2>2. CASE i # n
    <3>1. i \in 1..n - 1 /\ i + 1 \in 1..n
      BY <1>3, <2>2
    <3>. QED  BY <1>3, <1>6, <1>7, <3>1
  <2>. QED  BY <2>1, <2>2
<1>9. q[1] = f /\ 1 \in 1..Len(q)
  <2>1. 1 \in 1..n /\ 1 \in 1..Len(q)
    BY <1>3, <1>6
  <2>. QED  BY <1>1, <1>3, <1>6, <2>1
<1>10. DOMAIN u = 1..n /\ DOMAIN q = 1..Len(q) /\ Range(u) = {u[i] : i \in 1..n}
  BY <1>3, <1>7, LenProperties DEF Range
<1>11. Held(v)' = Range(u)
  BY <1>5 DEF Held
<1>. HIDE DEF q
<1>12. IsInjective(u)
  <2>1. \A i, j \in 1..Len(q) : q[i] = q[j] => i = j
    BY <1>4, <1>10 DEF IsInjective
  <2>2. \A i, j \in 1..n : u[i] = u[j] => i + 1 = j + 1
    BY <1>8, <2>1
  <2>3. \A i, j \in 1..n : u[i] = u[j] => i = j
    BY <1>3, <2>2
  <2>. QED  BY <1>10, <2>3 DEF IsInjective
<1>13. f \notin Range(u)
  <2>1. ASSUME NEW i \in 1..n  PROVE u[i] # f
    <3>1. i + 1 # 1
      BY <1>3
    <3>. QED  BY <1>4, <1>8, <1>9, <1>10, <3>1 DEF IsInjective
  <2>. QED  BY <1>10, <2>1
<1>14. Range(u) \subseteq Held(v) /\ \A h \in Held(v) : h # f => h \in Range(u)
  <2>1. \A i \in 1..n : u[i] \in Held(v)
    BY <1>3, <1>8
  <2>2. ASSUME NEW i \in 1..Len(q), q[i] # f  PROVE q[i] \in Range(u)
    <3>1. i - 1 \in 1..n /\ (i - 1) + 1 = i
      BY <1>3, <1>9, <2>2
    <3>2. u[i - 1] = q[i]
      BY <1>8, <3>1
    <3>. QED  BY <1>10, <3>1, <3>2
  <2>. QED  BY <1>3, <1>10, <2>1, <2>2
<1>15. /\ Tips(w) = <<>> /\ Tips(w)' = <<>> /\ Held(w) = {} /\ Held(w)' = {} /\ ltq'[w] = <<>>
       /\ Len(Tips(w)) = 0 /\ Len(Tips(w)') = 0 /\ IsInjective(Tips(w))'
  <2>1. Tips(w) = <<>> /\ Len(Tips(w)) = 0 /\ Held(w) = {}
    BY <1>1, <1>2, TipsAre DEF AtFrames
  <2>2. Tips(w)' = <<>>
    BY <1>1 DEF Tips
  <2>3. Held(w)' = {} /\ Len(Tips(w)') = 0
    <3>1. Tips(w)' \in Seq(Frame)
      BY <2>2
    <3>. QED  BY <2>2, <3>1, EmptyRange, OneEntry DEF Held
  <2>4. ltq[w] = <<>>
    BY <1>1, <1>2 DEF ChainInv
  <2>5. IsInjective(Tips(w))'
    BY <2>2 DEF IsInjective
  <2>. QED  BY <1>1, <2>1, <2>2, <2>3, <2>4, <2>5
<1>16. Len(q) - 1 = n /\ Len(q) > 1
  BY <1>3, <1>6
<1>17. q[1] \in Held(v) /\ \A i \in 1..Len(q) : q[i] \in Held(v)
  BY <1>3
<1>18. Len(q) \in Nat /\ Len(q) > 1 /\ q[1] = f /\ f \in Held(v) /\ Active(f)
  BY <1>3, <1>4, <1>9, <1>16, <1>17
<1>19. /\ Tips(v)' \in Seq(Frame) /\ Len(Tips(v)') = Len(q) - 1
       /\ \A i \in 1..Len(Tips(v)') : Tips(v)'[i] = q[i + 1] /\ i + 1 \in 1..Len(q)
  BY <1>5, <1>7, <1>8, <1>16
<1>20. IsInjective(Tips(v))' /\ Held(v)' \subseteq Held(v) /\ f \notin Held(v)'
       /\ \A h \in Held(v) : h # f => h \in Held(v)'
  BY <1>5, <1>11, <1>12, <1>13, <1>14
<1>. QED  BY <1>15, <1>17, <1>18, <1>19, <1>20 DEF q

(* What was taken: the frame that spawned the stacklet above it.              *)
LEMMA TakenFrame ==
  ASSUME FInv, NEW w \in Worker, NEW v \in Worker, NEW c \in Closure, NEW x \in Nat, NEW d \in Nat,
         NEW f \in Frame, Takes(w, v, c, x, d, f)
  PROVE  /\ Tips(v)[2] \in Frame /\ Oldest(Tips(v)[2]) \in Helper /\ Caller(Oldest(Tips(v)[2])) = f
         /\ Fresh(Tips(v)[2]) /\ f \notin Helper
         /\ Upper(v) = c /\ Lower(v) = f /\ CoversIn(fr, cl[c].frame, f)
         /\ x = c => fr[f].stolen
         /\ x # c => ~fr[f].stolen /\ f \in Called /\ cl[c].frame # f /\ x \notin Closure
<1>. DEFINE g == Tips(v)[2]
            h == Oldest(g)
<1>1. /\ Len(Tips(v)) \in Nat /\ Len(Tips(v)) > 1 /\ Tips(v)[1] = f /\ f \in Held(v) /\ Active(f)
      /\ \A i \in 1..Len(Tips(v)) : Tips(v)[i] \in Held(v)
  BY TakenTips
<1>2. /\ IInv /\ Typed /\ PlaceInv(v) /\ ChainInv(v) /\ AtInv /\ OneHand /\ FrameInv /\ NULL \notin Closure
      /\ pc[v] = "user" /\ Hand(v) = c
  BY FParts DEF Takes, IInv
<1>3. 1 \in 1..Len(Tips(v)) - 1 /\ 2 \in 1..Len(Tips(v)) /\ 1 + 1 = 2
  BY <1>1
<1>4. g \in Frame /\ fr[f].at > 1 /\ Prev(f) = h /\ Fresh(g)
  <2>1. g \in Frame
    BY <1>1, <1>2, <1>3, TipsAre
  <2>2. fr[Tips(v)[1]].at > 1 /\ Prev(Tips(v)[1]) = Oldest(Tips(v)[1 + 1]) /\ Fresh(Tips(v)[1 + 1])
    BY <1>2, <1>3 DEF ChainInv
  <2>. QED  BY <1>1, <2>1, <2>2
<1>5. fr[f].at - 1 \in 1..Len(Body[f]) /\ Body[f][fr[f].at - 1] = h
  <2>1. fr[f].at <= Len(Body[f]) + 1 /\ fr[f].at \in Nat /\ Len(Body[f]) \in Nat
    BY <1>1, <1>2, AtFacts DEF Active
  <2>. QED  BY <1>4, <2>1 DEF Prev
<1>6. h \in Helper /\ h # Root /\ Caller(h) = f
  <2>1. h \in Helper \union {Root} /\ h # Root /\ h \in Frame
    BY <1>4, <1>5, OldestIs, BodyFacts
  <2>. QED  BY <1>5, <2>1, Places
<1>7. f \notin Helper
  <2>1. \A k \in Helper : \A i \in 1..Len(Body[k]) : Body[k][i] \in Frame \ Helper
    BY ProgramAssumption
  <2>. QED  BY <1>5, <1>6, <2>1
<1>8. Upper(v) = c /\ Lower(v) = f /\ CoversIn(fr, cl[c].frame, f)
  BY <1>1, <1>2, UserCover DEF Covers
<1>9. ASSUME x = c  PROVE fr[f].stolen
  <2>1. cl[c].frame = f /\ f # NULL
    BY <1>9, Kinds DEF Takes
  <2>2. ~Entering(c)
    <3>1. ASSUME NEW u \in Worker, pc[u] \in {"promoted", "finish"}, t[u] = c  PROVE FALSE
      <4>1. Hand(u) = c
        BY <3>1, ThiefParked
      <4>2. u # v /\ c # NULL
        BY <1>2, <3>1
      <4>. QED  BY <1>2, <4>1, <4>2 DEF OneHand
    <3>. QED  BY <3>1 DEF Entering
  <2>. QED  BY <1>2, <2>1, <2>2 DEF FrameInv
<1>10. ASSUME x # c  PROVE ~fr[f].stolen /\ f \in Called /\ cl[c].frame # f /\ x \notin Closure
  <2>1. cl[c].frame # f /\ x \notin Closure
    BY <1>10 DEF Takes
  <2>2. ~fr[f].stolen
    <3>1. \A y : CoversIn(fr, y, f) /\ fr[f].stolen => y = f
      BY CoverTop
    <3>. QED  BY <1>8, <2>1, <3>1
  <2>. QED  BY <1>2, <1>7, <2>1, <2>2, Kinds DEF AtInv
<1>. QED  BY <1>4, <1>6, <1>7, <1>8, <1>9, <1>10

(* The tree: x has one child more, d, which has none.                         *)
LEMMA TakenTree ==
  ASSUME FInv, NEW w \in Worker, NEW v \in Worker, NEW c \in Closure, NEW x \in Nat, NEW d \in Nat,
         NEW f \in Frame, Takes(w, v, c, x, d, f)
  PROVE  /\ \A e \in Closure : Live(e)' <=> Live(e)
         /\ \A p \in Closure : p # x => Kids(p)' = Kids(p)
         /\ CountInv' /\ KidsInv'
         /\ Live(d)' /\ Kids(d)' = {} /\ (x = c => Kids(x)' = Kids(c) \union {d}) /\ (x # c => Kids(x)' = {d})
<1>1. /\ IInv /\ Typed /\ TypedTree /\ NULL \notin Closure /\ CountInv /\ KidsInv
      /\ \A e \in Closure : /\ cl[e].spawn_parent \in Closure \union {NULL}
                            /\ cl[e].spawn_parent # e /\ cl[e].join_counter = Cardinality(Kids(e))
  BY FParts DEF FInv, TypedTree, CountInv
<1>2. /\ v # w /\ Hand(w) = NULL /\ Hand(v) = c /\ Hand(w)' = x /\ Hand(v)' = d /\ d \notin Closure /\ x # d
      /\ \A u \in Worker \ {v, w} : Hand(u)' = Hand(u)
      /\ x = c \/ (x \notin Closure /\ cl'[c].status = "SUSPENDED")
      /\ \A e \in Closure \ {c} : cl'[e].status = cl[e].status
      /\ Closure' = Closure \union {x, d} /\ x # NULL /\ d # NULL
  BY DEF Takes
<1>3. \A e \in Closure : Live(e)' <=> Live(e)
  <2>1. Live(c) /\ Live(c)'
    BY <1>2 DEF Live
  <2>2. ASSUME NEW e \in Closure, e # c  PROVE Live(e)' <=> Live(e)
    <3>1. ASSUME NEW u \in Worker  PROVE Hand(u)' = e <=> Hand(u) = e
      BY <1>1, <1>2, <2>2
    <3>. QED  BY <1>2, <2>2, <3>1 DEF Live
  <2>. QED  BY <2>1, <2>2
<1>4. Live(d)'
  BY <1>2 DEF Live
<1>5. /\ cl'[d].spawn_parent = x /\ \A e \in Closure : cl'[e].spawn_parent = cl[e].spawn_parent
      /\ x # c => cl'[x].spawn_parent = NULL
  BY DEF Takes
<1>6. \A p : Kids(p)' = {e \in Closure \union {x, d} : cl'[e].spawn_parent = p /\ Live(e)'}
  BY <1>2 DEF Kids
<1>7. ASSUME NEW p \in Closure, p # x  PROVE Kids(p)' = Kids(p)
  <2>1. ASSUME NEW e \in Closure \union {x, d}, e \notin Closure  PROVE cl'[e].spawn_parent # p
    BY <1>1, <1>2, <1>5, <1>7, <2>1
  <2>2. \A e : e \in Kids(p)' <=> e \in Kids(p)
    BY <1>3, <1>5, <1>6, <2>1 DEF Kids
  <2>. QED  BY <2>2
<1>8. Kids(d)' = {}
  <2>1. ASSUME NEW e \in Closure \union {x, d}  PROVE cl'[e].spawn_parent # d
    BY <1>1, <1>2, <1>5
  <2>. QED  BY <1>6, <2>1
<1>9. /\ x = c => Kids(x)' = Kids(c) \union {d}
      /\ x # c => Kids(x)' = {d}
  <2>1. CASE x = c
    <3>1. \A e : e \in Kids(x)' <=> e \in Kids(c) \union {d}
      BY <1>2, <1>3, <1>4, <1>5, <1>6, <2>1 DEF Kids
    <3>. QED  BY <2>1, <3>1
  <2>2. CASE x # c
    <3>1. ASSUME NEW e \in Closure \union {x, d}, e # d  PROVE cl'[e].spawn_parent # x
      BY <1>1, <1>2, <1>5, <2>2, <3>1
    <3>2. \A e : e \in Kids(x)' <=> e = d
      BY <1>4, <1>5, <1>6, <3>1
    <3>. QED  BY <2>2, <3>2
  <2>. QED  BY <2>1, <2>2
<1>10. /\ cl'[d].join_counter = 0
       /\ x = c => cl'[c].join_counter = cl[c].join_counter + 1
       /\ x # c => cl'[x].join_counter = 1 /\ cl'[c].join_counter = cl[c].join_counter
       /\ \A e \in Closure \ {c} : cl'[e].join_counter = cl[e].join_counter
  BY DEF Takes
<1>11. CountInv'
  <2>1. ASSUME NEW p \in Closure'
        PROVE  cl'[p].spawn_parent # p /\ cl'[p].join_counter = Cardinality(Kids(p)')
    <3>1. CASE p = d
      <4>1. Cardinality({}) = 0
        BY FS_EmptySet
      <4>. QED  BY <1>2, <1>5, <1>8, <1>10, <3>1, <4>1
    <3>2. CASE p = x /\ x = c
      <4>1. IsFiniteSet(Kids(c)) /\ d \notin Kids(c)
        BY <1>2, KidsFinite
      <4>2. Cardinality(Kids(c) \union {d}) = Cardinality(Kids(c)) + 1
        BY <4>1, FS_AddElement
      <4>. QED  BY <1>1, <1>5, <1>9, <1>10, <3>2, <4>2
    <3>3. CASE p = x /\ x # c
      <4>1. Cardinality({d}) = 1
        BY FS_Singleton
      <4>. QED  BY <1>2, <1>5, <1>9, <1>10, <3>3, <4>1
    <3>4. CASE p \in Closure /\ p # x
      <4>1. Kids(p)' = Kids(p)
        BY <1>7, <3>4
      <4>2. cl'[p].join_counter = cl[p].join_counter
        BY <1>10, <3>4
      <4>. QED  BY <1>1, <1>5, <3>4, <4>1, <4>2
    <3>. QED  BY <1>2, <3>1, <3>2, <3>3, <3>4
  <2>. QED  BY <2>1 DEF CountInv
<1>12. KidsInv'
  <2>1. ASSUME NEW p \in Closure', Kids(p)' # {}
        PROVE  fr'[cl'[p].frame].unsynced \/ BeingStolen(p)'
    <3>1. CASE p = x
      <4>1. pc'[w] = "promoted" /\ t'[w] = x
        BY DEF Takes
      <4>. QED  BY <3>1, <4>1 DEF BeingStolen
    <3>2. CASE p \in Closure /\ p # x
      <4>1. Kids(p) # {}
        BY <1>7, <2>1, <3>2
      <4>2. fr[cl[p].frame].unsynced \/ BeingStolen(p)
        BY <1>1, <3>2, <4>1 DEF KidsInv
      <4>3. fr' = fr /\ cl'[p].frame = cl[p].frame
        BY <3>2 DEF Takes
      <4>4. ASSUME NEW u \in Worker, pc[u] \in {"promoted", "finish"}, t[u] = p
            PROVE  pc'[u] \in {"promoted", "finish"} /\ t'[u] = p
        <5>1. u \notin {v, w}
          BY <4>4 DEF Takes
        <5>2. Idles(u)
          BY <5>1 DEF Takes
        <5>. QED  BY <4>4, <5>2 DEF Idles
      <4>5. BeingStolen(p) => BeingStolen(p)'
        BY <4>4 DEF BeingStolen
      <4>. QED  BY <4>2, <4>3, <4>5
    <3>. QED  BY <1>2, <1>8, <2>1, <3>1, <3>2
  <2>. QED  BY <2>1 DEF KidsInv
<1>. QED  BY <1>3, <1>4, <1>7, <1>8, <1>9, <1>11, <1>12

(* The workers.                                                               *)
LEMMA TakenWorkers ==
  ASSUME FInv, NEW w \in Worker, NEW v \in Worker, NEW c \in Closure, NEW x \in Nat, NEW d \in Nat,
         NEW f \in Frame, Takes(w, v, c, x, d, f)
  PROVE  /\ \A u \in Worker : ChainInv(u)' /\ CoverInv(u)' /\ StageInv(u)'
         /\ Upper(v)' = d /\ Lower(v)' = Tips(v)[2]
         /\ Upper(w)' = (IF x = c THEN NULL ELSE c) /\ (x # c => Lower(w)' = f)
         /\ \A u \in Worker \ {v, w} : /\ Tips(u)' = Tips(u) /\ Held(u)' = Held(u) /\ Upper(u)' = Upper(u)
                                       /\ Upper(u) # NULL => Lower(u)' = Lower(u)
<1>1. /\ IInv /\ Typed /\ TypedTree /\ NULL \notin Closure /\ ChainInv(v)
      /\ \A u \in Worker : StageInv(u)
  BY FParts
<1>2. /\ fr' = fr /\ cur' = cur /\ good' = good /\ done' = done
      /\ pc[w] = "steal" /\ pc'[w] = "promoted" /\ pc[v] = "user" /\ pc'[v] = "user" /\ v # w /\ t'[w] = x
      /\ Hand(v)' = d /\ d # NULL /\ cl'[d].frame = NULL /\ cl'[x].frame = f /\ cl'[x].status = "RUNNING"
      /\ \A e \in Closure : cl'[e].frame = cl[e].frame /\ cl'[e].call_parent = cl[e].call_parent
      /\ \A e \in Closure \ {c} : cl'[e].status = cl[e].status
      /\ x # c => cl'[x].call_parent = c
      /\ \A u \in Worker \ {v, w} : Idles(u) /\ Hand(u) \notin {c, x, d}
  BY DEF Takes
<1>3. /\ Len(Tips(v)) \in Nat /\ Len(Tips(v)) > 1
      /\ Len(Tips(v)') = Len(Tips(v)) - 1 /\ ltq'[w] = <<>> /\ Len(Tips(w)') = 0
      /\ \A i \in 1..Len(Tips(v)') : Tips(v)'[i] = Tips(v)[i + 1]
  BY TakenTips
<1>4. /\ Fresh(Tips(v)[2]) /\ CoversIn(fr, cl[c].frame, f) /\ (x = c <=> fr[f].stolen)
  BY TakenFrame
<1>5. Upper(v)' = d /\ Lower(v)' = Tips(v)[2]
  <2>1. Tips(v)'[1] = Tips(v)[1 + 1] /\ 1 + 1 = 2
    BY <1>3
  <2>. QED  BY <1>2, <2>1 DEF Upper, Lower
<1>6. Upper(w)' = (IF x = c THEN NULL ELSE c) /\ (x # c => Lower(w)' = f)
  BY <1>2, <1>4 DEF Upper, Lower
<1>7. CoverInv(v)' /\ CoverInv(w)'
  <2>1. CoverInv(v)'
    BY <1>2, <1>4, <1>5 DEF CoverInv, Covers, CoversIn, Fresh
  <2>2. CoverInv(w)'
    BY <1>2, <1>4, <1>6 DEF CoverInv, Covers
  <2>. QED  BY <2>1, <2>2
<1>8. ChainInv(w)' /\ ChainInv(v)'
  <2>1. ChainInv(w)'
    BY <1>2, <1>3 DEF ChainInv
  <2>2. ASSUME NEW i \in 1..Len(Tips(v)') - 1
        PROVE  /\ fr[Tips(v)'[i]].at > 1 /\ Prev(Tips(v)'[i]) = Oldest(Tips(v)'[i + 1])
               /\ Fresh(Tips(v)'[i + 1])
    <3>1. i + 1 \in 1..Len(Tips(v)) - 1 /\ i \in 1..Len(Tips(v)') /\ i + 1 \in 1..Len(Tips(v)')
      BY <1>3
    <3>2. Tips(v)'[i] = Tips(v)[i + 1] /\ Tips(v)'[i + 1] = Tips(v)[(i + 1) + 1]
      BY <1>3, <3>1
    <3>. QED  BY <1>1, <3>1, <3>2 DEF ChainInv
  <2>3. ChainInv(v)'
    BY <1>2, <2>2 DEF ChainInv, Prev, Fresh
  <2>. QED  BY <2>1, <2>3
<1>9. StageInv(w)' /\ StageInv(v)'
  <2>1. good[w] = FALSE /\ good[v] = FALSE
    BY <1>2, NotGood
  <2>. QED  BY <1>2, <2>1 DEF StageInv
<1>10. FramesStay
  BY <1>2 DEF FramesStay
<1>11. ASSUME NEW u \in Worker \ {v, w}
       PROVE  /\ ChainInv(u)' /\ CoverInv(u)' /\ StageInv(u)'
              /\ Tips(u)' = Tips(u) /\ Held(u)' = Held(u) /\ Upper(u)' = Upper(u)
              /\ Upper(u) # NULL => Lower(u)' = Lower(u)
  <2>1. Idles(u) /\ Hand(u) \notin {c, x, d} /\ Hand(u) \in Closure \union {NULL}
    BY <1>1, <1>2, HandIs
  <2>2. KeepsHand(u)
    <3>1. ASSUME Hand(u) # NULL  PROVE cl[Hand(u)].call_parent \in Closure \union {NULL} /\ Hand(u) \in Closure \ {c}
      BY <1>1, <2>1, <3>1 DEF TypedTree
    <3>. QED  BY <1>2, <3>1 DEF KeepsHand
  <2>3. KeepsFrames(u)
    <3>1. Upper(u) # NULL => Upper(u) \in Closure
      BY LowerIs
    <3>2. pc[u] \in {"promoted", "finish"} => t[u] \in Closure
      BY ThiefParked
    <3>3. ASSUME good[u]  PROVE Kids(t[u])' = {}
      <4>1. t[u] \in Closure /\ Hand(u) = t[u]
        BY <3>3, GoodParked
      <4>2. Kids(t[u]) = {}
        BY <1>1, <3>3 DEF StageInv
      <4>3. \A p \in Closure : p # x => Kids(p)' = Kids(p)
        BY TakenTree
      <4>4. PICK p \in Closure : p = t[u]
        BY <4>1
      <4>5. t'[u] = t[u]
        BY <2>1 DEF Idles
      <4>. QED  BY <2>1, <4>1, <4>2, <4>3, <4>4, <4>5
    <3>4. \A h \in Frame : Over(h) => Over(h)'
      BY <1>2 DEF Over
    <3>. QED  BY <1>2, <3>1, <3>3, <3>4 DEF KeepsFrames
  <2>. QED  BY <1>2, <2>1, <2>2, <2>3, IdleKeepsAll, IdleTips
<1>. QED  BY <1>5, <1>6, <1>7, <1>8, <1>9, <1>11

(* The links between closures that wait for spawned or called frames.         *)
LEMMA TakenLinks ==
  ASSUME FInv, NEW w \in Worker, NEW v \in Worker, NEW c \in Closure, NEW x \in Nat, NEW d \in Nat,
         NEW f \in Frame, Takes(w, v, c, x, d, f)
  PROVE  SpawnLink' /\ CallLink' /\ OneClosure'
<1>1. /\ IInv /\ Typed /\ TypedTree /\ NULL \notin Closure /\ SpawnLink /\ CallLink /\ OneClosure /\ FrameInv
      /\ TipInv /\ \A e \in Closure : /\ cl[e].spawn_parent \in Closure \union {NULL}
                                      /\ cl[e].call_parent \in Closure \union {NULL}
  BY FParts DEF FInv, IInv, TypedTree
<1>2. /\ fr' = fr /\ Closure' = Closure \union {x, d} /\ d \notin Closure /\ x # d /\ x # NULL /\ d # NULL
      /\ cl'[d].frame = NULL /\ cl'[d].spawn_parent = x /\ cl'[x].frame = f
      /\ \A e \in Closure : /\ cl'[e].frame = cl[e].frame /\ cl'[e].spawn_parent = cl[e].spawn_parent
                            /\ cl'[e].call_parent = cl[e].call_parent
      /\ x # c => x \notin Closure
  BY DEF Takes
<1>3. \A e \in Closure : Live(e)' <=> Live(e)
  BY TakenTree
<1>4. PICK g \in Frame : g = Tips(v)[2]
  BY TakenFrame
<1>5. /\ Oldest(g) \in Helper /\ Caller(Oldest(g)) = f /\ f \notin Helper /\ Upper(v) = c /\ Lower(v) = f
      /\ f \in Held(v) /\ f # NULL /\ (x # c => ~fr[f].stolen)
  <2>1. f # NULL
    BY Kinds
  <2>. QED  BY <1>4, <2>1, TakenFrame, TakenTips, ZenonT(60)
<1>6. /\ Upper(v)' = d /\ Lower(v)' = g /\ Upper(w)' = (IF x = c THEN NULL ELSE c) /\ (x # c => Lower(w)' = f)
      /\ \A u \in Worker \ {v, w} : Upper(u)' = Upper(u) /\ (Upper(u) # NULL => Lower(u)' = Lower(u))
  BY <1>4, TakenWorkers
<1>7. ASSUME NEW e \in Closure, NEW h \in Helper, Begins(e, h)'  PROVE Begins(e, h)
  <2>1. CASE cl[e].frame = h
    BY <2>1 DEF Begins
  <2>2. CASE cl[e].frame # h
    <3>1. cl'[e].frame = NULL /\ cl[e].frame = NULL /\ \E u \in Worker : Upper(u)' = e /\ Oldest(Lower(u)') = h
      BY <1>2, <1>7, <2>2 DEF Begins
    <3>2. PICK u \in Worker : Upper(u)' = e /\ Oldest(Lower(u)') = h
      BY <3>1
    <3>3. CASE u = w
      <4>1. x # c /\ e = c /\ Oldest(f) = h
        BY <1>1, <1>6, <3>2, <3>3
      <4>. QED  BY <1>5, <3>1, <4>1 DEF Begins
    <3>4. CASE u \notin {v, w}
      <4>1. Upper(u) = e /\ Oldest(Lower(u)) = h
        BY <1>1, <1>6, <3>2, <3>4
      <4>. QED  BY <3>1, <4>1 DEF Begins
    <3>5. u # v
      BY <1>2, <1>6, <3>2
    <3>. QED  BY <3>3, <3>4, <3>5
  <2>. QED  BY <2>1, <2>2
<1>8. ASSUME NEW h \in Helper, Begins(d, h)'  PROVE Caller(h) = f
  <2>1. h # NULL
    BY Kinds
  <2>2. PICK u \in Worker : Upper(u)' = d /\ Oldest(Lower(u)') = h
    BY <1>2, <1>8, <2>1 DEF Begins
  <2>3. u # w
    BY <1>2, <1>6, <2>2
  <2>4. CASE u = v
    BY <1>5, <1>6, <2>2, <2>4
  <2>5. CASE u \notin {v, w}
    <3>1. Upper(u) = d
      BY <1>6, <2>2, <2>5
    <3>. QED  BY <1>2, <3>1, LowerIs
  <2>. QED  BY <2>3, <2>4, <2>5
<1>9. SpawnLink'
  <2>1. ASSUME NEW e \in Closure', NEW h \in Helper, Live(e)', Begins(e, h)'
        PROVE  cl'[e].spawn_parent # NULL /\ cl'[cl'[e].spawn_parent].frame = Caller(h)
    <3>1. CASE e \in Closure
      <4>1. HasFrame(cl[e].spawn_parent, Caller(h))
        BY <1>1, <1>3, <1>7, <2>1, <3>1 DEF SpawnLink
      <4>. QED  BY <1>1, <1>2, <3>1, <4>1 DEF HasFrame
    <3>2. CASE e = d
      BY <1>2, <1>8, <2>1, <3>2
    <3>3. CASE e = x /\ e \notin Closure
      BY <1>2, <1>5, <2>1, <3>3 DEF Begins
    <3>. QED  BY <1>2, <3>1, <3>2, <3>3
  <2>. QED  BY <2>1 DEF SpawnLink, HasFrame
<1>10. CallLink'
  <2>1. ASSUME NEW e \in Closure', Live(e)', cl'[e].frame \in Called, fr'[cl'[e].frame].stolen
        PROVE  cl'[e].call_parent # NULL /\ cl'[cl'[e].call_parent].frame = Caller(cl'[e].frame)
    <3>1. CASE e \in Closure
      <4>1. HasFrame(cl[e].call_parent, Caller(cl[e].frame))
        BY <1>1, <1>2, <1>3, <2>1, <3>1 DEF CallLink
      <4>. QED  BY <1>1, <1>2, <3>1, <4>1 DEF HasFrame
    <3>2. CASE e = d
      BY <1>2, <2>1, <3>2, Kinds
    <3>3. CASE e = x /\ e \notin Closure
      BY <1>2, <1>5, <2>1, <3>3
    <3>. QED  BY <1>2, <3>1, <3>2, <3>3
  <2>. QED  BY <2>1 DEF CallLink, HasFrame
<1>11. ASSUME x # c, NEW e \in Closure, cl[e].frame = f  PROVE FALSE
  <2>1. Entering(e)
    BY <1>1, <1>5, <1>11 DEF FrameInv
  <2>2. PICK u \in Worker : pc[u] \in {"promoted", "finish"} /\ t[u] = e
    BY <2>1 DEF Entering
  <2>3. Parked(e)
    BY <2>2, ThiefParked
  <2>. QED  BY <1>1, <1>5, <1>11, <2>3 DEF TipInv
<1>12. OneClosure'
  <2>1. ASSUME NEW a \in Closure', NEW b \in Closure', cl'[a].frame = cl'[b].frame, cl'[a].frame # NULL
        PROVE  a = b
    <3>1. a # d /\ b # d
      BY <1>2, <2>1
    <3>2. CASE a \in Closure /\ b \in Closure
      BY <1>1, <1>2, <2>1, <3>2 DEF OneClosure
    <3>3. CASE a = x /\ x # c
      BY <1>2, <1>11, <2>1, <3>1, <3>3
    <3>4. CASE b = x /\ x # c
      BY <1>2, <1>11, <2>1, <3>1, <3>4
    <3>. QED  BY <1>2, <3>1, <3>2, <3>3, <3>4
  <2>. QED  BY <2>1 DEF OneClosure
<1>. QED  BY <1>9, <1>10, <1>12

(* A closure is made of what is on the shadow stack of another worker.        *)
LEMMA PromoteF ==
  ASSUME FInv, IInv', NEW w \in Worker, NEW v \in Worker, NEW c \in Closure, Promote(w, v, c)
  PROVE  FInv'
<1>0. PICK x \in Nat, d \in Nat, f \in Frame : Takes(w, v, c, x, d, f)
  BY PromoteTakes
<1>1. /\ IInv /\ Typed /\ TypedTree /\ NULL \notin Closure /\ TipInv /\ SpawnInv /\ StatusInv /\ OneHand
      /\ AtInv /\ UnsyncedInv
  BY FParts DEF FInv, IInv
<1>2. /\ fr' = fr /\ pc'[w] = "promoted" /\ pc[w] = "steal" /\ pc'[v] = "user" /\ v # w /\ t'[w] = x /\ Hand(v)' = d
      /\ Closure' = Closure \union {x, d} /\ d \notin Closure /\ x # d /\ x # NULL /\ d # NULL
      /\ cl'[d].frame = NULL /\ cl'[x].frame = f /\ cl'[d].status = "RUNNING" /\ cl'[x].status = "RUNNING"
      /\ x # c => x \notin Closure /\ cl'[c].has_cilk_callee
      /\ \A e \in Closure : /\ cl'[e].frame = cl[e].frame
                            /\ e # c => /\ cl'[e].status = cl[e].status
                                        /\ cl'[e].has_cilk_callee = cl[e].has_cilk_callee
      /\ \A u \in Worker \ {v, w} : Idles(u)
  BY <1>0 DEF Takes
<1>3. \A e \in Closure : Live(e)' <=> Live(e)
  BY <1>0, TakenTree
<1>4. PICK g \in Frame : g = Tips(v)[2]
  BY <1>0, TakenFrame
<1>5. /\ Oldest(g) \in Helper /\ Upper(v) = c /\ Lower(v) = f /\ f \in Held(v) /\ f # NULL /\ Active(f)
      /\ x = c => cl[c].frame = f
  <2>1. f # NULL
    BY Kinds
  <2>. QED  BY <1>0, <1>2, <1>4, <2>1, TakenFrame, TakenTips
<1>6. /\ Upper(v)' = d /\ Lower(v)' = g /\ Upper(w)' = (IF x = c THEN NULL ELSE c) /\ (x # c => Lower(w)' = f)
      /\ \A u \in Worker \ {v, w} : /\ Tips(u)' = Tips(u) /\ Held(u)' = Held(u) /\ Upper(u)' = Upper(u)
                                    /\ Upper(u) # NULL => Lower(u)' = Lower(u)
  BY <1>0, <1>4, TakenWorkers
<1>7. /\ Len(Tips(v)) \in Nat /\ Len(Tips(v)') = Len(Tips(v)) - 1
      /\ \A i \in 1..Len(Tips(v)') : Tips(v)'[i] = Tips(v)[i + 1]
      /\ IsInjective(Tips(v))' /\ Held(v)' \subseteq Held(v) /\ f \notin Held(v)'
      /\ Held(w)' = {} /\ IsInjective(Tips(w))' /\ Tips(w) = <<>> /\ Len(Tips(w)) = 0 /\ Len(Tips(w)') = 0
  BY <1>0, TakenTips
<1>8. FramesStay /\ AtsStay /\ fr'[Root].stolen
  BY <1>1, <1>2 DEF FramesStay, AtsStay, AtInv
<1>9. /\ AtInv' /\ UnsyncedInv'
      /\ \A h \in Frame : (Active(h) => Active(h)') /\ (Running(h)' <=> Running(h))
  BY <1>8, StayAt
<1>10. \A u \in Worker : Held(u)' \subseteq Held(u)
  BY <1>6, <1>7
<1>11. ASSUME NEW e \in Closure', Parked(e)'
       PROVE  e = x \/ (e \in Closure /\ Parked(e))
  <2>1. e # d
    BY <1>2, <1>11 DEF Parked
  <2>2. CASE e = c /\ x # c
    BY <1>2, <1>11, <2>2 DEF Parked
  <2>3. CASE e \in Closure \ {c}
    <3>1. cl'[e].frame = cl[e].frame /\ cl'[e].status = cl[e].status /\ cl'[e].has_cilk_callee = cl[e].has_cilk_callee
      BY <1>2, <2>3
    <3>2. ASSUME NEW u \in Worker, t'[u] = e, e # x  PROVE t[u] = e /\ pc'[u] = pc[u]
      <4>1. u # w
        BY <1>2, <3>2
      <4>2. u # v
        <5>1. t'[v] = e => Hand(v)' = e
          BY <1>1, <2>3 DEF Hand
        <5>. QED  BY <1>2, <2>1, <3>2, <5>1
      <4>. QED  BY <1>2, <3>2, <4>1, <4>2 DEF Idles
    <3>. QED  BY <1>11, <2>3, <3>1, <3>2 DEF Parked
  <2>. QED  BY <1>2, <2>1, <2>2, <2>3
<1>12. TipInv'
  <2>1. \A u \in Worker : IsInjective(Tips(u))'
    BY <1>1, <1>6, <1>7 DEF TipInv
  <2>2. \A u \in Worker : \A h \in Held(u)' : Active(h)'
    <3>1. \A u \in Worker : \A h \in Held(u) : h \in Frame /\ Active(h)
      BY <1>1, FParts, TipsAre DEF TipInv
    <3>. QED  BY <1>9, <1>10, <3>1
  <2>3. \A a, b \in Worker : a # b => Held(a)' \intersect Held(b)' = {}
    BY <1>1, <1>10 DEF TipInv
  <2>4. ASSUME NEW e \in Closure', Parked(e)'
        PROVE  Active(cl[e].frame)' /\ \A u \in Worker : cl'[e].frame \notin Held(u)'
    <3>1. CASE e = x
      <4>1. Active(f)'
        BY <1>5, <1>9
      <4>2. \A u \in Worker : f \notin Held(u)'
        BY <1>1, <1>5, <1>7, <1>10 DEF TipInv
      <4>. QED  BY <1>2, <3>1, <4>1, <4>2
    <3>2. CASE e \in Closure /\ Parked(e)
      <4>1. /\ Active(cl[e].frame) /\ \A u \in Worker : cl[e].frame \notin Held(u)
        BY <1>1, <3>2 DEF TipInv
      <4>2. PICK h \in Frame : h = cl[e].frame
        BY <3>2, FrameOfClosure DEF Parked
      <4>3. Active(h)' /\ cl'[e].frame = h
        BY <1>2, <1>9, <3>2, <4>1, <4>2
      <4>. QED  BY <1>10, <4>1, <4>2, <4>3
    <3>. QED  BY <1>11, <2>4, <3>1, <3>2
  <2>. QED  BY <2>1, <2>2, <2>3, <2>4 DEF TipInv
<1>13. SpawnInv'
  <2>. SUFFICES ASSUME NEW h \in Helper, Running(h)
                PROVE  \/ \E u \in Worker : \E i \in 1..Len(Tips(u)') - 1 : Oldest(Tips(u)'[i + 1]) = h
                       \/ \E e \in Closure' : Live(e)' /\ Begins(e, h)'
    BY <1>9, Kinds DEF SpawnInv
  <2>1. CASE \E u \in Worker : \E i \in 1..Len(Tips(u)) - 1 : Oldest(Tips(u)[i + 1]) = h
    <3>1. PICK u \in Worker : \E i \in 1..Len(Tips(u)) - 1 : Oldest(Tips(u)[i + 1]) = h
      BY <2>1
    <3>2. PICK i \in 1..Len(Tips(u)) - 1 : Oldest(Tips(u)[i + 1]) = h
      BY <3>1
    <3>3. CASE u \notin {v, w}
      BY <1>6, <3>2, <3>3
    <3>4. u # w
      BY <1>7, <3>2
    <3>5. CASE u = v /\ i = 1
      <4>1. Oldest(g) = h
        BY <1>4, <3>2, <3>5
      <4>2. Begins(d, h)' /\ Live(d)'
        BY <1>2, <1>6, <4>1 DEF Begins, Live
      <4>. QED  BY <1>2, <4>2
    <3>6. CASE u = v /\ i # 1
      <4>1. i - 1 \in 1..Len(Tips(v)') - 1 /\ (i - 1) + 1 = i /\ i \in 1..Len(Tips(v)')
        BY <1>7, <3>2, <3>6
      <4>2. Tips(v)'[i] = Tips(v)[i + 1]
        BY <1>7, <4>1
      <4>. QED  BY <3>2, <3>6, <4>1, <4>2
    <3>. QED  BY <3>3, <3>4, <3>5, <3>6
  <2>2. CASE \E e \in Closure : Live(e) /\ Begins(e, h)
    <3>1. PICK e \in Closure : Live(e) /\ Begins(e, h)
      BY <2>2
    <3>2. CASE cl[e].frame = h
      BY <1>2, <1>3, <3>1, <3>2 DEF Begins
    <3>3. CASE cl[e].frame # h
      <4>1. cl[e].frame = NULL /\ \E u \in Worker : Upper(u) = e /\ Oldest(Lower(u)) = h
        BY <3>1, <3>3 DEF Begins
      <4>2. PICK u \in Worker : Upper(u) = e /\ Oldest(Lower(u)) = h
        BY <4>1
      <4>3. CASE u = v
        <5>1. e = c /\ Oldest(f) = h /\ x # c
          BY <1>5, <4>1, <4>2, <4>3
        <5>2. Upper(w)' = e /\ Oldest(Lower(w)') = h
          BY <1>6, <5>1
        <5>. QED  BY <1>2, <1>3, <3>1, <4>1, <5>2 DEF Begins
      <4>4. u # w
        BY <1>1, <1>2, <4>2 DEF Upper
      <4>5. CASE u \notin {v, w}
        <5>1. Upper(u)' = e /\ Oldest(Lower(u)') = h
          BY <1>1, <1>6, <4>2, <4>5
        <5>. QED  BY <1>2, <1>3, <3>1, <4>1, <5>1 DEF Begins
      <4>. QED  BY <4>3, <4>4, <4>5
    <3>. QED  BY <3>2, <3>3
  <2>. QED  BY <1>1, <2>1, <2>2 DEF SpawnInv
<1>14. StatusInv'
  <2>1. ASSUME NEW e \in Closure'
        PROVE  /\ cl'[e].status = "RETURNING" => cl'[e].frame = NULL \/ Over(cl[e].frame)'
               /\ cl'[e].status = "SUSPENDED" /\ ~cl'[e].has_cilk_callee => cl'[e].frame # NULL /\ AtSync(cl[e].frame)'
    <3>1. CASE e \in {x, d}
      BY <1>2, <3>1
    <3>2. CASE e = c /\ x # c
      <4>1. cl'[c].status = "SUSPENDED" /\ cl'[c].has_cilk_callee
        BY <1>0, <3>2 DEF Takes
      <4>. QED  BY <3>2, <4>1
    <3>3. CASE e \in Closure \ {c}
      BY <1>2, <1>8, <3>3, StatusStays
    <3>. QED  BY <1>2, <3>1, <3>2, <3>3
  <2>. QED  BY <2>1 DEF StatusInv
<1>. QED
  BY <1>0, <1>9, <1>12, <1>13, <1>14, TakenTree, TakenWorkers, TakenLinks DEF FInv

-----------------------------------------------------------------------------
(* The frames of a stacklet: each is called by the next, and none is there    *)
(* twice.                                                                     *)
LEMMA StackletLinks ==
  \A f \in Frame :
    /\ \A i \in 1..Len(Stacklet[f]) - 1 : /\ Stacklet[f][i] \in Called
                                          /\ Caller(Stacklet[f][i]) = Stacklet[f][i + 1]
    /\ \A i, j \in 1..Len(Stacklet[f]) : Stacklet[f][i] = Stacklet[f][j] => i = j
<1>. DEFINE S(f) == Stacklet[f]
            Linking(f) ==
              /\ \A i \in 1..Len(S(f)) - 1 : S(f)[i] \in Called /\ Caller(S(f)[i]) = S(f)[i + 1]
              /\ \A i \in 1..Len(S(f)) : Len(Stacklet[S(f)[i]]) = Len(S(f)) + 1 - i
            B == {f \in Frame : ~Linking(f)}
<1>1. ASSUME B # {}  PROVE FALSE
  <2>1. PICK f \in B : f \in Called => Caller(f) \in Frame /\ Caller(f) \notin B
    <3>1. B \subseteq Frame
      OBVIOUS
    <3>. HIDE DEF B
    <3>. QED  BY <1>1, <3>1, CallersFirst
  <2>2. f \in Frame /\ ~Linking(f)
    BY <2>1
  <2>. DEFINE s == Stacklet[f]
  <2>3. Len(s) \in Nat \ {0} /\ s[1] = f /\ (f \notin Called => s = <<f>>)
    BY <2>2, StackletOf
  <2>4. CASE f \notin Called
    <3>1. Len(s) = 1
      BY <2>3, <2>4
    <3>2. Linking(f)
      BY <2>3, <3>1
    <3>. QED  BY <2>2, <3>2
  <2>5. CASE f \in Called
    <3>. DEFINE g == Caller(f)
                u == Stacklet[g]
    <3>1. g \in Frame /\ Linking(g)
      BY <2>1, <2>5
    <3>2. Len(s) = Len(u) + 1 /\ \A i \in 1..Len(u) : s[i + 1] = u[i]
      BY <2>2, <2>5, StackletOf
    <3>3. Len(u) \in Nat \ {0} /\ u[1] = g
      BY <3>1, StackletOf
    <3>4. /\ \A i \in 1..Len(u) - 1 : u[i] \in Called /\ Caller(u[i]) = u[i + 1]
          /\ \A i \in 1..Len(u) : Len(Stacklet[u[i]]) = Len(u) + 1 - i
      BY <3>1
    <3>. HIDE DEF s, u, g
    <3>5. ASSUME NEW i \in 1..Len(s) - 1  PROVE s[i] \in Called /\ Caller(s[i]) = s[i + 1]
      <4>1. CASE i = 1
        <5>1. 1 \in 1..Len(u) /\ s[1 + 1] = u[1]
          BY <3>2, <3>3
        <5>. QED  BY <2>3, <2>5, <3>3, <4>1, <5>1 DEF g
      <4>2. CASE i # 1
        <5>1. i - 1 \in 1..Len(u) - 1 /\ i - 1 \in 1..Len(u) /\ i \in 1..Len(u) /\ (i - 1) + 1 = i
          BY <3>2, <3>3, <4>2
        <5>2. s[i] = u[i - 1] /\ s[i + 1] = u[i]
          BY <3>2, <5>1
        <5>3. u[i - 1] \in Called /\ Caller(u[i - 1]) = u[i]
          BY <3>4, <5>1
        <5>. QED  BY <5>2, <5>3
      <4>. QED  BY <4>1, <4>2
    <3>6. ASSUME NEW i \in 1..Len(s)  PROVE Len(Stacklet[s[i]]) = Len(s) + 1 - i
      <4>1. CASE i = 1
        <5>1. Len(Stacklet[s[i]]) = Len(s)
          BY <2>3, <4>1 DEF s
        <5>. QED  BY <2>3, <4>1, <5>1
      <4>2. CASE i # 1
        <5>1. i - 1 \in 1..Len(u) /\ (i - 1) + 1 = i
          BY <3>2, <3>3, <4>2
        <5>2. s[i] = u[i - 1] /\ Len(Stacklet[u[i - 1]]) = Len(u) + 1 - (i - 1)
          BY <3>2, <3>4, <5>1
        <5>. QED  BY <3>2, <3>3, <5>1, <5>2
      <4>. QED  BY <4>1, <4>2
    <3>7. Linking(f)
      BY <3>5, <3>6 DEF s
    <3>. QED  BY <2>2, <3>7
  <2>. QED  BY <2>4, <2>5
<1>2. ASSUME NEW f \in Frame  PROVE Linking(f) /\ Len(Stacklet[f]) \in Nat
  <2>1. Len(Stacklet[f]) \in Nat
    BY StackletOf
  <2>. QED  BY <1>1, <2>1
<1>3. ASSUME NEW f \in Frame, NEW i \in 1..Len(Stacklet[f]), NEW j \in 1..Len(Stacklet[f]),
             Stacklet[f][i] = Stacklet[f][j]
      PROVE  i = j
  <2>1. Len(Stacklet[f]) + 1 - i = Len(Stacklet[f]) + 1 - j
    BY <1>2, <1>3
  <2>. QED  BY <1>2, <2>1
<1>. QED  BY <1>2, <1>3

(* The thief w gives closures to the frames G[n + 1], ..., G[1] that have     *)
(* none, from the stolen frame f downwards; G[0] has one, o, or gets it.      *)
Climbs(o, f, n, G) ==
  \A i \in 0..n + 1 : i # 0 \/ cl[o].frame = NULL =>
    \E k \in 1..Len(Stacklet[f]) : Stacklet[f][k] = G[i] /\ \A j \in 1..k : ~fr[Stacklet[f][j]].stolen
Finishes(w, y, o, f, n, L, G) ==
  /\ pc[w] = "finish" /\ pc'[w] = "do" /\ t[w] = y /\ Hand(w) = y /\ y # o
  /\ t' = t /\ good' = good /\ done' = done /\ ltq' = ltq /\ cur' = cur
  /\ \A u \in Worker : Hand(u)' = Hand(u)
  /\ \A u \in Worker \ {w} : Idles(u) /\ Hand(u) \notin {y, o}
  /\ cl[y].frame = f /\ cl[y].call_parent = o /\ cl[y].spawn_parent = NULL /\ ~fr[f].stolen
  /\ cl[o].status = "SUSPENDED" /\ cl[o].has_cilk_callee
  /\ \A d \in Closure : Live(d) /\ cl[d].call_parent = o => d = y
  /\ Linked(y, n, L) /\ G[n + 1] = f /\ \A i \in 1..n : L[i] \in Nat
  /\ Climbs(o, f, n, G)
  /\ \A i \in 0..n + 1 : /\ cl'[L[i]].frame = G[i] /\ G[i] \in Range(Stacklet[f]) /\ G[i] \in Frame
                         /\ fr'[G[i]].stolen
  /\ \A i \in 1..n + 1 : G[i] \in Called /\ Caller(G[i]) = G[i - 1] /\ ~fr[G[i]].stolen
  /\ \A i, j \in 0..n + 1 : G[i] = G[j] => i = j
  /\ cl[o].frame = G[0] \/ (cl[o].frame = NULL /\ G[0] = Oldest(f) /\ ~fr[G[0]].stolen)
  /\ \A i \in 1..n : cl'[L[i]].join_counter = 0
  /\ \A d \in Closure : cl'[d].join_counter = cl[d].join_counter
  /\ \A d \in Closure \ {y, o} : cl'[d] = cl[d]
  /\ fr'[f].unsynced
  /\ \A g \in Frame : /\ fr'[g].at = fr[g].at
                      /\ fr[g].stolen => fr'[g].stolen
                      /\ g \notin Range(Stacklet[f]) => fr'[g].stolen = fr[g].stolen
                      /\ fr'[g].unsynced <=> fr[g].unsynced \/ g = f

LEMMA FinishPath ==
  ASSUME FInv, NEW w \in Worker, NEW y \in Closure, FinishPromote(w, y), ~fr[cl[y].frame].stolen
  PROVE  \E o \in Closure : \E f \in Frame : \E n \in Nat : \E L, G : Finishes(w, y, o, f, n, L, G)
<1>1. /\ IInv /\ Typed /\ NULL \notin Closure /\ Closure \subseteq Nat /\ pc[w] = "finish" /\ t[w] = y
      /\ OneHand /\ SpawnLink /\ CoverInv(w) /\ fr \in [Frame -> FrameRecord]
      /\ cl \in Seq(ClosureRecord) /\ pc \in [Worker -> PC]
  BY FParts DEF FInv, IInv, FinishPromote, At, Typed, TypedTree, TypedRun, TypedRuntime
<1>2. /\ cl[y].frame \in Frame /\ cl[y].call_parent \in Closure /\ Hand(w) = y /\ y # cl[y].call_parent
      /\ cl[cl[y].call_parent].status = "SUSPENDED" /\ Live(y) /\ cl[y].spawn_parent = NULL
      /\ cl[cl[y].call_parent].has_cilk_callee
      /\ \A d \in Closure : Live(d) /\ cl[d].call_parent = cl[y].call_parent => d = y
  BY <1>1, EnteringCaller
<1>3. PICK o \in Closure : o = cl[y].call_parent
  BY <1>2
<1>4. PICK f \in Frame : f = cl[y].frame
  BY <1>2
<1>5. PICK n \in Nat : \E L : NewFrameFinishes(y, n, L)
  BY <1>1, NewFrameFinished
<1>6. PICK L : NewFrameFinishes(y, n, L)
  BY <1>5
<1>7. PICK P, m : P = NotStolen(f) /\ m = Len(P)
  OBVIOUS
<1>8. PICK s \in Seq(Frame), l \in Nat : s = Stacklet[f] /\ l = Len(s)
  BY StackletOf
<1>9. /\ m \in Nat \ {0} /\ P[1] = f /\ m <= l /\ P \in Seq(Frame)
      /\ \A i \in 1..m : P[i] \in Range(s) /\ P[i] = s[i] /\ ~fr[s[i]].stolen
      /\ m < l => fr[s[m + 1]].stolen
  BY <1>1, <1>4, <1>7, <1>8, NotStolenFrames
<1>10. /\ Linked(y, n, L) /\ cl'[y].frame = f /\ TypedTree'
       /\ cl[o].frame = NULL => cl'[o].frame = P[m] /\ (m >= 2 => n = m - 2)
       /\ cl[o].frame # NULL => cl'[o].frame = cl[o].frame /\ n = m - 1
       /\ \A i \in 1..n : /\ n + 2 - i \in 1..m /\ cl'[L[i]].frame = P[n + 2 - i] /\ cl'[L[i]].join_counter = 0
       /\ \A d \in Closure : cl'[d].join_counter = cl[d].join_counter
       /\ \A d \in Closure \ {y, o} : cl'[d] = cl[d]
       /\ \A g \in Frame : /\ fr'[g].at = fr[g].at
                           /\ fr'[g].stolen <=> fr[g].stolen \/ g \in Range(P)
                           /\ fr'[g].unsynced <=> fr[g].unsynced \/ g = P[1]
       /\ fr' \in [Frame -> FrameRecord]
  BY <1>3, <1>4, <1>6, <1>7 DEF NewFrameFinishes
<1>11. f \in Called
  <2>1. f # Root
    BY <1>1, <1>4, FParts DEF AtInv
  <2>2. f \notin Helper
    <3>1. ASSUME f \in Helper  PROVE FALSE
      <4>1. Begins(y, f)
        BY <1>4 DEF Begins
      <4>2. HasFrame(cl[y].spawn_parent, Caller(f))
        BY <1>1, <1>2, <3>1, <4>1 DEF SpawnLink
      <4>. QED  BY <1>2, <4>2 DEF HasFrame
    <3>. QED  BY <3>1
  <2>. QED  BY <2>1, <2>2, Kinds
<1>12. l >= 2 /\ s[1] = f /\ Oldest(f) = s[l] /\ Range(s) = {s[i] : i \in 1..l} /\ Range(s) \subseteq Frame
  <2>1. /\ Len(Stacklet[f]) = Len(Stacklet[Caller(f)]) + 1 /\ Caller(f) \in Frame
        /\ Stacklet[f][1] = f /\ Oldest(f) = Stacklet[f][Len(Stacklet[f])] /\ Range(Stacklet[f]) \subseteq Frame
        /\ Range(Stacklet[f]) = {Stacklet[f][i] : i \in 1..Len(Stacklet[f])}
    BY <1>11, StackletOf
  <2>2. Len(Stacklet[Caller(f)]) \in Nat \ {0}
    BY <2>1, StackletOf
  <2>. QED  BY <1>8, <2>1, <2>2
<1>13. Upper(w) = o /\ Lower(w) = f /\ o # NULL /\ CoversIn(fr, cl[o].frame, f)
  <2>1. Upper(w) = o /\ Lower(w) = f /\ o # NULL
    BY <1>1, <1>3, <1>4 DEF Upper, Lower
  <2>. QED  BY <1>1, <2>1 DEF CoverInv, Covers
<1>14. /\ n + 2 <= l /\ n + 1 <= m /\ cl'[o].frame = s[n + 2]
       /\ cl[o].frame = s[n + 2] \/ (cl[o].frame = NULL /\ n + 2 = l /\ n + 2 = m)
  <2>1. CASE cl[o].frame = NULL
    <3>1. \A i \in 1..l : ~fr[s[i]].stolen
      <4>1. FreshIn(fr, f)
        BY <1>13, <2>1 DEF CoversIn
      <4>. QED  BY <1>8, <1>12, <4>1 DEF FreshIn
    <3>2. m = l
      <4>1. m < l => m + 1 \in 1..l
        BY <1>9
      <4>. QED  BY <1>8, <1>9, <3>1, <4>1
    <3>3. m >= 2 /\ m \in 1..m
      BY <1>9, <1>12, <3>2
    <3>. QED  BY <1>9, <1>10, <2>1, <3>2, <3>3
  <2>2. CASE cl[o].frame # NULL
    <3>1. \E k \in 1..l : s[k] = cl[o].frame /\ fr[cl[o].frame].stolen /\ \A i \in 1..k - 1 : ~fr[s[i]].stolen
      BY <1>8, <1>13, <2>2 DEF CoversIn
    <3>2. PICK k \in 1..l : s[k] = cl[o].frame /\ fr[s[k]].stolen /\ \A i \in 1..k - 1 : ~fr[s[i]].stolen
      BY <3>1
    <3>3. ~(k <= m)
      BY <1>9, <3>2
    <3>4. ~(m < k - 1)
      <4>1. m < k - 1 => m < l /\ m + 1 \in 1..k - 1
        BY <1>9
      <4>. QED  BY <1>9, <3>2, <4>1
    <3>5. k = m + 1 /\ n = m - 1
      BY <1>9, <1>10, <2>2, <3>3, <3>4
    <3>. QED  BY <1>9, <1>10, <2>2, <3>2, <3>5
  <2>. QED  BY <2>1, <2>2
<1>. DEFINE G == [i \in 0..n + 1 |-> s[n + 2 - i]]
<1>15. \A i \in 0..n + 1 : /\ n + 2 - i \in 1..l /\ G[i] = s[n + 2 - i] /\ G[i] \in Range(s) /\ G[i] \in Frame
                           /\ i # 0 => n + 2 - i \in 1..m /\ n + 2 - i \in 1..l - 1 /\ i - 1 \in 0..n + 1
                                       /\ n + 2 - (i - 1) = (n + 2 - i) + 1
  <2>. TAKE i \in 0..n + 1
  <2>1. n + 2 - i \in 1..l
    BY <1>14
  <2>2. s[n + 2 - i] \in Range(s) /\ s[n + 2 - i] \in Frame
    BY <1>12, <2>1
  <2>3. i # 0 => n + 2 - i \in 1..m /\ n + 2 - i \in 1..l - 1 /\ i - 1 \in 0..n + 1
                 /\ n + 2 - (i - 1) = (n + 2 - i) + 1
    BY <1>9, <1>14
  <2>. QED  BY <2>1, <2>2, <2>3
<1>16. G[0] = s[n + 2] /\ G[n + 1] = f
  <2>1. 0 \in 0..n + 1 /\ n + 1 \in 0..n + 1 /\ n + 2 - 0 = n + 2 /\ n + 2 - (n + 1) = 1
    OBVIOUS
  <2>. HIDE DEF G
  <2>. QED  BY <1>12, <1>15, <2>1
<1>. HIDE DEF G
<1>17. \A i \in 1..m : s[i] \in Range(P)
  BY <1>7, <1>9, LenProperties, SMTT(30) DEF Range
<1>18. Range(P) \subseteq Range(s)
  <2>1. \A x \in Range(P) : \E i \in 1..m : x = P[i]
    BY <1>7, <1>9, LenProperties DEF Range
  <2>. QED  BY <1>9, <2>1
<1>19. ASSUME NEW i \in 1..n + 1
       PROVE  G[i] \in Called /\ Caller(G[i]) = G[i - 1] /\ ~fr[G[i]].stolen /\ fr'[G[i]].stolen
  <2>1. /\ n + 2 - i \in 1..m /\ n + 2 - i \in 1..l - 1 /\ i - 1 \in 0..n + 1 /\ G[i] = s[n + 2 - i]
        /\ n + 2 - (i - 1) = (n + 2 - i) + 1 /\ i \in 0..n + 1 /\ G[i] \in Frame
    <3>1. i \in 0..n + 1 /\ i # 0
      OBVIOUS
    <3>. QED  BY <1>15, <3>1, Zenon
  <2>2. s[n + 2 - i] \in Called /\ Caller(s[n + 2 - i]) = s[(n + 2 - i) + 1]
    BY <1>8, <2>1, StackletLinks
  <2>3. G[i - 1] = s[(n + 2 - i) + 1]
    BY <1>15, <2>1
  <2>. QED  BY <1>9, <1>10, <1>17, <2>1, <2>2, <2>3, SMTT(30)
<1>20. \A i, j \in 0..n + 1 : G[i] = G[j] => i = j
  <2>. TAKE i, j \in 0..n + 1
  <2>1. \A a, b \in 1..l : s[a] = s[b] => a = b
    BY <1>8, StackletLinks
  <2>2. s[n + 2 - i] = s[n + 2 - j] => n + 2 - i = n + 2 - j
    BY <1>15, <2>1
  <2>. QED  BY <1>15, <2>2
<1>21. fr'[G[0]].stolen /\ (cl[o].frame = G[0] \/ (cl[o].frame = NULL /\ G[0] = Oldest(f) /\ ~fr[G[0]].stolen))
  <2>1. CASE cl[o].frame = G[0]
    <3>1. fr[G[0]].stolen /\ G[0] \in Frame
      <4>1. G[0] \in Frame
        BY <1>15
      <4>2. cl[o].frame # NULL
        BY <2>1, <4>1, Kinds
      <4>3. fr[cl[o].frame].stolen
        BY <1>2, <1>3, <4>2, SuspendedStolen
      <4>. QED  BY <2>1, <4>1, <4>3
    <3>. QED  BY <1>10, <2>1, <3>1
  <2>2. CASE cl[o].frame = NULL /\ n + 2 = l /\ n + 2 = m
    <3>1. m \in 1..m /\ G[0] = s[m] /\ G[0] \in Frame
      BY <1>9, <1>15, <1>16, <2>2
    <3>. QED  BY <1>9, <1>10, <1>12, <1>17, <2>2, <3>1
  <2>. QED  BY <1>14, <1>16, <2>1, <2>2
<1>22. ASSUME NEW i \in 0..n + 1  PROVE cl'[L[i]].frame = G[i]
  <2>1. L[0] = o /\ L[n + 1] = y
    BY <1>3, <1>10 DEF Linked
  <2>2. i = 0 \/ i = n + 1 \/ i \in 1..n
    OBVIOUS
  <2>3. ASSUME i \in 1..n  PROVE cl'[L[i]].frame = G[i]
    BY <1>9, <1>10, <1>15, <2>3
  <2>. QED  BY <1>10, <1>14, <1>16, <2>1, <2>2, <2>3
<1>23. \A i \in 1..n : L[i] \in Nat
  <2>1. TypedTree' => Closure' = DOMAIN cl' /\ \A e \in DOMAIN cl' : e \in Nat
    BY DEF TypedTree, Closure
  <2>. QED  BY <1>10, <2>1, SMTT(30) DEF Linked
<1>24. /\ pc'[w] = "do" /\ t' = t /\ good' = good /\ done' = done /\ ltq' = ltq /\ cur' = cur /\ deque' = deque
       /\ \A u \in Worker \ {w} : pc'[u] = pc[u]
  <2>1. pc' = [pc EXCEPT ![w] = "do"] /\ t' = t /\ good' = good /\ done' = done /\ ltq' = ltq /\ cur' = cur
        /\ deque' = deque
    BY DEF FinishPromote, Goto
  <2>. QED  BY <1>1, <2>1
<1>25. \A u \in Worker : Hand(u)' = Hand(u)
  BY <1>24 DEF Hand
<1>26. \A u \in Worker \ {w} : Idles(u) /\ Hand(u) \notin {y, o}
  <2>1. \A u \in Worker \ {w} : Idles(u)
    BY <1>24 DEF Idles
  <2>. QED  BY <1>1, <1>2, <1>3, <2>1 DEF OneHand
<1>27. /\ fr'[f].unsynced
       /\ \A g \in Frame : /\ fr'[g].at = fr[g].at
                           /\ fr[g].stolen => fr'[g].stolen
                           /\ g \notin Range(Stacklet[f]) => fr'[g].stolen = fr[g].stolen
                           /\ fr'[g].unsynced <=> fr[g].unsynced \/ g = f
  <2>1. \A g \in Frame : fr[g].stolen \in BOOLEAN /\ fr'[g].stolen \in BOOLEAN
    BY <1>1, <1>10 DEF FrameRecord
  <2>. QED  BY <1>8, <1>9, <1>10, <1>18, <2>1
<1>28. \A i \in 0..n + 1 : /\ cl'[L[i]].frame = G[i] /\ G[i] \in Range(Stacklet[f]) /\ G[i] \in Frame
                           /\ fr'[G[i]].stolen
  <2>1. \A i \in 0..n + 1 : i = 0 \/ i \in 1..n + 1
    OBVIOUS
  <2>. QED  BY <1>8, <1>15, <1>19, <1>21, <1>22, <2>1
<1>30. Climbs(o, f, n, G)
  <2>1. ASSUME NEW i \in 0..n + 1, i # 0 \/ cl[o].frame = NULL
        PROVE  \E k \in 1..l : s[k] = G[i] /\ \A j \in 1..k : ~fr[s[j]].stolen
    <3>1. n + 2 - i \in 1..m /\ n + 2 - i \in 1..l /\ G[i] = s[n + 2 - i]
      <4>1. CASE i # 0
        BY <1>15, <4>1
      <4>2. CASE i = 0
        <5>1. cl[o].frame = NULL /\ s[n + 2] # NULL
          <6>1. 0 \in 0..n + 1
            OBVIOUS
          <6>2. G[0] \in Frame
            BY <1>15, <6>1
          <6>. QED  BY <1>16, <2>1, <4>2, <6>2, Kinds
        <5>2. n + 2 = m
          BY <1>14, <5>1
        <5>. QED  BY <1>9, <1>15, <4>2, <5>2
      <4>. QED  BY <4>1, <4>2
    <3>2. PICK k \in 1..l : k = n + 2 - i
      BY <3>1
    <3>3. \A j \in 1..k : j \in 1..m
      BY <1>9, <3>1, <3>2
    <3>. QED  BY <1>9, <3>1, <3>2, <3>3
  <2>. QED  BY <1>8, <2>1 DEF Climbs
<1>29. Finishes(w, y, o, f, n, L, G)
  BY <1>30, <1>1, <1>2, <1>3, <1>4, <1>10, <1>16, <1>19, <1>20, <1>21, <1>23, <1>24, <1>25, <1>26, <1>27, <1>28, SMTT(30) DEF Finishes
<1>. QED  BY <1>29

(* The closures afterwards: the new ones, y, o, and those that are as before. *)
LEMMA FinishedClosures ==
  ASSUME FInv, NEW w \in Worker, NEW y \in Closure, NEW o \in Closure, NEW f \in Frame, NEW n \in Nat,
         NEW L, NEW G, Finishes(w, y, o, f, n, L, G)
  PROVE  /\ Closure \subseteq Closure' /\ NULL \notin Closure'
         /\ \A d \in Closure' : d \in Closure \ {y, o} \/ d = o \/ \E i \in 1..n + 1 : d = L[i]
         /\ \A d \in Closure' : d \in Closure \/ \E i \in 1..n : d = L[i]
         /\ \A i \in 1..n : /\ L[i] \notin Closure /\ L[i] # NULL /\ cl'[L[i]].status = "SUSPENDED"
                            /\ cl'[L[i]].has_cilk_callee /\ cl'[L[i]].join_counter = 0
         /\ \A i \in 1..n + 1 : /\ cl'[L[i]].frame = G[i] /\ cl'[L[i]].call_parent = L[i - 1]
                                /\ cl'[L[i]].spawn_parent = NULL /\ L[i - 1] # NULL
                                /\ cl'[L[i - 1]].frame = G[i - 1] /\ G[i] # NULL
         /\ cl'[y].frame = f /\ cl'[y].spawn_parent = NULL /\ cl'[y].status = "READY" /\ ~cl'[y].has_cilk_callee
         /\ cl'[o].frame = G[0] /\ cl'[o].status = "SUSPENDED" /\ cl'[o].has_cilk_callee /\ L[0] = o /\ L[n + 1] = y
         /\ \A d \in Closure \ {y, o} : cl'[d] = cl[d]
         /\ \A d \in Closure : /\ cl'[d].spawn_parent = cl[d].spawn_parent
                               /\ cl'[d].join_counter = cl[d].join_counter
                               /\ cl[d].frame # NULL => cl'[d].frame = cl[d].frame
         /\ cl'[o].call_parent = cl[o].call_parent
<1>1. /\ Linked(y, n, L) /\ G[n + 1] = f /\ y # o
      /\ \A i \in 0..n + 1 : cl'[L[i]].frame = G[i] /\ G[i] \in Frame
      /\ \A i \in 1..n : cl'[L[i]].join_counter = 0 /\ L[i] \in Nat
      /\ \A d \in Closure : cl'[d].join_counter = cl[d].join_counter
      /\ \A d \in Closure \ {y, o} : cl'[d] = cl[d]
      /\ cl[y].frame = f /\ cl[y].call_parent = o /\ cl[y].spawn_parent = NULL
      /\ cl[o].status = "SUSPENDED" /\ cl[o].has_cilk_callee
  BY DEF Finishes
<1>2. NULL \notin Closure /\ NULL \notin Nat /\ Closure \subseteq Nat
  BY FParts, WorkerAssumption
<1>3. /\ 0 \in 0..n + 1 /\ n + 1 \in 0..n + 1 /\ n + 1 \in 1..n + 1 /\ 0 \in 0..n
      /\ \A i \in 1..n : i \in 0..n /\ i \in 1..n + 1 /\ i \in 0..n + 1
      /\ \A i \in 1..n + 1 : /\ i \in 0..n + 1 /\ i - 1 \in 0..n + 1 /\ (i \in 1..n \/ i = n + 1)
                             /\ (i - 1 = 0 \/ i - 1 \in 1..n)
  OBVIOUS
<1>4. /\ L[0] = o /\ L[n + 1] = y /\ Closure \subseteq Closure'
      /\ \A d \in Closure' : d \in Closure \ {y} \/ \E i \in 1..n + 1 : d = L[i]
      /\ \A i \in 1..n : L[i] \notin Closure
      /\ \A i \in 1..n + 1 : cl'[L[i]].call_parent = L[i - 1] /\ cl'[L[i]].spawn_parent = NULL
      /\ \A i \in 0..n : cl'[L[i]].has_cilk_callee /\ cl'[L[i]].status = "SUSPENDED"
      /\ cl'[y].status = "READY" /\ ~cl'[y].has_cilk_callee
      /\ \A d \in Closure \ {y} :
           /\ cl'[d].call_parent = cl[d].call_parent /\ cl'[d].spawn_parent = cl[d].spawn_parent
           /\ cl[d].frame # NULL => cl'[d].frame = cl[d].frame
  BY <1>1 DEF Linked
<1>5. \A i \in 1..n : L[i] \notin Closure /\ L[i] # NULL
  BY <1>1, <1>2, <1>4
<1>6. /\ \A d \in Closure' : d \in Closure \ {y, o} \/ d = o \/ \E i \in 1..n + 1 : d = L[i]
      /\ \A d \in Closure' : d \in Closure \/ \E i \in 1..n : d = L[i]
  BY <1>3, <1>4
<1>7. NULL \notin Closure'
  BY <1>2, <1>5, <1>6
<1>8. \A i \in 1..n + 1 : /\ cl'[L[i]].frame = G[i] /\ cl'[L[i - 1]].frame = G[i - 1]
                          /\ L[i - 1] # NULL /\ G[i] # NULL
  <2>. TAKE i \in 1..n + 1
  <2>1. i \in 0..n + 1 /\ i - 1 \in 0..n + 1 /\ (i - 1 = 0 \/ i - 1 \in 1..n)
    BY <1>3
  <2>2. L[i - 1] # NULL
    BY <1>2, <1>4, <1>5, <2>1
  <2>. QED  BY <1>1, <2>1, <2>2, Kinds
<1>9. cl'[y].frame = f /\ cl'[o].frame = G[0] /\ cl'[y].spawn_parent = NULL
  BY <1>1, <1>3, <1>4
<1>10. \A d \in Closure : /\ cl'[d].spawn_parent = cl[d].spawn_parent
                          /\ cl'[d].join_counter = cl[d].join_counter
                          /\ cl[d].frame # NULL => cl'[d].frame = cl[d].frame
  BY <1>1, <1>4, <1>9
<1>. QED  BY <1>1, <1>3, <1>4, <1>5, <1>6, <1>7, <1>8, <1>9, <1>10

(* No child comes or goes.                                                    *)
LEMMA FinishedTree ==
  ASSUME FInv, NEW w \in Worker, NEW y \in Closure, NEW o \in Closure, NEW f \in Frame, NEW n \in Nat,
         NEW L, NEW G, Finishes(w, y, o, f, n, L, G)
  PROVE  /\ \A e \in Closure : Live(e)' <=> Live(e)
         /\ \A p \in Closure : Kids(p)' = Kids(p)
         /\ CountInv' /\ KidsInv'
<1>1. /\ IInv /\ Typed /\ TypedTree /\ NULL \notin Closure /\ CountInv /\ KidsInv /\ ParentInv
      /\ \A e \in Closure : /\ cl[e].spawn_parent \in Closure \union {NULL}
                            /\ cl[e].spawn_parent # e /\ cl[e].join_counter = Cardinality(Kids(e))
  BY FParts DEF FInv, TypedTree, CountInv, IInv
<1>2. /\ Closure \subseteq Closure' /\ NULL \notin Closure'
      /\ \A d \in Closure' : d \in Closure \/ \E i \in 1..n : d = L[i]
      /\ \A i \in 1..n : /\ L[i] \notin Closure /\ cl'[L[i]].join_counter = 0
                         /\ L[i] # NULL
      /\ \A i \in 1..n : cl'[L[i]].spawn_parent = NULL
      /\ \A d \in Closure \ {y, o} : cl'[d] = cl[d]
      /\ \A d \in Closure : /\ cl'[d].spawn_parent = cl[d].spawn_parent
                            /\ cl'[d].join_counter = cl[d].join_counter
                            /\ cl[d].frame # NULL => cl'[d].frame = cl[d].frame
      /\ cl'[o].status = "SUSPENDED" /\ cl'[y].frame = f
  <2>1. \A i \in 1..n : i \in 1..n + 1
    OBVIOUS
  <2>. QED  BY <2>1, FinishedClosures
<1>3. /\ Hand(w) = y /\ cl[o].status = "SUSPENDED" /\ t[w] = y /\ fr'[f].unsynced
      /\ (\A u \in Worker : Hand(u)' = Hand(u)) /\ (\A u \in Worker \ {w} : Idles(u))
      /\ \A g \in Frame : fr[g].unsynced => fr'[g].unsynced
  BY DEF Finishes
<1>4. \A e \in Closure : Live(e)' <=> Live(e)
  <2>. TAKE e \in Closure
  <2>1. CASE e = y
    BY <1>3, <2>1 DEF Live
  <2>2. CASE e = o
    BY <1>2, <1>3, <2>2 DEF Live
  <2>3. CASE e \notin {y, o}
    BY <1>2, <1>3, <2>3 DEF Live
  <2>. QED  BY <2>1, <2>2, <2>3
<1>5. \A p : Kids(p)' = {e \in Closure' : cl'[e].spawn_parent = p /\ Live(e)'}
  BY DEF Kids
<1>6. ASSUME NEW p \in Closure  PROVE Kids(p)' = Kids(p)
  <2>1. ASSUME NEW e \in Closure', e \notin Closure  PROVE cl'[e].spawn_parent # p
    BY <1>1, <1>2, <2>1
  <2>2. \A e : e \in Kids(p)' <=> e \in Kids(p)
    BY <1>2, <1>4, <1>5, <2>1 DEF Kids
  <2>. QED  BY <2>2
<1>7. ASSUME NEW p \in Closure', p \notin Closure  PROVE Kids(p)' = {}
  <2>1. ASSUME NEW e \in Closure'  PROVE cl'[e].spawn_parent # p
    <3>1. CASE e \in Closure
      BY <1>1, <1>2, <1>7, <3>1
    <3>2. CASE e \notin Closure
      BY <1>2, <1>7, <3>2
    <3>. QED  BY <3>1, <3>2
  <2>. QED  BY <1>5, <2>1
<1>8. CountInv'
  <2>1. ASSUME NEW p \in Closure'  PROVE cl'[p].spawn_parent # p /\ cl'[p].join_counter = Cardinality(Kids(p)')
    <3>1. CASE p \in Closure
      BY <1>1, <1>2, <1>6, <3>1
    <3>2. CASE p \notin Closure
      <4>1. Cardinality({}) = 0
        BY FS_EmptySet
      <4>2. cl'[p].spawn_parent # p /\ cl'[p].join_counter = 0
        BY <1>2, <3>2
      <4>. QED  BY <1>7, <3>2, <4>1, <4>2
    <3>. QED  BY <3>1, <3>2
  <2>. QED  BY <2>1 DEF CountInv
<1>9. KidsInv'
  <2>1. ASSUME NEW p \in Closure', Kids(p)' # {}  PROVE fr'[cl'[p].frame].unsynced \/ BeingStolen(p)'
    <3>1. p \in Closure /\ Kids(p) # {}
      BY <1>6, <1>7, <2>1
    <3>2. cl[p].frame \in Frame /\ cl'[p].frame = cl[p].frame
      <4>1. PICK e \in Closure : cl[e].spawn_parent = p
        BY <3>1 DEF Kids
      <4>2. cl[p].frame # NULL
        BY <1>1, <3>1, <4>1 DEF ParentInv
      <4>. QED  BY <1>2, <3>1, <4>2, FrameOfClosure
    <3>3. CASE fr[cl[p].frame].unsynced
      BY <1>3, <3>2, <3>3
    <3>4. CASE BeingStolen(p)
      <4>1. PICK u \in Worker : pc[u] \in {"promoted", "finish"} /\ t[u] = p
        BY <3>4 DEF BeingStolen
      <4>2. CASE u = w
        BY <1>2, <1>3, <4>1, <4>2
      <4>3. CASE u # w
        BY <1>3, <4>1, <4>3 DEF BeingStolen, Idles
      <4>. QED  BY <4>2, <4>3
    <3>. QED  BY <1>1, <3>1, <3>3, <3>4 DEF KidsInv
  <2>. QED  BY <2>1 DEF KidsInv
<1>. QED  BY <1>4, <1>6, <1>8, <1>9

(* Other active frames are of other stacklets, whose closures stay.           *)
LEMMA FinishedApart ==
  ASSUME FInv, NEW w \in Worker, NEW y \in Closure, NEW o \in Closure, NEW f \in Frame, NEW n \in Nat,
         NEW L, NEW G, Finishes(w, y, o, f, n, L, G)
  PROVE  /\ Active(f) /\ Parked(y) /\ \A u \in Worker : f \notin Held(u)
         /\ \A h \in Frame : Active(h) /\ h # f =>
              /\ h \notin Range(Stacklet[f])
              /\ \A g \in Range(Stacklet[h]) : fr'[g].stolen = fr[g].stolen
              /\ FreshIn(fr, h) => FreshIn(fr', h)
              /\ \A x : CoversIn(fr, x, h) => CoversIn(fr', x, h)
         /\ \A e \in Closure : e # y /\ Entering(e) => cl[e].frame \in Frame /\ Active(cl[e].frame) /\ cl[e].frame # f
         /\ \A e \in Closure \ {y} : cl[e].frame \in Range(Stacklet[f]) => fr[cl[e].frame].stolen
<1>1. /\ IInv /\ Typed /\ AtInv /\ TipInv /\ OneClosure /\ NULL \notin Closure /\ FrameInv /\ OneHand
  BY FParts DEF FInv, IInv
<1>2. /\ pc[w] = "finish" /\ t[w] = y /\ cl[y].frame = f /\ Hand(w) = y
      /\ \A g \in Frame : g \notin Range(Stacklet[f]) => fr'[g].stolen = fr[g].stolen
  BY DEF Finishes
<1>3. Active(f) /\ Parked(y) /\ f # NULL
  BY <1>2, ThiefParked, Kinds
<1>4. \A u \in Worker : f \notin Held(u)
  BY <1>1, <1>2, <1>3 DEF TipInv
<1>5. ASSUME NEW h \in Frame, Active(h), h # f, NEW g \in Range(Stacklet[h])
      PROVE  fr'[g].stolen = fr[g].stolen
  <2>1. g \in Frame /\ Oldest(g) = Oldest(h)
    BY StackletOf, SameOldest
  <2>2. g \notin Range(Stacklet[f])
    <3>1. g \in Range(Stacklet[f]) => Oldest(h) = Oldest(f)
      BY <2>1, SameOldest
    <3>. QED  BY <1>1, <1>3, <1>5, <3>1, OneActive
  <2>. QED  BY <1>2, <2>1, <2>2
<1>6. ASSUME NEW h \in Frame, Active(h), h # f  PROVE h \notin Range(Stacklet[f])
  <2>1. h \in Range(Stacklet[f]) => Oldest(h) = Oldest(f)
    BY SameOldest
  <2>. QED  BY <1>1, <1>3, <1>6, <2>1, OneActive
<1>7. ASSUME NEW h \in Frame, Active(h), h # f
      PROVE  /\ FreshIn(fr, h) => FreshIn(fr', h)
             /\ \A x : CoversIn(fr, x, h) => CoversIn(fr', x, h)
  <2>1. \A g \in Range(Stacklet[h]) : fr[g].stolen = fr'[g].stolen
    BY <1>5, <1>7
  <2>. QED  BY <2>1, CoverKept
<1>8. ASSUME NEW e \in Closure, e # y, Entering(e)
      PROVE  cl[e].frame \in Frame /\ Active(cl[e].frame) /\ cl[e].frame # f
  <2>1. PICK u \in Worker : pc[u] \in {"promoted", "finish"} /\ t[u] = e
    BY <1>8 DEF Entering
  <2>2. cl[e].frame \in Frame /\ Active(cl[e].frame)
    BY <2>1, ThiefParked
  <2>3. cl[e].frame # f
    BY <1>1, <1>2, <1>3, <1>8 DEF OneClosure
  <2>. QED  BY <2>2, <2>3
<1>9. ASSUME NEW e \in Closure \ {y}, cl[e].frame \in Range(Stacklet[f])  PROVE fr[cl[e].frame].stolen
  <2>1. cl[e].frame # NULL
    BY <1>9, StackletOf, Kinds
  <2>2. ~Entering(e)
    BY <1>6, <1>8, <1>9
  <2>. QED  BY <1>1, <2>1, <2>2 DEF FrameInv
<1>. QED  BY <1>3, <1>4, <1>5, <1>6, <1>7, <1>8, <1>9

(* The workers afterwards.                                                    *)
LEMMA FinishedWorkers ==
  ASSUME FInv, NEW w \in Worker, NEW y \in Closure, NEW o \in Closure, NEW f \in Frame, NEW n \in Nat,
         NEW L, NEW G, Finishes(w, y, o, f, n, L, G)
  PROVE  /\ \A u \in Worker : ChainInv(u)' /\ CoverInv(u)' /\ StageInv(u)' /\ Tips(u)' = Tips(u) /\ Held(u)' = Held(u)
         /\ Upper(w) = o /\ Lower(w) = f /\ Upper(w)' = NULL
         /\ \A u \in Worker \ {w} : /\ Upper(u) # o /\ Upper(u)' = Upper(u)
                                    /\ Upper(u) # NULL => Lower(u)' = Lower(u)
<1>1. /\ IInv /\ Typed /\ TypedTree /\ TipInv /\ PlaceInv(w) /\ ChainInv(w) /\ NULL \notin Closure /\ OneHand /\ FrameInv
      /\ \A u \in Worker : StageInv(u)
  BY FParts DEF IInv
<1>2. /\ pc[w] = "finish" /\ pc'[w] = "do" /\ t[w] = y /\ Hand(w) = y /\ cl[y].frame = f /\ cl[y].call_parent = o
      /\ ~fr[f].stolen /\ ltq' = ltq /\ good' = good /\ (done => done') /\ t' = t
      /\ \A u \in Worker \ {w} : Idles(u) /\ Hand(u) \notin {y, o}
      /\ \A d \in Closure : Live(d) /\ cl[d].call_parent = o => d = y
      /\ \A g \in Frame : fr'[g].at = fr[g].at /\ (fr[g].unsynced => fr'[g].unsynced)
  BY DEF Finishes
<1>3. /\ \A d \in Closure \ {y, o} : cl'[d] = cl[d]
      /\ \A d \in Closure : cl[d].frame # NULL => cl'[d].frame = cl[d].frame
  <2>1. \A d \in Closure \ {y, o} : cl'[d] = cl[d]
    BY FinishedClosures
  <2>2. \A d \in Closure : cl[d].frame # NULL => cl'[d].frame = cl[d].frame
    BY FinishedClosures
  <2>. QED  BY <2>1, <2>2
<1>4. /\ \A u \in Worker : f \notin Held(u)
      /\ \A h \in Frame : Active(h) /\ h # f =>
              /\ \A g \in Range(Stacklet[h]) : fr'[g].stolen = fr[g].stolen
              /\ FreshIn(fr, h) => FreshIn(fr', h)
              /\ \A x : CoversIn(fr, x, h) => CoversIn(fr', x, h)
  BY FinishedApart
<1>5. Upper(w) = o /\ Lower(w) = f /\ Upper(w)' = NULL
  BY <1>2 DEF Upper, Lower
<1>6. Tips(w) = <<>> /\ Tips(w)' = <<>> /\ Len(Tips(w)') = 0 /\ Held(w)' = Held(w) /\ ltq'[w] = <<>>
  <2>1. Tips(w) = <<>> /\ Len(Tips(w)) = 0
    BY <1>1, <1>2, TipsAre DEF AtFrames
  <2>2. Tips(w)' = <<>>
    BY <1>2 DEF Tips
  <2>. QED  BY <1>1, <1>2, <2>1, <2>2 DEF ChainInv, Held
<1>7. ChainInv(w)' /\ CoverInv(w)' /\ StageInv(w)'
  <2>1. good[w] = FALSE
    BY <1>2, NotGood
  <2>. QED  BY <1>2, <1>5, <1>6, <2>1 DEF ChainInv, CoverInv, StageInv
<1>8. ASSUME NEW u \in Worker \ {w}
      PROVE  /\ ChainInv(u)' /\ CoverInv(u)' /\ StageInv(u)' /\ Tips(u)' = Tips(u) /\ Held(u)' = Held(u)
             /\ Upper(u) # o /\ Upper(u)' = Upper(u) /\ (Upper(u) # NULL => Lower(u)' = Lower(u))
  <2>1. Idles(u) /\ Hand(u) \notin {y, o} /\ Hand(u) \in Closure \union {NULL}
    BY <1>1, <1>2, HandIs
  <2>2. Upper(u) # o
    <3>1. ASSUME Upper(u) = o  PROVE FALSE
      <4>1. CASE pc[u] \in {"user", "sync"}
        BY <2>1, <3>1, <4>1 DEF Upper
      <4>2. CASE pc[u] \in {"promoted", "finish"}
        <5>1. cl[t[u]].call_parent = o /\ t[u] \in Closure /\ Hand(u) = t[u]
          BY <1>1, <3>1, <4>2, ThiefParked DEF Upper
        <5>2. Live(t[u])
          BY <5>1 DEF Live
        <5>. QED  BY <1>2, <2>1, <5>1, <5>2
      <4>. QED  BY <1>1, <3>1, <4>1, <4>2 DEF Upper
    <3>. QED  BY <3>1
  <2>3. KeepsHand(u)
    <3>1. ASSUME Hand(u) # NULL
          PROVE  Hand(u) \in Closure \ {y, o} /\ cl[Hand(u)].call_parent \in Closure \union {NULL}
      BY <1>1, <2>1, <3>1 DEF TypedTree
    <3>. QED  BY <1>3, <3>1 DEF KeepsHand
  <2>4. \A h \in Held(u) : h \in Frame /\ Active(h) /\ h # f
    BY <1>1, <1>4, FParts, TipsAre DEF TipInv
  <2>5. pc[u] \in {"promoted", "finish"} => /\ cl[t[u]].frame \in Frame /\ Active(cl[t[u]].frame) /\ cl[t[u]].frame # f
                                            /\ fr'[cl[t[u]].frame].stolen = fr[cl[t[u]].frame].stolen
    <3>. SUFFICES ASSUME pc[u] \in {"promoted", "finish"}
                  PROVE  /\ cl[t[u]].frame \in Frame /\ Active(cl[t[u]].frame) /\ cl[t[u]].frame # f
                         /\ fr'[cl[t[u]].frame].stolen = fr[cl[t[u]].frame].stolen
      OBVIOUS
    <3>1. cl[t[u]].frame \in Frame /\ Active(cl[t[u]].frame) /\ t[u] \in Closure /\ Hand(u) = t[u]
      BY ThiefParked
    <3>2. PICK h \in Frame : h = cl[t[u]].frame
      BY <3>1
    <3>3. h # f
      <4>1. OneClosure /\ h # NULL
        BY Kinds DEF FInv
      <4>. QED  BY <1>2, <2>1, <3>1, <3>2, <4>1 DEF OneClosure
    <3>4. h \in Range(Stacklet[h])
      BY StackletOf
    <3>. QED  BY <1>4, <3>1, <3>2, <3>3, <3>4
  <2>6. ASSUME Upper(u) # NULL
        PROVE  /\ cl'[Upper(u)].frame = cl[Upper(u)].frame
               /\ \A x : CoversIn(fr, x, Lower(u)) => CoversIn(fr', x, Lower(u))
    <3>1. /\ Upper(u) \in Closure /\ Lower(u) \in Frame /\ Active(Lower(u))
          /\ pc[u] \in {"user", "sync", "promoted", "finish"}
          /\ pc[u] \in {"user", "sync"} => Lower(u) \in Held(u)
          /\ pc[u] \in {"promoted", "finish"} => Lower(u) = cl[t[u]].frame
      BY <2>6, LowerIs
    <3>2. Lower(u) # f
      BY <2>4, <2>5, <3>1
    <3>3. cl'[Upper(u)].frame = cl[Upper(u)].frame
      <4>1. cl[y].frame # NULL
        BY <1>2, Kinds
      <4>. QED  BY <1>3, <2>2, <3>1, <4>1
    <3>4. PICK h \in Frame : h = Lower(u)
      BY <3>1
    <3>. QED  BY <1>4, <3>1, <3>2, <3>3, <3>4
  <2>7. ASSUME good[u]  PROVE fr'[cl[t[u]].frame].at = fr[cl[t[u]].frame].at /\ Kids(t[u])' = {}
    <3>1. t[u] \in Closure /\ cl[t[u]].frame \in Frame
      BY <2>7, GoodParked
    <3>2. Kids(t[u]) = {}
      BY <1>1, <2>7 DEF StageInv
    <3>3. \A p \in Closure : Kids(p)' = Kids(p)
      BY FinishedTree
    <3>4. PICK p \in Closure : p = t[u]
      BY <3>1
    <3>5. t'[u] = t[u]
      BY <1>2
    <3>. QED  BY <1>2, <3>1, <3>2, <3>3, <3>4, <3>5
  <2>8. \A h \in Frame : Over(h) => Over(h)'
    BY <1>2 DEF Over
  <2>9. KeepsFrames(u)
    <3>1. \A h \in Held(u) : /\ fr'[h].at = fr[h].at /\ (fr[h].unsynced => fr'[h].unsynced)
                             /\ (FreshIn(fr, h) => FreshIn(fr', h))
      BY <1>2, <1>4, <2>4
    <3>. QED  BY <2>5, <2>6, <2>7, <2>8, <3>1 DEF KeepsFrames
  <2>. QED  BY <1>2, <2>1, <2>2, <2>3, <2>9, IdleKeepsAll, IdleTips
<1>. QED  BY <1>5, <1>6, <1>7, <1>8

(* What a closure begins, it began before; o now has the frame it is for.     *)
LEMMA FinishedBegins ==
  ASSUME FInv, NEW w \in Worker, NEW y \in Closure, NEW o \in Closure, NEW f \in Frame, NEW n \in Nat,
         NEW L, NEW G, Finishes(w, y, o, f, n, L, G), NEW h \in Helper
  PROVE  /\ \A e \in Closure' : Begins(e, h)' => e \in Closure /\ Begins(e, h)
         /\ \A e \in Closure : Begins(e, h) => Begins(e, h)'
<1>1. /\ \A d \in Closure' : d \in Closure \ {y, o} \/ d = o \/ \E i \in 1..n + 1 : d = L[i]
      /\ \A i \in 1..n + 1 : cl'[L[i]].frame = G[i] /\ G[i] # NULL
      /\ \A d \in Closure \ {y, o} : cl'[d] = cl[d]
      /\ \A d \in Closure : cl[d].frame # NULL => cl'[d].frame = cl[d].frame
      /\ cl'[o].frame = G[0]
  BY FinishedClosures
<1>2. /\ Upper(w) = o /\ Lower(w) = f /\ Upper(w)' = NULL
      /\ \A u \in Worker \ {w} : /\ Upper(u) # o /\ Upper(u)' = Upper(u)
                                 /\ Upper(u) # NULL => Lower(u)' = Lower(u)
  BY FinishedWorkers
<1>3. /\ \A i \in 1..n + 1 : G[i] \in Called
      /\ cl[o].frame = G[0] \/ (cl[o].frame = NULL /\ G[0] = Oldest(f))
  BY DEF Finishes
<1>4. NULL \notin Closure /\ h # NULL /\ h \notin Called /\ f # NULL
  BY FParts, Kinds
<1>5. G[0] \in Frame /\ G[0] # NULL /\ cl[y].frame = f
  <2>1. \A i \in 0..n + 1 : G[i] \in Frame
    BY DEF Finishes
  <2>2. 0 \in 0..n + 1
    OBVIOUS
  <2>3. cl[y].frame = f
    BY DEF Finishes
  <2>. QED  BY <2>1, <2>2, <2>3, Kinds
<1>6. ASSUME NEW e \in Closure', Begins(e, h)'  PROVE e \in Closure /\ Begins(e, h)
  <2>1. CASE \E i \in 1..n + 1 : e = L[i]
    <3>1. cl'[e].frame # h /\ cl'[e].frame # NULL
      BY <1>1, <1>3, <1>4, <2>1
    <3>. QED  BY <1>6, <3>1 DEF Begins
  <2>2. CASE e = o
    <3>1. G[0] = h
      BY <1>1, <1>5, <1>6, <2>2 DEF Begins
    <3>2. CASE cl[o].frame = G[0]
      BY <2>2, <3>1, <3>2 DEF Begins
    <3>3. CASE cl[o].frame = NULL /\ G[0] = Oldest(f)
      BY <1>2, <2>2, <3>1, <3>3 DEF Begins
    <3>. QED  BY <1>3, <3>2, <3>3
  <2>3. CASE e \in Closure \ {y, o}
    <3>1. cl'[e].frame = cl[e].frame
      BY <1>1, <2>3
    <3>2. CASE cl[e].frame = h
      BY <2>3, <3>2 DEF Begins
    <3>3. CASE cl[e].frame # h
      <4>1. cl[e].frame = NULL /\ \E u \in Worker : Upper(u)' = e /\ Oldest(Lower(u)') = h
        BY <1>6, <3>1, <3>3 DEF Begins
      <4>2. PICK u \in Worker : Upper(u)' = e /\ Oldest(Lower(u)') = h
        BY <4>1
      <4>3. u # w
        BY <1>2, <1>4, <2>3, <4>2
      <4>4. Upper(u) = e /\ Oldest(Lower(u)) = h
        BY <1>2, <1>4, <2>3, <4>2, <4>3
      <4>. QED  BY <2>3, <4>1, <4>4 DEF Begins
    <3>. QED  BY <3>2, <3>3
  <2>. QED  BY <1>1, <2>1, <2>2, <2>3
<1>7. ASSUME NEW e \in Closure, Begins(e, h)  PROVE Begins(e, h)'
  <2>1. CASE cl[e].frame = h
    <3>1. cl'[e].frame = h
      BY <1>1, <1>4, <2>1
    <3>. QED  BY <3>1 DEF Begins
  <2>2. CASE cl[e].frame # h
    <3>1. cl[e].frame = NULL /\ \E u \in Worker : Upper(u) = e /\ Oldest(Lower(u)) = h
      BY <1>7, <2>2 DEF Begins
    <3>2. PICK u \in Worker : Upper(u) = e /\ Oldest(Lower(u)) = h
      BY <3>1
    <3>3. CASE u = w
      <4>1. e = o /\ h = Oldest(f)
        BY <1>2, <3>2, <3>3
      <4>2. cl'[o].frame = h
        BY <1>1, <1>3, <1>5, <3>1, <4>1
      <4>. QED  BY <4>1, <4>2 DEF Begins
    <3>4. CASE u # w
      <4>1. e # o /\ e # y
        BY <1>2, <1>4, <1>5, <3>1, <3>2, <3>4
      <4>2. cl'[e].frame = NULL
        BY <1>1, <3>1, <4>1
      <4>3. Upper(u)' = e /\ Oldest(Lower(u)') = h
        BY <1>2, <1>4, <3>2, <3>4
      <4>. QED  BY <4>2, <4>3 DEF Begins
    <3>. QED  BY <3>3, <3>4
  <2>. QED  BY <2>1, <2>2
<1>. QED  BY <1>6, <1>7

(* The links between closures.                                                *)
LEMMA FinishedLinks ==
  ASSUME FInv, NEW w \in Worker, NEW y \in Closure, NEW o \in Closure, NEW f \in Frame, NEW n \in Nat,
         NEW L, NEW G, Finishes(w, y, o, f, n, L, G)
  PROVE  SpawnLink' /\ CallLink' /\ OneClosure'
<1>1. /\ IInv /\ Typed /\ TypedTree /\ NULL \notin Closure /\ SpawnLink /\ CallLink /\ OneClosure /\ FrameInv
      /\ \A e \in Closure : /\ cl[e].spawn_parent \in Closure \union {NULL}
                            /\ cl[e].call_parent \in Closure \union {NULL}
  BY FParts DEF FInv, IInv, TypedTree
<1>2. /\ \A d \in Closure' : d \in Closure \ {y, o} \/ d = o \/ \E i \in 1..n + 1 : d = L[i]
      /\ \A d \in Closure \ {y, o} : cl'[d] = cl[d]
      /\ \A i \in 1..n + 1 : /\ cl'[L[i]].frame = G[i] /\ cl'[L[i]].call_parent = L[i - 1]
                             /\ L[i - 1] # NULL /\ cl'[L[i - 1]].frame = G[i - 1] /\ G[i] # NULL
  <2>1. \A d \in Closure' : d \in Closure \ {y, o} \/ d = o \/ \E i \in 1..n + 1 : d = L[i]
    BY FinishedClosures, SMTT(30)
  <2>2. \A d \in Closure \ {y, o} : cl'[d] = cl[d]
    BY FinishedClosures, SMTT(30)
  <2>3. \A i \in 1..n + 1 : /\ cl'[L[i]].frame = G[i] /\ cl'[L[i]].call_parent = L[i - 1]
                             /\ L[i - 1] # NULL /\ cl'[L[i - 1]].frame = G[i - 1] /\ G[i] # NULL
    BY FinishedClosures, SMTT(30)
  <2>. QED  BY <2>1, <2>2, <2>3
<1>3. /\ \A d \in Closure : /\ cl'[d].spawn_parent = cl[d].spawn_parent
                            /\ cl[d].frame # NULL => cl'[d].frame = cl[d].frame
      /\ cl'[o].call_parent = cl[o].call_parent /\ cl'[o].frame = G[0] /\ L[0] = o
  BY FinishedClosures
<1>4. /\ cl[y].frame = f /\ cl[o].status = "SUSPENDED"
      /\ \A i \in 1..n + 1 : G[i] \in Called /\ Caller(G[i]) = G[i - 1] /\ ~fr[G[i]].stolen
      /\ \A i \in 0..n + 1 : G[i] \in Range(Stacklet[f]) /\ G[i] \in Frame
      /\ cl[o].frame = G[0] \/ (cl[o].frame = NULL /\ G[0] = Oldest(f) /\ ~fr[G[0]].stolen)
      /\ \A i, j \in 0..n + 1 : G[i] = G[j] => i = j
      /\ \A g \in Frame : g \notin Range(Stacklet[f]) => fr'[g].stolen = fr[g].stolen
  BY DEF Finishes
<1>5. /\ 0 \in 0..n + 1 /\ \A i \in 1..n + 1 : i \in 0..n + 1
      /\ \A i \in 0..n + 1 : i = 0 \/ i \in 1..n + 1
  OBVIOUS
<1>6. \A e \in Closure : Live(e)' <=> Live(e)
  BY FinishedTree
<1>7. \A e \in Closure \ {y} : cl[e].frame \in Range(Stacklet[f]) => fr[cl[e].frame].stolen
  BY FinishedApart
<1>8. SpawnLink'
  <2>1. ASSUME NEW e \in Closure', NEW h \in Helper, Live(e)', Begins(e, h)'
        PROVE  cl'[e].spawn_parent # NULL /\ cl'[cl'[e].spawn_parent].frame = Caller(h)
    <3>1. e \in Closure /\ Begins(e, h)
      BY <2>1, FinishedBegins
    <3>2. HasFrame(cl[e].spawn_parent, Caller(h))
      BY <1>1, <1>6, <2>1, <3>1 DEF SpawnLink
    <3>3. Caller(h) \in Frame /\ Caller(h) # NULL
      BY Places, Kinds
    <3>. QED  BY <1>1, <1>3, <3>1, <3>2, <3>3 DEF HasFrame
  <2>. QED  BY <2>1 DEF SpawnLink, HasFrame
<1>9. CallLink'
  <2>1. ASSUME NEW e \in Closure', Live(e)', cl'[e].frame \in Called, fr'[cl'[e].frame].stolen
        PROVE  cl'[e].call_parent # NULL /\ cl'[cl'[e].call_parent].frame = Caller(cl'[e].frame)
    <3>1. ASSUME NEW g \in Frame, e \in Closure, cl[e].frame = g, cl'[e].frame = g, fr[g].stolen,
                 cl'[e].call_parent = cl[e].call_parent
          PROVE  cl'[e].call_parent # NULL /\ cl'[cl'[e].call_parent].frame = Caller(cl'[e].frame)
      <4>1. HasFrame(cl[e].call_parent, Caller(g))
        BY <1>1, <1>6, <2>1, <3>1 DEF CallLink
      <4>2. Caller(g) \in Frame /\ Caller(g) # NULL
        BY <2>1, <3>1, StackletOf, Kinds
      <4>. QED  BY <1>1, <1>3, <3>1, <4>1, <4>2 DEF HasFrame
    <3>2. CASE \E i \in 1..n + 1 : e = L[i]
      <4>1. PICK i \in 1..n + 1 : e = L[i]
        BY <3>2
      <4>. QED  BY <1>2, <1>4, <4>1
    <3>3. CASE e = o
      <4>1. cl[o].frame = G[0] /\ G[0] \in Frame /\ G[0] # NULL
        <5>1. G[0] \in Called /\ G[0] \in Frame
          BY <1>3, <2>1, <3>3, Kinds
        <5>2. Oldest(f) \notin Called
          BY OldestIs DEF Called
        <5>. QED  BY <1>4, <5>1, <5>2, Kinds
      <4>2. fr[G[0]].stolen
        BY <1>4, <4>1, SuspendedStolen
      <4>. QED  BY <1>3, <3>1, <3>3, <4>1, <4>2
    <3>4. CASE e \in Closure \ {y, o}
      <4>1. PICK g \in Frame : g = cl[e].frame
        BY <1>2, <2>1, <3>4, Kinds
      <4>2. fr[g].stolen
        BY <1>2, <1>4, <1>7, <2>1, <3>4, <4>1
      <4>. QED  BY <1>2, <3>1, <3>4, <4>1, <4>2
    <3>. QED  BY <1>2, <3>2, <3>3, <3>4
  <2>. QED  BY <2>1 DEF CallLink, HasFrame
<1>10. ASSUME NEW a \in Closure \ {y, o}, NEW i \in 0..n + 1, cl[a].frame = G[i]  PROVE FALSE
  <2>1. fr[G[i]].stolen
    BY <1>4, <1>7, <1>10
  <2>2. i = 0
    BY <1>4, <1>5, <2>1
  <2>3. cl[o].frame = cl[a].frame /\ cl[a].frame # NULL
    BY <1>4, <1>10, <2>1, <2>2, Kinds
  <2>. QED  BY <1>1, <1>10, <2>3 DEF OneClosure
<1>11. \A d \in Closure' : d \in Closure \ {y, o} \/ \E i \in 0..n + 1 : d = L[i]
  BY <1>2, <1>3, <1>5
<1>12. \A i \in 0..n + 1 : cl'[L[i]].frame = G[i]
  BY <1>2, <1>3, <1>5
<1>13. OneClosure'
  <2>1. ASSUME NEW a \in Closure', NEW b \in Closure', cl'[a].frame = cl'[b].frame, cl'[a].frame # NULL
        PROVE  a = b
    <3>1. CASE a \in Closure \ {y, o} /\ b \in Closure \ {y, o}
      BY <1>1, <1>2, <2>1, <3>1 DEF OneClosure
    <3>2. CASE a \in Closure \ {y, o} /\ \E i \in 0..n + 1 : b = L[i]
      BY <1>2, <1>10, <1>12, <2>1, <3>2
    <3>3. CASE b \in Closure \ {y, o} /\ \E i \in 0..n + 1 : a = L[i]
      BY <1>2, <1>10, <1>12, <2>1, <3>3
    <3>4. CASE (\E i \in 0..n + 1 : a = L[i]) /\ (\E i \in 0..n + 1 : b = L[i])
      <4>1. PICK i \in 0..n + 1 : a = L[i]
        BY <3>4
      <4>2. PICK j \in 0..n + 1 : b = L[j]
        BY <3>4
      <4>3. G[i] = G[j]
        BY <1>12, <2>1, <4>1, <4>2
      <4>. QED  BY <1>4, <4>1, <4>2, <4>3
    <3>. QED  BY <1>11, <3>1, <3>2, <3>3, <3>4
  <2>. QED  BY <2>1 DEF OneClosure
<1>. QED  BY <1>8, <1>9, <1>13

(* The thief of a frame without closures lets go of it: all its callers have  *)
(* closures now.                                                              *)
LEMMA FinishNewFrameF ==
  ASSUME FInv, IInv', NEW w \in Worker, NEW y \in Closure, FinishPromote(w, y), ~fr[cl[y].frame].stolen
  PROVE  FInv'
<1>0. PICK o \in Closure : \E f \in Frame : \E n \in Nat : \E L, G : Finishes(w, y, o, f, n, L, G)
  BY FinishPath
<1>1. PICK f \in Frame : \E n \in Nat : \E L, G : Finishes(w, y, o, f, n, L, G)
  BY <1>0
<1>2. PICK n \in Nat : \E L, G : Finishes(w, y, o, f, n, L, G)
  BY <1>1
<1>3. PICK L, G : Finishes(w, y, o, f, n, L, G)
  BY <1>2
<1>4. /\ IInv /\ Typed /\ NULL \notin Closure /\ TipInv /\ SpawnInv /\ AtInv /\ UnsyncedInv
  BY FParts DEF FInv, IInv
<1>5. /\ pc[w] = "finish" /\ t[w] = y /\ t' = t /\ pc'[w] = "do" /\ cl[y].frame = f
      /\ \A u \in Worker \ {w} : Idles(u)
      /\ \A g \in Frame : /\ fr'[g].at = fr[g].at /\ (fr[g].stolen => fr'[g].stolen)
                          /\ fr'[g].unsynced => fr[g].unsynced \/ g = f
      /\ fr'[G[n + 1]].stolen /\ G[n + 1] = f
  <2>1. \A i \in 0..n + 1 : fr'[G[i]].stolen
    BY <1>3 DEF Finishes
  <2>2. n + 1 \in 0..n + 1
    OBVIOUS
  <2>3. fr'[G[n + 1]].stolen
    BY <2>1, <2>2
  <2>. QED  BY <1>3, <2>3 DEF Finishes
<1>6. AtsStay /\ fr'[Root].stolen
  BY <1>4, <1>5, Kinds DEF AtsStay, AtInv
<1>7. AtInv' /\ \A h \in Frame : (Active(h) => Active(h)') /\ (Running(h)' <=> Running(h))
  BY <1>6, AtStays
<1>8. UnsyncedInv'
  BY <1>4, <1>5 DEF UnsyncedInv
<1>9. /\ \A d \in Closure' : d \in Closure \ {y, o} \/ d = o \/ d = y \/ \E i \in 1..n : d = L[i]
      /\ \A d \in Closure \ {y, o} : cl'[d] = cl[d]
      /\ \A i \in 1..n : cl'[L[i]].has_cilk_callee /\ cl'[L[i]].status = "SUSPENDED"
      /\ cl'[y].frame = f /\ cl'[y].status = "READY"
      /\ cl'[o].has_cilk_callee /\ cl'[o].status = "SUSPENDED"
  <2>1. \A d \in Closure' : d \in Closure \/ \E i \in 1..n : d = L[i]
    BY <1>3, FinishedClosures
  <2>2. \A d \in Closure \ {y, o} : cl'[d] = cl[d]
    BY <1>3, FinishedClosures
  <2>3. /\ \A i \in 1..n : cl'[L[i]].has_cilk_callee /\ cl'[L[i]].status = "SUSPENDED"
        /\ cl'[y].frame = f /\ cl'[y].status = "READY"
        /\ cl'[o].has_cilk_callee /\ cl'[o].status = "SUSPENDED"
    BY <1>3, FinishedClosures
  <2>. QED  BY <2>1, <2>2, <2>3
<1>10. \A u \in Worker : ChainInv(u)' /\ CoverInv(u)' /\ StageInv(u)' /\ Tips(u)' = Tips(u) /\ Held(u)' = Held(u)
  BY <1>3, FinishedWorkers
<1>11. Active(f) /\ Parked(y)
  BY <1>3, FinishedApart
<1>12. ASSUME NEW e \in Closure', Parked(e)'  PROVE e \in Closure /\ Parked(e) /\ cl'[e].frame = cl[e].frame
  <2>1. e # o /\ ~(\E i \in 1..n : e = L[i])
    BY <1>9, <1>12 DEF Parked
  <2>2. CASE e = y
    BY <1>5, <1>9, <1>11, <2>2
  <2>3. CASE e \in Closure \ {y, o}
    <3>1. cl'[e] = cl[e]
      BY <1>9, <2>3
    <3>2. ASSUME NEW u \in Worker, t'[u] = e  PROVE t[u] = e /\ pc'[u] = pc[u]
      <4>1. u # w
        BY <1>5, <2>3, <3>2
      <4>. QED  BY <1>5, <3>2, <4>1 DEF Idles
    <3>. QED  BY <1>12, <2>3, <3>1, <3>2 DEF Parked
  <2>. QED  BY <1>9, <2>1, <2>2, <2>3
<1>13. TipInv'
  <2>1. \A u \in Worker : IsInjective(Tips(u))'
    BY <1>4, <1>10 DEF TipInv
  <2>2. \A u \in Worker : \A h \in Held(u)' : Active(h)'
    <3>1. \A u \in Worker : \A h \in Held(u) : h \in Frame /\ Active(h)
      BY <1>4, FParts, TipsAre DEF TipInv
    <3>. QED  BY <1>7, <1>10, <3>1
  <2>3. \A a, b \in Worker : a # b => Held(a)' \intersect Held(b)' = {}
    BY <1>4, <1>10 DEF TipInv
  <2>4. ASSUME NEW e \in Closure', Parked(e)'
        PROVE  Active(cl[e].frame)' /\ \A u \in Worker : cl'[e].frame \notin Held(u)'
    <3>1. e \in Closure /\ Parked(e) /\ cl'[e].frame = cl[e].frame
      BY <1>12, <2>4
    <3>2. Active(cl[e].frame) /\ \A u \in Worker : cl[e].frame \notin Held(u)
      BY <1>4, <3>1 DEF TipInv
    <3>3. PICK h \in Frame : h = cl[e].frame
      BY <3>1, FrameOfClosure DEF Parked
    <3>4. Active(h)' /\ cl'[e].frame = h
      BY <1>7, <3>1, <3>2, <3>3
    <3>. QED  BY <1>10, <3>2, <3>3, <3>4
  <2>. QED  BY <2>1, <2>2, <2>3, <2>4 DEF TipInv
<1>14. SpawnInv'
  <2>. SUFFICES ASSUME NEW h \in Helper, Running(h)
                PROVE  \/ \E u \in Worker : \E i \in 1..Len(Tips(u)') - 1 : Oldest(Tips(u)'[i + 1]) = h
                       \/ \E e \in Closure' : Live(e)' /\ Begins(e, h)'
    BY <1>7, Kinds DEF SpawnInv
  <2>1. CASE \E u \in Worker : \E i \in 1..Len(Tips(u)) - 1 : Oldest(Tips(u)[i + 1]) = h
    BY <1>10, <2>1
  <2>2. CASE \E e \in Closure : Live(e) /\ Begins(e, h)
    <3>1. PICK e \in Closure : Live(e) /\ Begins(e, h)
      BY <2>2
    <3>2. Begins(e, h)'
      BY <1>3, <3>1, FinishedBegins
    <3>3. Live(e)'
      BY <1>3, <3>1, FinishedTree
    <3>4. e \in Closure'
      BY <1>3, FinishedClosures
    <3>. QED  BY <3>2, <3>3, <3>4
  <2>. QED  BY <1>4, <2>1, <2>2 DEF SpawnInv
<1>15. StatusInv'
  <2>1. ASSUME NEW e \in Closure'
        PROVE  /\ cl'[e].status = "RETURNING" => cl'[e].frame = NULL \/ Over(cl[e].frame)'
               /\ cl'[e].status = "SUSPENDED" /\ ~cl'[e].has_cilk_callee => cl'[e].frame # NULL /\ AtSync(cl[e].frame)'
    <3>1. CASE e \in {y, o} \/ \E i \in 1..n : e = L[i]
      BY <1>9, <3>1
    <3>2. CASE e \in Closure \ {y, o}
      BY <1>6, <1>9, <3>2, StatusStays
    <3>. QED  BY <1>9, <3>1, <3>2
  <2>. QED  BY <2>1 DEF StatusInv
<1>16. SpawnLink' /\ CallLink' /\ OneClosure' /\ CountInv' /\ KidsInv'
  BY <1>3, FinishedTree, FinishedLinks
<1>. QED
  BY <1>7, <1>8, <1>10, <1>13, <1>14, <1>15, <1>16 DEF FInv

-----------------------------------------------------------------------------
(* Every step keeps the invariant.                                            *)
LEMMA StutterF ==
  ASSUME FInv, UNCHANGED vars
  PROVE  FInv'
<1>. USE DEF vars, treeVars, runVars, fiberVars
<1>1. Closure' = Closure
  BY DEF Closure
<1>2. \A w \in Worker : /\ Tips(w)' = Tips(w) /\ Held(w)' = Held(w) /\ Hand(w)' = Hand(w)
                        /\ Upper(w)' = Upper(w) /\ Lower(w)' = Lower(w)
  BY DEF Tips, Held, Hand, Upper, Lower
<1>3. \A c \in Closure : Live(c)' <=> Live(c)
  BY DEF Live, Hand
<1>4. \A f : /\ (Over(f)' <=> Over(f)) /\ (Running(f)' <=> Running(f)) /\ (AtSync(f)' <=> AtSync(f))
             /\ Prev(f)' = Prev(f) /\ (Fresh(f)' <=> Fresh(f))
  BY DEF Over, Running, AtSync, Prev, Fresh, FreshIn
<1>5. \A f : Active(f)' <=> Active(f)
  BY DEF Active, Over, Running, Prev
<1>6. \A p : Kids(p)' = Kids(p)
  BY <1>1, <1>3 DEF Kids
<1>7. \A c, f : (Covers(c, f)' <=> Covers(c, f)) /\ (HasFrame(c, f)' <=> HasFrame(c, f))
  BY DEF Covers, CoversIn, FreshIn, HasFrame
<1>8. \A c, h : Begins(c, h)' <=> Begins(c, h)
  BY <1>2 DEF Begins
<1>9. \A c : (Parked(c)' <=> Parked(c)) /\ (BeingStolen(c)' <=> BeingStolen(c))
  BY DEF Parked, BeingStolen
<1>10. FInv /\ IInv
  BY DEF FInv
<1>11. IInv'
  BY <1>10, StutterKeeps
<1>12. AtInv'
  BY <1>4, <1>10 DEF FInv, AtInv
<1>13. TipInv'
  BY <1>1, <1>2, <1>5, <1>9, <1>10 DEF FInv, TipInv
<1>14. \A w \in Worker : ChainInv(w)'
  BY <1>2, <1>4, <1>10 DEF FInv, ChainInv
<1>15. \A w \in Worker : CoverInv(w)'
  BY <1>2, <1>7, <1>10 DEF FInv, CoverInv
<1>16. \A w \in Worker : StageInv(w)'
  BY <1>2, <1>4, <1>6, <1>7, <1>10 DEF FInv, StageInv
<1>17. SpawnLink' /\ CallLink'
  BY <1>1, <1>3, <1>7, <1>8, <1>10 DEF FInv, SpawnLink, CallLink
<1>18. OneClosure' /\ UnsyncedInv'
  BY <1>1, <1>10 DEF FInv, OneClosure, UnsyncedInv
<1>19. CountInv' /\ KidsInv'
  BY <1>1, <1>6, <1>9, <1>10 DEF FInv, CountInv, KidsInv
<1>20. SpawnInv'
  BY <1>1, <1>2, <1>3, <1>4, <1>8, <1>10 DEF FInv, SpawnInv
<1>21. StatusInv'
  BY <1>1, <1>4, <1>10 DEF FInv, StatusInv
<1>. QED
  BY <1>11, <1>12, <1>13, <1>14, <1>15, <1>16, <1>17, <1>18, <1>19, <1>20, <1>21 DEF FInv

LEMMA FNextKeeps == FInv /\ [Next]_vars => FInv'
<1>. SUFFICES ASSUME FInv, [Next]_vars  PROVE FInv'
  OBVIOUS
<1>0. IInv'
  BY FParts, NextKeeps
<1>1. ASSUME NEW w \in Worker, Acquire(w)  PROVE FInv'
  <2>1. CASE \E f \in Frame : SlowSync(w, f) \/ ReturnFullFrame(w, f) \/ EnterHandler(w, f)
    BY <1>0, <2>1, SlowSyncF, ReturnFullFrameF, EnterHandlerF
  <2>2. CASE \E c \in Closure : SyncNotReady(w, c) \/ SyncReady(w, c) \/ Handler(w, c)
    BY <1>0, <2>2, SyncNotReadyF, SyncReadyF, HandlerF
  <2>3. CASE \E c \in Closure : SetReturnChild(w, c) \/ ReturnChild(w, c)
    BY <1>0, <2>3, SetReturnChildF, ReturnChildF
  <2>4. CASE \E c \in Closure : Execute(w, c) \/ PushAndRun(w, c)
    BY <1>0, <2>4, ExecuteF, PushAndRunF
  <2>5. CASE \E c \in Closure : \E p \in Closure : SetReturnParent(w, c, p) \/ ReturnParent(w, c, p)
    BY <1>0, <2>5, SetReturnParentF, ReturnParentF
  <2>6. CASE Extract(w)
    BY <1>0, <2>6, ExtractF
  <2>. QED  BY <1>1, <2>1, <2>2, <2>3, <2>4, <2>5, <2>6, Zenon DEF Acquire
<1>2. ASSUME NEW w \in Worker, Proceed(w)  PROVE FInv'
  <2>1. CASE \E f \in Frame : \/ Spawn(w, f) \/ Call(w, f) \/ FastSync(w, f)
                              \/ ReturnToCaller(w, f) \/ PopParent(w, f)
    BY <1>0, <2>1, SpawnF, CallF, FastSyncF, ReturnToCallerF, PopParentF
  <2>2. CASE FinishRoot(w)
    BY <1>0, <2>2, FinishRootF
  <2>3. CASE BackToRuntime(w) \/ HaveWork(w) \/ Exit(w)
    BY <1>0, <2>3, MovesF
  <2>4. CASE \E v \in Worker : GiveUp(w, v) \/ ReleaseVictim(w, v)
    BY <1>0, <2>4, MovesF
  <2>5. CASE \E v \in Worker : \E c \in Closure : Promote(w, v, c)
    BY <1>0, <2>5, PromoteF
  <2>6. CASE \E y \in Closure : FinishPromote(w, y)
    BY <1>0, <2>6, FinishFullFrameF, FinishNewFrameF
  <2>. QED  BY <1>2, <2>1, <2>2, <2>3, <2>4, <2>5, <2>6, Zenon DEF Proceed
<1>3. ASSUME NEW w \in Worker, Steal(w)  PROVE FInv'
  BY <1>0, <1>3, MovesF DEF Steal
<1>4. CASE UNCHANGED vars
  BY <1>4, StutterF
<1>. QED  BY <1>1, <1>2, <1>3, <1>4, Zenon DEF Next, Terminated

LEMMA Invariant == Spec => []FInv
<1>1. Init => FInv
  BY FInitHolds
<1>2. FInv /\ [Next]_vars => FInv'
  BY FNextKeeps
<1>. QED  BY <1>1, <1>2, PTL DEF Spec

LEMMA StackMatches == FInv => ShadowStackMatches
<1>. SUFFICES ASSUME FInv, NEW w \in Worker
              PROVE  /\ At(w, "user") /\ cur[w] \in Helper /\ ltq[w] # <<>> => Last(ltq[w]) = Caller(cur[w])
                     /\ ~At(w, "user") /\ ~At(w, "sync") => ltq[w] = <<>>
  BY Zenon DEF ShadowStackMatches
<1>1. At(w, "user") /\ cur[w] \in Helper /\ ltq[w] # <<>> => Last(ltq[w]) = Caller(cur[w])
  BY LastIsCaller DEF At
<1>2. ~At(w, "user") => ltq[w] = <<>>
  BY FParts DEF ChainInv, At
<1>. QED  BY <1>1, <1>2

-----------------------------------------------------------------------------
(* The program.  A frame that is at a sync, that has no other frame above it  *)
(* on a worker and whose closures have no children, has no spawned frame that *)
(* is under way.                                                              *)
LEMMA SyncWaits ==
  ASSUME FInv, NEW f \in Frame, Active(f),
         \A v \in Worker : \A i \in 1..Len(Tips(v)) - 1 : Tips(v)[i] # f,
         \A p \in Closure : cl[p].frame = f => Kids(p) = {},
         NEW i \in 1..Len(Body[f]), i < fr[f].at, Body[f][i] \in Helper
  PROVE  Over(Body[f][i])
<1>. DEFINE h == Body[f][i]
<1>1. Typed /\ AtInv /\ SpawnInv /\ SpawnLink
  BY FParts DEF FInv
<1>2. h \in Frame /\ h \in Helper /\ h # SYNC /\ h # Root
  BY Kinds
<1>3. Caller(h) = f
  BY <1>2, Places
<1>4. fr[h].at # 0 /\ fr[h].at <= End(h) + 1
  BY <1>1, <1>2 DEF AtInv
<1>. HIDE DEF h
<1>5. Running(h) \/ Over(h)
  <2>1. fr[h].at \in Nat /\ Len(Body[h]) \in Nat /\ End(h) = Len(Body[h]) + 1
    BY <1>1, <1>2, AtFacts
  <2>. QED  BY <1>4, <2>1 DEF Running, Over
<1>6. ASSUME Running(h), NEW v \in Worker, NEW j \in 1..Len(Tips(v)) - 1, Oldest(Tips(v)[j + 1]) = h
      PROVE  FALSE
  <2>1. Tips(v) \in Seq(Frame) /\ Len(Tips(v)) \in Nat
    BY FParts, TipsAre
  <2>2. j \in 1..Len(Tips(v)) /\ j \in DOMAIN Tips(v)
    BY <2>1
  <2>3. PICK x \in Frame : x = Tips(v)[j]
    BY <2>1, <2>2, ElementOfSeq
  <2>4. fr[x].at > 1 /\ Prev(x) = h
    BY <1>6, <2>3, FParts DEF ChainInv
  <2>5. x \in Held(v) /\ Active(x)
    BY <2>2, <2>3, FParts DEF Held, Range, TipInv
  <2>6. fr[x].at \in Nat /\ Len(Body[x]) \in Nat /\ fr[x].at <= Len(Body[x]) + 1
    BY <1>1, <2>5, AtFacts DEF Active
  <2>7. fr[x].at - 1 \in 1..Len(Body[x]) /\ Body[x][fr[x].at - 1] = h
    BY <2>4, <2>6 DEF Prev
  <2>8. x = f
    BY <1>2, <1>3, <2>7, Places
  <2>. QED  BY <2>3, <2>8
<1>7. ASSUME Running(h), NEW c \in Closure, Live(c), Begins(c, h)
      PROVE  FALSE
  <2>1. HasFrame(cl[c].spawn_parent, f)
    BY <1>1, <1>2, <1>3, <1>7 DEF SpawnLink
  <2>2. PICK p \in Closure : p = cl[c].spawn_parent /\ cl[p].frame = f
    BY <1>1, <2>1 DEF HasFrame, Typed, TypedTree
  <2>3. c \in Kids(p)
    BY <1>7, <2>2 DEF Kids
  <2>. QED  BY <2>2, <2>3
<1>8. ~Running(h)
  BY <1>1, <1>2, <1>6, <1>7 DEF SpawnInv
<1>. QED  BY <1>5, <1>8 DEF h

(* The abstract states, spelled out.                                          *)
LEMMA ProgramFacts ==
  ASSUME Typed, NEW f \in Frame
  PROVE  /\ Active(f) => Program!Active(f)
         /\ Over(f) => Program!Returned(f)
         /\ fr[f].at \in Nat /\ Program!End(f) = End(f) /\ End(f) \in Nat
<1>1. fr[f].at \in Nat /\ End(f) \in Nat /\ Program!End(f) = End(f) /\ End(f) = Len(Body[f]) + 1
  BY AtFacts DEF Program!End, End
<1>2. \A g \in Frame : Over(g) => Program!Returned(g)
  BY DEF Over, Program!Returned, Program!Over, Program!End, End
<1>3. ASSUME Active(f)  PROVE Program!Active(f)
  <2>1. fr[f].at \in 1..End(f)
    BY <1>3 DEF Active, Running
  <2>2. ASSUME fr[f].at > 1
        PROVE  Body[f][fr[f].at - 1] \in Helper \union {SYNC} \/ Program!Returned(Body[f][fr[f].at - 1])
    <3>1. fr[f].at - 1 \in 1..Len(Body[f])
      BY <1>1, <2>1, <2>2
    <3>2. Body[f][fr[f].at - 1] \in Frame \union {SYNC}
      BY <3>1, BodyFacts DEF Instr
    <3>. QED  BY <1>2, <1>3, <2>2, <3>2 DEF Active, Prev
  <2>. QED  BY <1>1, <2>1, <2>2 DEF Program!Active
<1>. QED  BY <1>1, <1>2, <1>3

(* What happens to the frames, and to the abstract state.                     *)
At0 == [f \in Frame |-> fr[f].at]

LEMMA AtStutter ==
  ASSUME AtsStay
  PROVE  [Program!Next]_At0
  BY DEF AtsStay, At0

LEMMA EnterMaps ==
  ASSUME FInv, NEW f \in Frame, NEW g \in Frame, Enters(f, g)
  PROVE  [Program!Next]_At0
<1>1. Typed /\ AtInv /\ IInv /\ UnsyncedInv
  BY FParts
<1>2. Active(f) /\ NextInstr(f) = g /\ g # f
  BY <1>1, EnterAt DEF Enters
<1>3. Program!Active(f) /\ Program!End(f) = End(f)
  BY <1>1, <1>2, ProgramFacts
<1>4. At0' = [At0 EXCEPT ![f] = @ + 1, ![g] = 1]
  <2>1. \A h \in Frame : fr'[h].at = IF h = f THEN fr[f].at + 1 ELSE IF h = g THEN 1 ELSE fr[h].at
    BY <1>2 DEF Enters
  <2>. QED  BY <1>2, <2>1 DEF At0
<1>5. fr[f].at < End(f) /\ Body[f][fr[f].at] = g
  BY <1>2, Kinds DEF NextInstr
<1>6. Program!Enter(f)
  BY <1>3, <1>4, <1>5 DEF Program!Enter, At0
<1>. QED  BY <1>6 DEF Program!Next

LEMMA SyncMaps ==
  ASSUME FInv, NEW f \in Frame, Active(f), AtSync(f), fr'[f].at = fr[f].at + 1,
         \A h \in Frame \ {f} : fr'[h].at = fr[h].at,
         \A v \in Worker : \A i \in 1..Len(Tips(v)) - 1 : Tips(v)[i] # f,
         \A p \in Closure : cl[p].frame = f => Kids(p) = {}
  PROVE  [Program!Next]_At0
<1>1. Typed
  BY FParts
<1>2. Program!Active(f) /\ Program!End(f) = End(f) /\ fr[f].at \in Nat /\ End(f) = Len(Body[f]) + 1
  BY <1>1, ProgramFacts DEF End
<1>3. At0' = [At0 EXCEPT ![f] = @ + 1]
  BY DEF At0
<1>4. fr[f].at < End(f) /\ Body[f][fr[f].at] = SYNC
  BY DEF AtSync
<1>5. ASSUME NEW g \in Program!Spawned(f)  PROVE Program!Returned(g)
  <2>1. PICK i \in 1..fr[f].at - 1 : g = Body[f][i] /\ g \in Helper
    BY <1>5 DEF Program!Spawned
  <2>2. i \in 1..Len(Body[f]) /\ i < fr[f].at
    BY <1>2, <1>4, <2>1, BodyFacts
  <2>3. Over(g) /\ g \in Frame
    BY <2>1, <2>2, SyncWaits, Kinds
  <2>. QED  BY <1>1, <2>3, ProgramFacts
<1>6. Program!Sync(f)
  BY <1>2, <1>3, <1>4, <1>5 DEF Program!Sync, At0
<1>. QED  BY <1>6 DEF Program!Next

LEMMA ReturnMaps ==
  ASSUME FInv, NEW f \in Frame, Active(f), fr[f].at = End(f), fr'[f].at = fr[f].at + 1,
         \A h \in Frame \ {f} : fr'[h].at = fr[h].at
  PROVE  [Program!Next]_At0
<1>1. Program!Active(f) /\ Program!End(f) = End(f)
  BY FParts, ProgramFacts
<1>2. At0' = [At0 EXCEPT ![f] = @ + 1]
  BY DEF At0
<1>3. Program!Return(f)
  BY <1>1, <1>2 DEF Program!Return, At0
<1>. QED  BY <1>3 DEF Program!Next

(* The steps of frames ...                                                    *)
LEMMA EnteringMaps ==
  ASSUME FInv, IInv', NEW w \in Worker, NEW f \in Frame, Spawn(w, f) \/ Call(w, f)
  PROVE  [Program!Next]_At0
<1>1. CASE Spawn(w, f)
  <2>1. PICK g \in Frame : g = NextInstr(f)
    BY <1>1, SpawnEnters, Kinds
  <2>. QED  BY <1>1, <2>1, SpawnEnters, EnterMaps
<1>2. CASE Call(w, f)
  <2>1. PICK g \in Frame : g = NextInstr(f)
    BY <1>2, CallEnters
  <2>. QED  BY <1>2, <2>1, CallEnters, EnterMaps
<1>. QED  BY <1>1, <1>2

LEMMA ReturningMaps ==
  ASSUME FInv, IInv', NEW w \in Worker, NEW f \in Frame,
         ReturnToCaller(w, f) \/ ReturnFullFrame(w, f) \/ PopParent(w, f) \/ EnterHandler(w, f)
  PROVE  [Program!Next]_At0
<1>1. Leave(w, f)
  BY DEF ReturnToCaller, ReturnFullFrame, PopParent, EnterHandler
<1>2. Active(f) /\ Advances(f) /\ fr[f].at = End(f)
  BY <1>1, LeaveIs
<1>. QED  BY <1>2, ReturnMaps DEF Advances

LEMMA FinishRootMaps ==
  ASSUME FInv, NEW w \in Worker, FinishRoot(w)
  PROVE  [Program!Next]_At0
<1>1. Root \in Frame /\ InUser(w, Root) /\ fr[Root].at = End(Root)
  BY Kinds DEF FinishRoot
<1>2. Active(Root)
  BY <1>1, UserFrame
<1>3. fr \in [Frame -> FrameRecord] /\ fr' = [fr EXCEPT ![Root] = [fr[Root] EXCEPT !.at = fr[Root].at + 1]]
  BY FParts DEF FinishRoot, Typed, TypedRun
<1>4. fr'[Root].at = fr[Root].at + 1 /\ \A h \in Frame \ {Root} : fr'[h].at = fr[h].at
  BY <1>1, <1>3 DEF FrameRecord
<1>. QED  BY <1>1, <1>2, <1>4, ReturnMaps

(* ... past a sync, which a stolen frame leaves when its children are back.   *)
LEMMA FastSyncMaps ==
  ASSUME FInv, IInv', NEW w \in Worker, NEW f \in Frame, FastSync(w, f)
  PROVE  [Program!Next]_At0
<1>1. pc[w] = "user" /\ cur[w] = f /\ Active(f) /\ f \in Held(w)
  BY UserFrame DEF FastSync
<1>2. Advances(f) /\ AtSync(f)
  BY FastSyncAdvances
<1>3. ASSUME NEW v \in Worker, NEW i \in 1..Len(Tips(v)) - 1, Tips(v)[i] = f
      PROVE  FALSE
  <2>1. Tips(v) \in Seq(Frame) /\ Len(Tips(v)) \in Nat
    BY FParts, TipsAre
  <2>2. i \in DOMAIN Tips(v) /\ Len(Tips(v)) \in DOMAIN Tips(v) /\ i # Len(Tips(v))
    BY <2>1
  <2>3. f \in Held(v)
    BY <1>3, <2>2 DEF Held, Range
  <2>4. v = w
    BY <1>1, <2>3, FParts DEF TipInv
  <2>5. Tips(v)[Len(Tips(v))] = f
    BY <1>1, <2>4, FParts, TipsAre DEF AtFrames
  <2>6. IsInjective(Tips(v))
    BY FParts DEF TipInv
  <2>. QED  BY <1>3, <2>2, <2>5, <2>6 DEF IsInjective
<1>4. ASSUME NEW p \in Closure, cl[p].frame = f  PROVE Kids(p) = {}
  <2>1. ~fr[f].unsynced
    BY DEF FastSync
  <2>2. ~BeingStolen(p)
    <3>. SUFFICES ASSUME NEW v \in Worker, pc[v] \in {"promoted", "finish"}, t[v] = p  PROVE FALSE
      BY DEF BeingStolen
    <3>1. Parked(p)
      BY ThiefParked
    <3>. QED  BY <1>1, <1>4, <3>1, FParts DEF TipInv
  <2>. QED  BY <1>4, <2>1, <2>2 DEF FInv, KidsInv
<1>. QED  BY <1>1, <1>2, <1>3, <1>4, SyncMaps DEF Advances

LEMMA SyncReadyMaps ==
  ASSUME FInv, NEW w \in Worker, NEW c \in Closure, SyncReady(w, c)
  PROVE  [Program!Next]_At0
<1>1. pc[w] = "sync" /\ c = Bottom(w) /\ ~Closure_has_children(c)
  BY DEF SyncReady, At
<1>2. PICK f \in Frame : f = cur[w]
  BY <1>1, UserCover
<1>3. c = Hand(w) /\ f \in Held(w) /\ Active(f)
  BY <1>1, <1>2, UserCover
<1>4. AtSync(f) /\ fr[f].stolen
  BY <1>1, <1>2, FParts DEF StageInv, UnsyncedInv
<1>5. cl[c].frame = f /\ Tips(w) = <<f>>
  BY <1>1, <1>2, <1>3, <1>4, StolenAlone
<1>6. fr'[f].at = fr[f].at + 1 /\ \A h \in Frame \ {f} : fr'[h].at = fr[h].at
  <2>. DEFINE p == SyncedFrame(w, cl[c])
              q == [p EXCEPT !.at = @ + 1]
  <2>1. fr' = [fr EXCEPT ![f] = q]
    BY <1>5 DEF SyncReady
  <2>2. Typed /\ fr \in [Frame -> FrameRecord] /\ cl[c] \in ClosureRecord
    BY FParts, TreeIsSeq DEF Typed, TypedRun
  <2>3. p \in FrameRecord /\ p.at = fr[f].at
    BY <1>5, <2>2, SyncedFlags
  <2>. HIDE DEF p
  <2>4. q.at = fr[f].at + 1
    BY <2>3 DEF FrameRecord
  <2>. HIDE DEF q
  <2>. QED  BY <2>1, <2>2, <2>4
<1>7. ASSUME NEW v \in Worker, NEW i \in 1..Len(Tips(v)) - 1, Tips(v)[i] = f
      PROVE  FALSE
  <2>1. Tips(v) \in Seq(Frame) /\ Len(Tips(v)) \in Nat
    BY FParts, TipsAre
  <2>2. i \in DOMAIN Tips(v)
    BY <2>1
  <2>3. f \in Held(v)
    BY <1>7, <2>2 DEF Held, Range
  <2>4. v = w
    BY <1>3, <2>3, FParts DEF TipInv
  <2>5. Len(Tips(v)) = 1
    BY <1>5, <2>4, OneEntry
  <2>. QED  BY <2>5
<1>8. ASSUME NEW p \in Closure, cl[p].frame = f  PROVE Kids(p) = {}
  <2>1. p = c
    BY <1>5, <1>8, Kinds DEF FInv, OneClosure
  <2>. QED  BY <1>1, <2>1, NoKids DEF Closure_has_children
<1>. QED  BY <1>3, <1>4, <1>6, <1>7, <1>8, SyncMaps

LEMMA PushAndRunMaps ==
  ASSUME FInv, NEW w \in Worker, NEW c \in Closure, PushAndRun(w, c)
  PROVE  [Program!Next]_At0
<1>1. fr \in [Frame -> FrameRecord]
  BY FParts DEF Typed, TypedRun
<1>2. CASE ~good[w]
  <2>1. fr' = [fr EXCEPT ![cl[c].frame].sp = cl[c].fiber]
    BY <1>2 DEF PushAndRun
  <2>2. AtsStay
    BY <1>1, <2>1 DEF AtsStay, FrameRecord
  <2>. QED  BY <2>2, AtStutter
<1>3. CASE good[w]
  <2>0. c = t[w]
    BY DEF PushAndRun
  <2>1. PICK f \in Frame : f = cl[c].frame
    BY <1>3, <2>0, GoodParked
  <2>2. Parked(c) /\ Active(f)
    BY <1>3, <2>0, <2>1, GoodParked
  <2>3. AtSync(f) /\ Kids(c) = {}
    BY <1>3, <2>0, <2>1, FParts DEF StageInv
  <2>4. fr' = [fr EXCEPT ![f] = [fr[f] EXCEPT !.at = fr[f].at + 1]]
    BY <1>3, <2>1 DEF PushAndRun
  <2>5. fr'[f].at = fr[f].at + 1 /\ \A h \in Frame \ {f} : fr'[h].at = fr[h].at
    BY <1>1, <2>4 DEF FrameRecord
  <2>6. ASSUME NEW v \in Worker, NEW i \in 1..Len(Tips(v)) - 1, Tips(v)[i] = f
        PROVE  FALSE
    <3>1. Tips(v) \in Seq(Frame) /\ Len(Tips(v)) \in Nat
      BY FParts, TipsAre
    <3>2. i \in DOMAIN Tips(v)
      BY <3>1
    <3>3. f \in Held(v)
      BY <2>6, <3>2 DEF Held, Range
    <3>. QED  BY <2>1, <2>2, <3>3, FParts DEF TipInv
  <2>7. \A p \in Closure : cl[p].frame = f => Kids(p) = {}
    BY <2>1, <2>3, Kinds DEF FInv, OneClosure
  <2>. QED  BY <2>2, <2>3, <2>5, <2>6, <2>7, SyncMaps
<1>. QED  BY <1>2, <1>3

(* Stealing, waiting and giving back move no frame.                           *)
LEMMA QuietMaps ==
  ASSUME FInv, NEW w \in Worker, NEW c \in Closure,
         \/ SyncNotReady(w, c) \/ Handler(w, c) \/ SetReturnChild(w, c) \/ Execute(w, c) \/ ReturnChild(w, c)
         \/ \E p \in Closure : SetReturnParent(w, c, p) \/ ReturnParent(w, c, p)
  PROVE  [Program!Next]_At0
<1>1. fr \in [Frame -> FrameRecord]
  BY FParts DEF Typed, TypedRun
<1>2. CASE SyncNotReady(w, c) \/ Execute(w, c)
  BY <1>1, <1>2, AtStutter DEF SyncNotReady, Execute, AtsStay, FrameRecord
<1>3. CASE Handler(w, c) \/ SetReturnChild(w, c) \/ ReturnChild(w, c)
  BY <1>3, AtStutter DEF Handler, SetReturnChild, ReturnChild, runVars, AtsStay
<1>4. ASSUME NEW p \in Closure, SetReturnParent(w, c, p)  PROVE AtsStay
  <2>1. fr' = [fr EXCEPT ![cl[p].frame] = [fr[cl[p].frame] EXCEPT !.worker = w]]
    BY <1>4, Zenon DEF SetReturnParent, CallParentResumption
  <2>. QED  BY <1>1, <2>1 DEF AtsStay, FrameRecord
<1>5. ASSUME NEW p \in Closure, ReturnParent(w, c, p)  PROVE AtsStay
  <2>1. CASE IsGoodSteal(p)
    <3>1. fr' = [fr EXCEPT ![cl[p].frame] = SyncedFrame(w, cl[p])]
      BY <1>5, <2>1 DEF ReturnParent
    <3>. QED  BY <1>1, <3>1, SMTT(30) DEF SyncedFrame, AtsStay, FrameRecord
  <2>2. CASE ~IsGoodSteal(p)
    BY <1>5, <2>2 DEF ReturnParent, AtsStay
  <2>. QED  BY <2>1, <2>2
<1>. QED  BY <1>2, <1>3, <1>4, <1>5, AtStutter

LEMMA FinishMaps ==
  ASSUME FInv, NEW w \in Worker, NEW y \in Closure, FinishPromote(w, y)
  PROVE  [Program!Next]_At0
<1>1. fr \in [Frame -> FrameRecord]
  BY FParts DEF Typed, TypedRun
<1>2. CASE fr[cl[y].frame].stolen
  <2>1. fr' = [fr EXCEPT ![cl[y].frame].unsynced = TRUE]
    BY <1>2 DEF FinishPromote, FinishFullFrame
  <2>. QED  BY <1>1, <2>1, AtStutter DEF AtsStay, FrameRecord
<1>3. CASE ~fr[cl[y].frame].stolen
  <2>1. PICK o \in Closure : \E f \in Frame : \E n \in Nat : \E L, G : Finishes(w, y, o, f, n, L, G)
    BY <1>3, FinishPath
  <2>. QED  BY <2>1, AtStutter DEF Finishes, AtsStay
<1>. QED  BY <1>2, <1>3

LEMMA EveryStepMaps ==
  ASSUME FInv, [Next]_vars
  PROVE  [Program!Next]_At0
<1>0. IInv'
  BY FParts, NextKeeps
<1>1. ASSUME NEW w \in Worker, Acquire(w)  PROVE [Program!Next]_At0
  <2>1. CASE \E f \in Frame : ReturnFullFrame(w, f) \/ EnterHandler(w, f)
    BY <1>0, <2>1, ReturningMaps
  <2>2. CASE \E f \in Frame : SlowSync(w, f)
    <3>1. fr \in [Frame -> FrameRecord]
      BY FParts DEF Typed, TypedRun
    <3>. QED  BY <2>2, <3>1, AtStutter DEF SlowSync, AtsStay, FrameRecord
  <2>3. CASE \E c \in Closure : \/ SyncNotReady(w, c) \/ Handler(w, c) \/ SetReturnChild(w, c)
                                \/ Execute(w, c) \/ ReturnChild(w, c)
                                \/ \E p \in Closure : SetReturnParent(w, c, p) \/ ReturnParent(w, c, p)
    BY <2>3, QuietMaps
  <2>4. CASE \E c \in Closure : SyncReady(w, c) \/ PushAndRun(w, c)
    BY <2>4, SyncReadyMaps, PushAndRunMaps
  <2>5. CASE Extract(w)
    BY <2>5, AtStutter DEF Extract, runVars, AtsStay
  <2>. QED  BY <1>1, <2>1, <2>2, <2>3, <2>4, <2>5, Zenon DEF Acquire
<1>2. ASSUME NEW w \in Worker, Proceed(w)  PROVE [Program!Next]_At0
  <2>1. CASE \E f \in Frame : Spawn(w, f) \/ Call(w, f)
    BY <1>0, <2>1, EnteringMaps
  <2>2. CASE \E f \in Frame : ReturnToCaller(w, f) \/ PopParent(w, f)
    BY <1>0, <2>2, ReturningMaps
  <2>3. CASE \E f \in Frame : FastSync(w, f)
    BY <1>0, <2>3, FastSyncMaps
  <2>4. CASE FinishRoot(w)
    BY <2>4, FinishRootMaps
  <2>5. CASE \/ BackToRuntime(w) \/ HaveWork(w) \/ Exit(w)
             \/ \E v \in Worker : GiveUp(w, v) \/ ReleaseVictim(w, v)
    BY <2>5, AtStutter DEF BackToRuntime, HaveWork, Exit, GiveUp, ReleaseVictim, runVars, AtsStay
  <2>6. CASE \E v \in Worker : \E c \in Closure : Promote(w, v, c)
    BY <2>6, AtStutter DEF Promote, AtsStay
  <2>7. CASE \E y \in Closure : FinishPromote(w, y)
    BY <2>7, FinishMaps
  <2>. QED  BY <1>2, <2>1, <2>2, <2>3, <2>4, <2>5, <2>6, <2>7, Zenon DEF Proceed
<1>3. ASSUME NEW w \in Worker, Steal(w)  PROVE [Program!Next]_At0
  BY <1>3, AtStutter DEF Steal, TryVictim, runVars, AtsStay
<1>4. CASE UNCHANGED vars
  BY <1>4, AtStutter DEF vars, runVars, AtsStay
<1>. QED  BY <1>1, <1>2, <1>3, <1>4, Zenon DEF Next, Terminated

(* What a spawn helper finds on the shadow stack is its parent, and a worker  *)
(* enters the runtime with nothing left on it (ShadowStackMatches).           *)
THEOREM ShadowStackKept == Spec => []ShadowStackMatches
  BY Invariant, StackMatches, PTL

(* Whoever steals what, and in whatever order the stolen parts end, the       *)
(* frames of the program run as the fork-join semantics says: each is entered *)
(* once, a caller waits for its callee, and a sync for all that were spawned  *)
(* (ImplementsForkJoin).                                                      *)
THEOREM SchedulerImplementsForkJoin == Spec => ImplementsForkJoin
<1>1. Init => Program!Init
  <2>. SUFFICES ASSUME Init  PROVE \A f \in Frame : fr[f].at = IF f = Root THEN 1 ELSE 0
    BY DEF Program!Init
  <2>. QED  BY Kinds DEF Init, NewFrame
<1>2. FInv /\ [Next]_vars => [Program!Next]_[f \in Frame |-> fr[f].at]
  BY EveryStepMaps DEF At0
<1>. QED  BY <1>1, <1>2, Invariant, PTL DEF Spec, ImplementsForkJoin, Program!Spec

-----------------------------------------------------------------------------
(* The links of a closure and its fibers, and steps that keep those of all.   *)
SameSites(r, c) ==
  /\ r.frame = c.frame /\ r.call_parent = c.call_parent /\ r.spawn_parent = c.spawn_parent
  /\ r.left_sib = c.left_sib /\ r.right_sib = c.right_sib /\ r.right_most_child = c.right_most_child
  /\ r.fiber = c.fiber /\ r.fiber_child = c.fiber_child /\ r.orig_rsp = c.orig_rsp
QuietTree ==
  /\ Closure' = Closure
  /\ \A c \in Closure : /\ SameSites(cl'[c], cl[c])
                        /\ cl'[c].has_cilk_callee = cl[c].has_cilk_callee
                        /\ cl'[c].status = "SUSPENDED" <=> cl[c].status = "SUSPENDED"
                        /\ Live(c)' <=> Live(c)

LEMMA NothingWritten ==
  ASSUME cl' = cl, \A v \in Worker : Hand(v)' = Hand(v)
  PROVE  QuietTree
<1>1. Closure' = Closure
  BY DEF Closure
<1>2. \A c \in Closure : Live(c)' <=> Live(c)
  BY DEF Live
<1>. QED  BY <1>1, <1>2 DEF QuietTree, SameSites

(* A step that writes the lock or the status of the closure that w has.       *)
LEMMA HandWritten ==
  ASSUME FInv, NEW w \in Worker, NEW c \in Closure, c = Hand(w), NEW r, cl' = [cl EXCEPT ![c] = r],
         SameSites(r, cl[c]), r.has_cilk_callee = cl[c].has_cilk_callee, r.status # "SUSPENDED",
         \A v \in Worker : Hand(v)' = Hand(v)
  PROVE  QuietTree
<1>1. Closure' = Closure /\ cl'[c] = r /\ \A d \in Closure \ {c} : cl'[d] = cl[d]
  BY DEF Closure
<1>2. cl[c].status # "SUSPENDED"
  BY FParts DEF IInv, OneHand
<1>3. \A d \in Closure : /\ SameSites(cl'[d], cl[d]) /\ cl'[d].has_cilk_callee = cl[d].has_cilk_callee
                         /\ cl'[d].status = "SUSPENDED" <=> cl[d].status = "SUSPENDED"
  BY <1>1, <1>2 DEF SameSites
<1>4. \A d \in Closure : Live(d)' <=> Live(d)
  BY <1>3 DEF Live
<1>. QED  BY <1>1, <1>3, <1>4 DEF QuietTree

(* The steps that leave the tree and the fibers of closures as they are.      *)
UserQuiet(w) ==
  \/ \E f \in Frame : \/ Spawn(w, f) \/ Call(w, f) \/ FastSync(w, f) \/ SlowSync(w, f)
                      \/ ReturnToCaller(w, f) \/ PopParent(w, f) \/ EnterHandler(w, f)
  \/ FinishRoot(w)
RuntimeQuiet(w) ==
  \/ BackToRuntime(w) \/ HaveWork(w) \/ Exit(w)
  \/ \E v \in Worker : TryVictim(w, v) \/ GiveUp(w, v) \/ ReleaseVictim(w, v)
LEMMA StaysPut ==
  ASSUME NEW w \in Worker, UserQuiet(w) \/ RuntimeQuiet(w) \/ UNCHANGED vars
  PROVE  cl' = cl /\ t' = t /\ deque' = deque
<1>1. CASE UserQuiet(w)
  BY <1>1 DEF UserQuiet, Spawn, Call, FastSync, SlowSync, ReturnToCaller, PopParent, EnterHandler, FinishRoot, treeVars
<1>2. CASE RuntimeQuiet(w)
  BY <1>2 DEF RuntimeQuiet, BackToRuntime, HaveWork, Exit, TryVictim, GiveUp, ReleaseVictim, treeVars
<1>3. CASE UNCHANGED vars
  BY <1>3 DEF vars, treeVars
<1>. QED  BY <1>1, <1>2, <1>3
LEMMA HandsStay ==
  ASSUME t' = t, deque' = deque
  PROVE  \A v \in Worker : Hand(v)' = Hand(v)
BY DEF Hand

(* ... and those that move a closure between hand and deque.                  *)
HandQuiet(w) ==
  \/ \E f \in Frame : ReturnFullFrame(w, f)
  \/ Extract(w)
  \/ \E c \in Closure : PushAndRun(w, c)
LEMMA HandMoves ==
  ASSUME FInv, NEW w \in Worker, HandQuiet(w)
  PROVE  cl' = cl /\ \A v \in Worker : Hand(v)' = Hand(v)
<1>1. IInv /\ Typed /\ PlaceInv(w)
  BY FParts
<1>2. CASE \E f \in Frame : ReturnFullFrame(w, f)
  <2>1. PICK f \in Frame : ReturnFullFrame(w, f)
    BY <1>2
  <2>2. cl' = cl /\ t' = [t EXCEPT ![w] = Bottom(w)] /\ deque' = [deque EXCEPT ![w] = Front(@)] /\ pc[w] = "user"
    BY <2>1 DEF ReturnFullFrame, Leave, InUser, At
  <2>3. deque[w] # <<>> /\ Closure' = Closure
    BY <1>1, <2>2 DEF PlaceInv, Closure
  <2>4. Hand(w)' = Hand(w) /\ \A v \in Worker \ {w} : t'[v] = t[v] /\ deque'[v] = deque[v]
    BY <1>1, <2>2, <2>3, TakeInHand
  <2>. QED  BY <2>2, <2>4 DEF Hand
<1>3. CASE Extract(w)
  <2>1. CASE deque[w] = <<>>
    <3>1. cl' = cl /\ t' = t /\ deque' = deque
      BY <1>3, <2>1 DEF Extract
    <3>. QED  BY <3>1, HandsStay
  <2>2. CASE deque[w] # <<>>
    <3>1. cl' = cl /\ t' = [t EXCEPT ![w] = Bottom(w)] /\ deque' = [deque EXCEPT ![w] = Front(@)]
      BY <1>3, <2>2 DEF Extract
    <3>2. Closure' = Closure
      BY <3>1 DEF Closure
    <3>3. Hand(w)' = Hand(w) /\ \A v \in Worker \ {w} : t'[v] = t[v] /\ deque'[v] = deque[v]
      BY <1>1, <2>2, <3>1, <3>2, TakeInHand
    <3>. QED  BY <3>1, <3>3 DEF Hand
  <2>. QED  BY <2>1, <2>2
<1>4. CASE \E c \in Closure : PushAndRun(w, c)
  <2>1. PICK c \in Closure : PushAndRun(w, c)
    BY <1>4
  <2>2. /\ cl' = cl /\ t' = [t EXCEPT ![w] = NULL] /\ deque' = [deque EXCEPT ![w] = Append(@, t[w])]
        /\ pc[w] = "push"
    BY <2>1 DEF PushAndRun, At
  <2>3. t[w] # NULL /\ Closure' = Closure
    BY <1>1, <2>2 DEF PlaceInv, Closure
  <2>4. Hand(w)' = Hand(w) /\ \A v \in Worker \ {w} : t'[v] = t[v] /\ deque'[v] = deque[v]
    BY <1>1, <2>2, <2>3, PutBack
  <2>. QED  BY <2>2, <2>4 DEF Hand
<1>. QED  BY <1>2, <1>3, <1>4 DEF HandQuiet

(* ... and those that write the lock or the status of one.                    *)
LEMMA WriteQuiet ==
  ASSUME FInv, NEW w \in Worker, NEW c \in Closure,
         \/ Handler(w, c) \/ SetReturnChild(w, c) \/ ReturnChild(w, c) \/ Execute(w, c)
         \/ FinishPromote(w, c) /\ fr[cl[c].frame].stolen
  PROVE  /\ QuietTree /\ c = Hand(w) /\ \A v \in Worker : Hand(v)' = Hand(v)
         /\ t' = t /\ deque' = deque
<1>1. /\ IInv /\ Typed /\ PlaceInv(w) /\ NULL \notin Closure /\ cl[c] \in ClosureRecord /\ OneHand
  BY FParts, TreeIsSeq DEF IInv
<1>2. t' = t /\ deque' = deque
  BY DEF Handler, SetReturnChild, ReturnChild, Execute, FinishPromote
<1>3. \A v \in Worker : Hand(v)' = Hand(v)
  BY <1>2, HandsStay
<1>4. c = Hand(w) /\ cl[c].status # "SUSPENDED"
  <2>1. c = Hand(w)
    BY <1>1, HandIs DEF Handler, SetReturnChild, ReturnChild, Execute, FinishPromote, PlaceInv, At
  <2>. QED  BY <1>1, <2>1 DEF OneHand
<1>5. PICK m \in Worker \union {NULL}, s \in {"READY", "RUNNING", "RETURNING", cl[c].status} :
        cl' = [cl EXCEPT ![c] = [cl[c] EXCEPT !.mutex = m, !.status = s]]
  <2>0. cl[c] = [cl[c] EXCEPT !.mutex = cl[c].mutex] /\ cl[c] = [cl[c] EXCEPT !.status = cl[c].status]
        /\ cl[c].mutex \in Worker \union {NULL}
    BY <1>1 DEF ClosureRecord
  <2>1. CASE Handler(w, c)
    <3>1. cl' = [cl EXCEPT ![c] = [cl[c] EXCEPT !.mutex = cl[c].mutex, !.status = "RETURNING"]]
      BY <2>0, <2>1 DEF Handler
    <3>. QED  BY <2>0, <3>1
  <2>2. CASE SetReturnChild(w, c) \/ ReturnChild(w, c)
    <3>1. cl' = [cl EXCEPT ![c] = [cl[c] EXCEPT !.mutex = w, !.status = cl[c].status]]
      <4>1. cl' = [cl EXCEPT ![c].mutex = w]
        BY <2>2 DEF SetReturnChild, ReturnChild
      <4>2. [cl[c] EXCEPT !.mutex = w, !.status = cl[c].status] = [cl[c] EXCEPT !.mutex = w]
        BY <1>1 DEF ClosureRecord
      <4>. QED  BY <4>1, <4>2
    <3>. QED  BY <3>1
  <2>3. CASE Execute(w, c)
    <3>1. cl' = [cl EXCEPT ![c] = [cl[c] EXCEPT !.mutex = cl[c].mutex, !.status = "RUNNING"]]
      BY <2>0, <2>3 DEF Execute
    <3>. QED  BY <2>0, <3>1
  <2>4. CASE FinishPromote(w, c) /\ fr[cl[c].frame].stolen
    <3>1. cl' = [cl EXCEPT ![c] = [cl[c] EXCEPT !.mutex = NULL, !.status = "READY"]]
      BY <2>4 DEF FinishPromote, FinishFullFrame
    <3>. QED  BY <3>1
  <2>. QED  BY <2>1, <2>2, <2>3, <2>4
<1>. DEFINE r == [cl[c] EXCEPT !.mutex = m, !.status = s]
<1>6. SameSites(r, cl[c]) /\ r.has_cilk_callee = cl[c].has_cilk_callee /\ r.status = s /\ s # "SUSPENDED"
  BY <1>1, <1>4 DEF SameSites, ClosureRecord
<1>7. cl' = [cl EXCEPT ![c] = r]
  BY <1>5
<1>. HIDE DEF r
<1>8. QuietTree
  BY <1>3, <1>4, <1>6, <1>7, HandWritten
<1>. QED  BY <1>2, <1>3, <1>4, <1>8

-----------------------------------------------------------------------------
(* The siblings.  x is the greatest (the least) of a set of closures, or NULL *)
(* if there is none; those made before, and after, c.                         *)
GreatestOf(x, S) == IF S = {} THEN x = NULL ELSE x \in S /\ \A d \in S : d <= x
LeastOf(x, S) == IF S = {} THEN x = NULL ELSE x \in S /\ \A d \in S : x <= d
Older(c, S) == {d \in S : d < c}
Younger(c, S) == {d \in S : d > c}
(* Children are linked in the order in which they were made.                  *)
SibInv ==
  \A p \in Closure :
    /\ GreatestOf(cl[p].right_most_child, Kids(p))
    /\ \A c \in Kids(p) : /\ GreatestOf(cl[c].left_sib, Older(c, Kids(p)))
                          /\ LeastOf(cl[c].right_sib, Younger(c, Kids(p)))

(* One more child, the youngest.                                              *)
LEMMA AddYoungest ==
  ASSUME NEW K, K \subseteq Nat, NEW d \in Nat, \A e \in K : e < d, NEW x, GreatestOf(x, K)
  PROVE  /\ GreatestOf(d, K \union {d})
         /\ GreatestOf(x, Older(d, K \union {d})) /\ Younger(d, K \union {d}) = {}
         /\ \A c \in K : /\ Older(c, K \union {d}) = Older(c, K)
                         /\ \A y : LeastOf(y, Younger(c, K)) =>
                              LeastOf(IF c = x THEN d ELSE y, Younger(c, K \union {d}))
<1>1. GreatestOf(d, K \union {d})
  BY DEF GreatestOf
<1>0. \A e \in K \union {d} : /\ e \in K => e < d /\ ~(e > d)
                             /\ e = d => ~(e < d) /\ ~(e > d)
  <2>1. \A e \in K : e \in Nat /\ e < d
    OBVIOUS
  <2>. QED  BY <2>1
<1>2. Older(d, K \union {d}) = K
  <2>1. \A e : e \in Older(d, K \union {d}) <=> e \in K
    BY <1>0 DEF Older
  <2>. QED  BY <2>1
<1>3. Younger(d, K \union {d}) = {}
  <2>1. \A e \in K \union {d} : ~(e > d)
    BY <1>0
  <2>2. \A e : e \notin {x1 \in K \union {d} : x1 > d}
    BY <2>1
  <2>. QED  BY <2>2 DEF Younger
<1>4. ASSUME NEW c \in K  PROVE Older(c, K \union {d}) = Older(c, K)
  BY DEF Older
<1>5. ASSUME NEW c \in K, NEW y, LeastOf(y, Younger(c, K))
      PROVE  LeastOf(IF c = x THEN d ELSE y, Younger(c, K \union {d}))
  <2>1. Younger(c, K \union {d}) = Younger(c, K) \union {d}
    BY DEF Younger
  <2>2. x \in K /\ \A e \in K : e <= x
    BY DEF GreatestOf
  <2>3. CASE c = x
    <3>1. Younger(c, K) = {}
      <4>1. \A e : e \notin Younger(c, K)
        <5>1. ASSUME NEW e \in K  PROVE ~(e > c)
          <6>1. e \in Nat /\ c \in Nat /\ e <= c
            BY <2>2, <2>3
          <6>. QED  BY <6>1
        <5>. QED  BY <5>1 DEF Younger
      <4>. QED  BY <4>1
    <3>. QED  BY <2>1, <2>3, <3>1 DEF LeastOf
  <2>4. CASE c # x
    <3>1. x \in Younger(c, K)
      BY <2>2, <2>4 DEF Younger
    <3>2. y \in Younger(c, K) /\ \A e \in Younger(c, K) : y <= e
      BY <1>5, <3>1 DEF LeastOf
    <3>3. y <= d
      BY <3>2 DEF Younger
    <3>. QED  BY <2>1, <2>4, <3>2, <3>3 DEF LeastOf
  <2>. QED  BY <2>3, <2>4
<1>. QED  BY <1>1, <1>2, <1>3, <1>4, <1>5

(* One less.                                                                  *)
LEMMA DropOlder ==
  ASSUME NEW S, S \subseteq Nat, NEW c \in Nat, NEW a, NEW y, GreatestOf(y, S),
         y = c => GreatestOf(a, Older(c, S))
  PROVE  GreatestOf(IF y = c THEN a ELSE y, S \ {c})
<1>1. CASE S = {}
  BY <1>1, WorkerAssumption DEF GreatestOf
<1>2. CASE S # {} /\ y = c
  <2>0. c \in S /\ \A e \in S : e \in Nat /\ e <= c
    BY <1>2 DEF GreatestOf
  <2>1. c \in S /\ \A e \in S : e < c <=> e # c
    BY <2>0
  <2>2. \A e : e \in S \ {c} <=> e \in Older(c, S)
    BY <2>1 DEF Older
  <2>3. S \ {c} = Older(c, S)
    BY <2>2
  <2>. QED  BY <1>2, <2>3
<1>3. CASE S # {} /\ y # c
  BY <1>3 DEF GreatestOf
<1>. QED  BY <1>1, <1>2, <1>3
LEMMA DropYounger ==
  ASSUME NEW S, S \subseteq Nat, NEW c \in Nat, NEW a, NEW y, LeastOf(y, S),
         y = c => LeastOf(a, Younger(c, S))
  PROVE  LeastOf(IF y = c THEN a ELSE y, S \ {c})
<1>1. CASE S = {}
  BY <1>1, WorkerAssumption DEF LeastOf
<1>2. CASE S # {} /\ y = c
  <2>0. c \in S /\ \A e \in S : e \in Nat /\ c <= e
    BY <1>2 DEF LeastOf
  <2>1. c \in S /\ \A e \in S : e > c <=> e # c
    BY <2>0
  <2>2. \A e : e \in S \ {c} <=> e \in Younger(c, S)
    BY <2>1 DEF Younger
  <2>3. S \ {c} = Younger(c, S)
    BY <2>2
  <2>. QED  BY <1>2, <2>3
<1>3. CASE S # {} /\ y # c
  BY <1>3 DEF LeastOf
<1>. QED  BY <1>1, <1>2, <1>3
LEMMA DropChild ==
  ASSUME NEW K, K \subseteq Nat, NEW c \in K, NEW a, NEW b,
         GreatestOf(a, Older(c, K)), LeastOf(b, Younger(c, K))
  PROVE  /\ \A x : GreatestOf(x, K) => GreatestOf(IF x = c THEN a ELSE x, K \ {c})
         /\ \A d \in K \ {c} :
              /\ \A y : GreatestOf(y, Older(d, K)) =>
                   GreatestOf(IF y = c THEN a ELSE y, Older(d, K \ {c}))
              /\ \A y : LeastOf(y, Younger(d, K)) =>
                   LeastOf(IF y = c THEN b ELSE y, Younger(d, K \ {c}))
<1>1. ASSUME NEW x, GreatestOf(x, K)  PROVE GreatestOf(IF x = c THEN a ELSE x, K \ {c})
  BY <1>1, DropOlder
<1>2. ASSUME NEW d \in K \ {c}, NEW y, GreatestOf(y, Older(d, K))
      PROVE  GreatestOf(IF y = c THEN a ELSE y, Older(d, K \ {c}))
  <2>1. Older(d, K \ {c}) = Older(d, K) \ {c} /\ Older(d, K) \subseteq Nat
    BY DEF Older
  <2>2. ASSUME y = c  PROVE Older(c, Older(d, K)) = Older(c, K)
    <3>1. Older(d, K) # {} => c \in Older(d, K)
      BY <1>2, <2>2 DEF GreatestOf
    <3>2. Older(d, K) # {}
      BY <1>2, <2>2, WorkerAssumption DEF GreatestOf
    <3>3. d \in Nat /\ c < d
      BY <3>1, <3>2 DEF Older
    <3>4. \A e \in K : e < c => e < d
      BY <3>3
    <3>5. \A e : e \in Older(c, Older(d, K)) <=> e \in Older(c, K)
      BY <3>4 DEF Older
    <3>. QED  BY <3>5
  <2>3. c \in Nat
    OBVIOUS
  <2>4. GreatestOf(IF y = c THEN a ELSE y, Older(d, K) \ {c})
    BY <1>2, <2>1, <2>2, <2>3, DropOlder
  <2>. QED  BY <2>1, <2>4
<1>3. ASSUME NEW d \in K \ {c}, NEW y, LeastOf(y, Younger(d, K))
      PROVE  LeastOf(IF y = c THEN b ELSE y, Younger(d, K \ {c}))
  <2>1. Younger(d, K \ {c}) = Younger(d, K) \ {c} /\ Younger(d, K) \subseteq Nat
    BY DEF Younger
  <2>2. ASSUME y = c  PROVE Younger(c, Younger(d, K)) = Younger(c, K)
    <3>1. Younger(d, K) # {} => c \in Younger(d, K)
      BY <1>3, <2>2 DEF LeastOf
    <3>2. Younger(d, K) # {}
      BY <1>3, <2>2, WorkerAssumption DEF LeastOf
    <3>3. d \in Nat /\ c > d
      BY <3>1, <3>2 DEF Younger
    <3>4. \A e \in K : e > c => e > d
      BY <3>3
    <3>5. \A e : e \in Younger(c, Younger(d, K)) <=> e \in Younger(c, K)
      BY <3>4 DEF Younger
    <3>. QED  BY <3>5
  <2>3. c \in Nat
    OBVIOUS
  <2>4. LeastOf(IF y = c THEN b ELSE y, Younger(d, K) \ {c})
    BY <1>3, <2>1, <2>2, <2>3, DropYounger
  <2>. QED  BY <2>1, <2>4
<1>. QED  BY <1>1, <1>2, <1>3

(* No child comes or goes.                                                    *)
LEMMA SiblingsStay ==
  ASSUME SibInv, Closure \subseteq Closure',
         \A p \in Closure : Kids(p)' = Kids(p),
         \A c \in Closure : /\ cl'[c].right_most_child = cl[c].right_most_child
                            /\ cl'[c].left_sib = cl[c].left_sib /\ cl'[c].right_sib = cl[c].right_sib,
         \A p \in Closure' \ Closure : Kids(p)' = {} /\ cl'[p].right_most_child = NULL
  PROVE  SibInv'
<1>1. ASSUME NEW p \in Closure
      PROVE  /\ GreatestOf(cl'[p].right_most_child, Kids(p)')
             /\ \A c \in Kids(p)' : /\ GreatestOf(cl'[c].left_sib, Older(c, Kids(p)'))
                                    /\ LeastOf(cl'[c].right_sib, Younger(c, Kids(p)'))
  <2>1. Kids(p) \subseteq Closure
    BY DEF Kids
  <2>. QED  BY <2>1 DEF SibInv
<1>2. ASSUME NEW p \in Closure' \ Closure
      PROVE  /\ GreatestOf(cl'[p].right_most_child, Kids(p)')
             /\ \A c \in Kids(p)' : /\ GreatestOf(cl'[c].left_sib, Older(c, Kids(p)'))
                                    /\ LeastOf(cl'[c].right_sib, Younger(c, Kids(p)'))
  BY DEF GreatestOf
<1>3. SibInv' <=> \A p \in Closure' :
        /\ GreatestOf(cl'[p].right_most_child, Kids(p)')
        /\ \A c \in Kids(p)' : /\ GreatestOf(cl'[c].left_sib, Older(c, Kids(p)'))
                               /\ LeastOf(cl'[c].right_sib, Younger(c, Kids(p)'))
  BY DEF SibInv, GreatestOf, LeastOf, Older, Younger
<1>. QED  BY <1>1, <1>2, <1>3

LEMMA QuietKids ==
  ASSUME QuietTree
  PROVE  \A p : Kids(p)' = Kids(p)
BY DEF QuietTree, SameSites, Kids

LEMMA QuietSiblings ==
  ASSUME SibInv, QuietTree
  PROVE  SibInv'
BY QuietKids, SiblingsStay DEF QuietTree, SameSites

(* A sync that fails suspends a closure; one that succeeds resumes none.      *)
LEMMA SyncTree ==
  ASSUME FInv, NEW w \in Worker, NEW c \in Closure, SyncNotReady(w, c) \/ SyncReady(w, c)
  PROVE  /\ Closure' = Closure /\ c = Hand(w) /\ \A d \in Closure \ {c} : cl'[d] = cl[d]
         /\ cl'[c] = IF Closure_has_children(c) THEN [cl[c] EXCEPT !.status = "SUSPENDED", !.fiber = NULL]
                                                ELSE SetupForSync(cl[c])
         /\ \A d \in Closure : /\ cl'[d].spawn_parent = cl[d].spawn_parent
                               /\ cl'[d].call_parent = cl[d].call_parent /\ cl'[d].frame = cl[d].frame
                               /\ cl'[d].has_cilk_callee = cl[d].has_cilk_callee
                               /\ cl'[d].right_most_child = cl[d].right_most_child
                               /\ cl'[d].left_sib = cl[d].left_sib /\ cl'[d].right_sib = cl[d].right_sib
                               /\ Live(d)' <=> Live(d)
         /\ \A p : Kids(p)' = Kids(p)
         /\ \A v \in Worker \ {w} : Hand(v)' = Hand(v)
<1>1. /\ IInv /\ Typed /\ PlaceInv(w) /\ NULL \notin Closure /\ cl[c] \in ClosureRecord /\ OneHand
      /\ deque \in [Worker -> Deques]
  BY FParts, TreeIsSeq DEF IInv, Typed, TypedRuntime
<1>2. pc[w] = "sync" /\ c = Bottom(w)
  BY DEF SyncNotReady, SyncReady, At
<1>3. c = Hand(w) /\ t[w] = NULL /\ deque[w] = <<c>> /\ Front(deque[w]) = <<>>
  BY <1>1, <1>2, HandIs DEF PlaceInv
<1>. DEFINE r == [cl[c] EXCEPT !.status = "SUSPENDED", !.fiber = NULL]
            q == SetupForSync(cl[c])
<1>4. SyncNotReady(w, c) => cl' = [cl EXCEPT ![c] = r] /\ t' = t /\ deque' = [deque EXCEPT ![w] = <<>>]
                            /\ Closure_has_children(c)
  <2>1. SyncNotReady(w, c) => cl' = [cl EXCEPT ![c] = r]
    BY Zenon DEF SyncNotReady
  <2>2. SyncNotReady(w, c) => t' = t /\ deque' = [deque EXCEPT ![w] = Front(@)] /\ Closure_has_children(c)
    BY Zenon DEF SyncNotReady
  <2>. QED  BY <1>3, <2>1, <2>2
<1>5. SyncReady(w, c) => cl' = [cl EXCEPT ![c] = q] /\ t' = t /\ deque' = deque /\ ~Closure_has_children(c)
  BY DEF SyncReady
<1>6. /\ r.frame = cl[c].frame /\ r.call_parent = cl[c].call_parent /\ r.spawn_parent = cl[c].spawn_parent
      /\ r.has_cilk_callee = cl[c].has_cilk_callee /\ r.right_most_child = cl[c].right_most_child
      /\ r.left_sib = cl[c].left_sib /\ r.right_sib = cl[c].right_sib /\ r.status = "SUSPENDED"
  BY <1>1 DEF ClosureRecord
<1>7. /\ q.frame = cl[c].frame /\ q.call_parent = cl[c].call_parent /\ q.spawn_parent = cl[c].spawn_parent
      /\ q.has_cilk_callee = cl[c].has_cilk_callee /\ q.right_most_child = cl[c].right_most_child
      /\ q.left_sib = cl[c].left_sib /\ q.right_sib = cl[c].right_sib /\ q.status = cl[c].status
  BY <1>1 DEF ClosureRecord, SetupForSync
<1>. HIDE DEF r, q
<1>8. Closure' = Closure /\ (\A d \in Closure \ {c} : cl'[d] = cl[d])
      /\ cl'[c] = IF Closure_has_children(c) THEN r ELSE q
  BY <1>4, <1>5 DEF Closure
<1>9. \A d \in Closure : /\ cl'[d].spawn_parent = cl[d].spawn_parent
                         /\ cl'[d].call_parent = cl[d].call_parent /\ cl'[d].frame = cl[d].frame
                         /\ cl'[d].has_cilk_callee = cl[d].has_cilk_callee
                         /\ cl'[d].right_most_child = cl[d].right_most_child
                         /\ cl'[d].left_sib = cl[d].left_sib /\ cl'[d].right_sib = cl[d].right_sib
  BY <1>6, <1>7, <1>8
<1>10. \A v \in Worker \ {w} : Hand(v)' = Hand(v)
  BY <1>1, <1>4, <1>5 DEF Hand
<1>11. Live(c) /\ Live(c)'
  <2>1. CASE SyncNotReady(w, c)
    BY <1>3, <1>4, <1>6, <1>8, <2>1 DEF Live
  <2>2. CASE SyncReady(w, c)
    <3>1. Hand(w)' = Hand(w)
      BY <1>5, <2>2 DEF Hand
    <3>. QED  BY <1>3, <3>1 DEF Live
  <2>. QED  BY <2>1, <2>2
<1>12. ASSUME NEW d \in Closure  PROVE Live(d)' <=> Live(d)
  <2>1. CASE d = c
    BY <1>11, <2>1
  <2>2. CASE d # c
    <3>1. Hand(w)' # d /\ Hand(w) # d
      BY <1>1, <1>3, <1>4, <1>5, <2>2 DEF Hand
    <3>2. \A v \in Worker : Hand(v)' = d <=> Hand(v) = d
      BY <1>10, <3>1
    <3>. QED  BY <1>8, <2>2, <3>2 DEF Live
  <2>. QED  BY <2>1, <2>2
<1>13. \A p : Kids(p)' = Kids(p)
  BY <1>8, <1>9, <1>12 DEF Kids
<1>. QED  BY <1>3, <1>8, <1>9, <1>10, <1>12, <1>13 DEF r, q

(* A called full frame has returned: its closure ends, the caller's goes on.  *)
ResumesCaller(w, c, p) ==
  /\ pc[w] = "set_return_parent" /\ pc'[w] = "user" /\ \A v \in Worker \ {w} : pc'[v] = pc[v]
  /\ c = Hand(w) /\ t[w] = c /\ p # c /\ cl[c].call_parent = p /\ cl[c].spawn_parent = NULL
  /\ cl[c].frame \in Called /\ Over(cl[c].frame) /\ cl[c].status # "SUSPENDED"
  /\ cl[p].frame = cur[w] /\ cur[w] \in Frame /\ fr[cur[w]].stolen
  /\ cl[p].status = "SUSPENDED" /\ cl[p].has_cilk_callee /\ ltq[w] = <<>> /\ Upper(w) = NULL
  /\ \A v \in Worker : Hand(v) # p /\ t[v] # p
  /\ Closure' = Closure /\ cl'[p].status = "RUNNING" /\ ~cl'[p].has_cilk_callee
  /\ \A d \in Closure : SameSites(cl'[d], cl[d])
  /\ \A d \in Closure \ {p} : cl'[d].status = cl[d].status /\ cl'[d].has_cilk_callee = cl[d].has_cilk_callee
  /\ Hand(w)' = p /\ \A v \in Worker \ {w} : Idles(v) /\ Hand(v)' = Hand(v) /\ Hand(v) # c
  /\ ~Live(c)' /\ Live(c) /\ Live(p) /\ \A d \in Closure \ {c} : Live(d)' <=> Live(d)
  /\ \A q \in Closure : Kids(q)' = Kids(q)
  /\ \A h \in Frame \ {cur[w]} : fr'[h] = fr[h]
  /\ fr'[cur[w]] = [fr[cur[w]] EXCEPT !.worker = w]
  /\ ltq' = ltq /\ cur' = cur /\ good' = good

LEMMA CalledReturns ==
  ASSUME FInv, NEW w \in Worker, NEW c \in Closure, NEW p \in Closure, SetReturnParent(w, c, p)
  PROVE  ResumesCaller(w, c, p)
<1>. DEFINE a == [cl[c] EXCEPT !.mutex = NULL]
            r == [cl[p] EXCEPT !.status = "RUNNING", !.has_cilk_callee = FALSE, !.callee = NULL]
<1>1. /\ pc[w] = "set_return_parent" /\ c = t[w] /\ p = cl[c].call_parent /\ Goto(w, "user")
      /\ fr' = [fr EXCEPT ![cl[p].frame] = [fr[cl[p].frame] EXCEPT !.worker = w]]
      /\ t' = [t EXCEPT ![w] = NULL] /\ deque' = [deque EXCEPT ![w] = Append(@, p)]
      /\ ltq' = ltq /\ cur' = cur /\ good' = good /\ done' = done
  BY Zenon DEF SetReturnParent, At, CallParentResumption
<1>2. /\ IInv /\ Typed /\ PlaceInv(w) /\ ChainInv(w) /\ StageInv(w) /\ NULL \notin Closure /\ OneHand
      /\ fr \in [Frame -> FrameRecord] /\ deque \in [Worker -> Deques]
      /\ t \in [Worker -> Closure \union {NULL}] /\ CallInv /\ ParentInv
      /\ cl \in Seq(ClosureRecord) /\ Closure = DOMAIN cl /\ cl[c] \in ClosureRecord /\ cl[p] \in ClosureRecord
  BY FParts, TreeIsSeq, SMTT(30) DEF Typed, TypedRun, TypedRuntime, TypedTree, IInv, Closure
<1>3. pc'[w] = "user" /\ \A v \in Worker \ {w} : pc'[v] = pc[v]
  BY <1>1, GoesTo
<1>4. c = Hand(w) /\ deque[w] = <<>> /\ ltq[w] = <<>> /\ cl[p].frame = cur[w] /\ cl[c].frame \in Called
      /\ Over(cl[c].frame) /\ Upper(w) = NULL /\ cur[w] \in Frame
  BY <1>1, <1>2, HandIs DEF StageInv, PlaceInv, ChainInv, HasFrame, Upper
<1>5. /\ cl[p].status = "SUSPENDED" /\ cl[c].status # "SUSPENDED" /\ p # c /\ cl[c].spawn_parent = NULL
      /\ cl[p].has_cilk_callee /\ \A v \in Worker : Hand(v) # p /\ t[v] # p
      /\ fr[cur[w]].stolen
  <2>1. Live(c) /\ cl[c].call_parent # NULL
    BY <1>1, <1>2, <1>4 DEF Live
  <2>2. cl[p].has_cilk_callee
    BY <1>1, <1>2, <2>1 DEF CallInv
  <2>3. cl[p].status = "SUSPENDED"
    BY <1>2, <2>2 DEF CallInv
  <2>4. cl[c].status # "SUSPENDED"
    BY <1>2, <1>4 DEF OneHand
  <2>5. cl[c].spawn_parent = NULL
    BY <1>2, <2>1 DEF ParentInv
  <2>. QED  BY <1>4, <2>2, <2>3, <2>4, <2>5, SuspendedStolen, Kinds
<1>6. SameSites(a, cl[c]) /\ a.has_cilk_callee = cl[c].has_cilk_callee /\ a.status = cl[c].status
  BY <1>2 DEF ClosureRecord, SameSites
<1>7. SameSites(r, cl[p]) /\ ~r.has_cilk_callee /\ r.status = "RUNNING"
  BY <1>2 DEF ClosureRecord, Status, SameSites
<1>8. cl' = [cl EXCEPT ![c] = a, ![p] = r]
  BY <1>5, Zenon DEF SetReturnParent
<1>. HIDE DEF a, r
<1>9. /\ Closure' = Closure /\ cl'[p].status = "RUNNING" /\ ~cl'[p].has_cilk_callee
      /\ \A d \in Closure : SameSites(cl'[d], cl[d])
      /\ \A d \in Closure \ {p} : cl'[d].status = cl[d].status /\ cl'[d].has_cilk_callee = cl[d].has_cilk_callee
  <2>1. DOMAIN cl' = DOMAIN cl /\ cl'[c] = a /\ cl'[p] = r /\ \A d \in Closure \ {c, p} : cl'[d] = cl[d]
    BY <1>2, <1>5, <1>8
  <2>2. Closure' = Closure
    BY <1>2, <2>1 DEF Closure
  <2>3. \A d \in Closure : SameSites(cl[d], cl[d])
    BY DEF SameSites
  <2>. QED  BY <1>6, <1>7, <2>1, <2>2, <2>3
<1>10. /\ \A h \in Frame \ {cur[w]} : fr'[h] = fr[h]
       /\ fr'[cur[w]] = [fr[cur[w]] EXCEPT !.worker = w]
  BY <1>1, <1>2, <1>4
<1>11. /\ t'[w] = NULL /\ deque'[w] = <<p>> /\ Hand(w)' = p
       /\ \A v \in Worker \ {w} : Idles(v) /\ Hand(v)' = Hand(v) /\ Hand(v) # c
  <2>1. t'[w] = NULL /\ deque'[w] = <<p>>
    BY <1>1, <1>2, <1>4, OneEntry
  <2>2. Hand(w)' = p
    BY <2>1, OneEntry, SMTT(30) DEF Hand
  <2>3. \A v \in Worker \ {w} : Idles(v)
    BY <1>1, <1>3 DEF Idles
  <2>. QED  BY <1>2, <1>4, <2>1, <2>2, <2>3, IdleTips DEF OneHand
<1>12. /\ ~Live(c)' /\ Live(c) /\ Live(p) /\ \A d \in Closure \ {c} : Live(d)' <=> Live(d)
  <2>1. ~Live(c)'
    BY <1>5, <1>9, <1>11 DEF Live
  <2>2. Live(p)' /\ Live(p) /\ Live(c)
    BY <1>4, <1>5, <1>11 DEF Live
  <2>3. ASSUME NEW d \in Closure \ {c, p}  PROVE Live(d)' <=> Live(d)
    <3>1. \A v \in Worker : Hand(v)' = d <=> Hand(v) = d
      BY <1>4, <1>11
    <3>. QED  BY <1>9, <3>1 DEF Live
  <2>. QED  BY <2>1, <2>2, <2>3
<1>13. ASSUME NEW q \in Closure  PROVE Kids(q)' = Kids(q)
  <2>1. \A d \in Closure : cl'[d].spawn_parent = q /\ Live(d)' <=> cl[d].spawn_parent = q /\ Live(d)
    BY <1>2, <1>5, <1>9, <1>12 DEF SameSites
  <2>. QED  BY <1>9, <2>1 DEF Kids
<1>. QED  BY <1>1, <1>3, <1>4, <1>5, <1>9, <1>10, <1>11, <1>12, <1>13, ZenonT(60) DEF ResumesCaller

LEMMA CalledReturnsSiblings ==
  ASSUME FInv, SibInv, NEW w \in Worker, NEW c \in Closure, NEW p \in Closure, SetReturnParent(w, c, p)
  PROVE  SibInv'
<1>0. ResumesCaller(w, c, p)
  BY CalledReturns
<1>1. Closure' = Closure /\ (\A d \in Closure : SameSites(cl'[d], cl[d])) /\ \A q \in Closure : Kids(q)' = Kids(q)
  BY <1>0 DEF ResumesCaller
<1>. QED  BY <1>1, SiblingsStay DEF SameSites

LEMMA SyncSiblings ==
  ASSUME FInv, SibInv, NEW w \in Worker, NEW c \in Closure, SyncNotReady(w, c) \/ SyncReady(w, c)
  PROVE  SibInv'
<1>1. /\ Closure' = Closure /\ \A p : Kids(p)' = Kids(p)
      /\ \A d \in Closure : /\ cl'[d].right_most_child = cl[d].right_most_child
                            /\ cl'[d].left_sib = cl[d].left_sib /\ cl'[d].right_sib = cl[d].right_sib
  BY SyncTree
<1>. QED  BY <1>1, SiblingsStay

(* What the siblings invariant says of the next state.                        *)
LEMMA SiblingsNext ==
  ASSUME \A p \in Closure' :
           /\ GreatestOf(cl'[p].right_most_child, Kids(p)')
           /\ \A c \in Kids(p)' : /\ GreatestOf(cl'[c].left_sib, Older(c, Kids(p)'))
                                  /\ LeastOf(cl'[c].right_sib, Younger(c, Kids(p)'))
  PROVE  SibInv'
BY DEF SibInv, GreatestOf, LeastOf, Older, Younger

(* A child is back: the links and fibers of the closures.                     *)
BackSites(c, p) ==
  /\ Sites(cl'[c], NULL, NULL, cl[c].right_most_child, IF KeepsFiber(c) THEN NULL ELSE cl[c].fiber,
           cl[c].fiber_child, cl[c].orig_rsp)
  /\ \A d \in Closure \ {c, p} :
       Sites(cl'[d], IF cl[d].left_sib = c THEN cl[c].left_sib ELSE cl[d].left_sib,
             IF cl[d].right_sib = c THEN cl[c].right_sib ELSE cl[d].right_sib,
             cl[d].right_most_child, cl[d].fiber, cl[d].fiber_child, cl[d].orig_rsp)
  /\ \E most, child :
       /\ most = IF cl[p].right_most_child = c THEN cl[c].left_sib ELSE cl[p].right_most_child
       /\ child = IF KeepsFiber(c) THEN cl[c].fiber ELSE cl[p].fiber_child
       /\ IsGoodSteal(p) => Sites(cl'[p], cl[p].left_sib, cl[p].right_sib, most, child, NULL, NULL)
       /\ ~IsGoodSteal(p) => Sites(cl'[p], cl[p].left_sib, cl[p].right_sib, most, cl[p].fiber, child, cl[p].orig_rsp)

LEMMA ChildBackSites ==
  ASSUME FInv, NEW w \in Worker, NEW c \in Closure, NEW p \in Closure, ReturnParent(w, c, p)
  PROVE  BackSites(c, p)
<1>1. /\ cl[c] \in ClosureRecord /\ cl[p] \in ClosureRecord /\ p # c
      /\ \A d \in Closure : cl[d] \in ClosureRecord
  BY FParts, TreeIsSeq, ChildGone
<1>. DEFINE a == [cl[c] EXCEPT !.mutex = NULL, !.left_sib = NULL, !.right_sib = NULL,
                               !.fiber = IF KeepsFiber(c) THEN NULL ELSE @]
            r == Rejoined(p, c)
            s == [SetupForSync(r) EXCEPT !.status = "READY"]
            most == IF cl[p].right_most_child = c THEN cl[c].left_sib ELSE cl[p].right_most_child
            child == IF KeepsFiber(c) THEN cl[c].fiber ELSE cl[p].fiber_child
<1>2. cl' = [d \in Closure |-> IF d = c THEN a ELSE IF d # p THEN Unlinked(d, c)
                               ELSE IF IsGoodSteal(p) THEN s ELSE r]
  BY DEF ReturnParent
<1>3. Sites(a, NULL, NULL, cl[c].right_most_child, IF KeepsFiber(c) THEN NULL ELSE cl[c].fiber,
            cl[c].fiber_child, cl[c].orig_rsp)
  BY <1>1 DEF ClosureRecord, Sites
<1>4. ASSUME NEW d \in Closure
      PROVE  Sites(Unlinked(d, c), IF cl[d].left_sib = c THEN cl[c].left_sib ELSE cl[d].left_sib,
                   IF cl[d].right_sib = c THEN cl[c].right_sib ELSE cl[d].right_sib,
                   cl[d].right_most_child, cl[d].fiber, cl[d].fiber_child, cl[d].orig_rsp)
  BY <1>1 DEF ClosureRecord, Sites, Unlinked
<1>5. Sites(r, cl[p].left_sib, cl[p].right_sib, most, cl[p].fiber, child, cl[p].orig_rsp)
  BY <1>1 DEF ClosureRecord, Sites, Rejoined
<1>6. Sites(s, cl[p].left_sib, cl[p].right_sib, most, child, NULL, NULL)
  BY <1>1 DEF ClosureRecord, Sites, Rejoined, SetupForSync
<1>. HIDE DEF a, r, s, most, child
<1>7. /\ cl'[c] = a /\ \A d \in Closure \ {c, p} : cl'[d] = Unlinked(d, c)
      /\ cl'[p] = IF IsGoodSteal(p) THEN s ELSE r
  BY <1>1, <1>2
<1>8. /\ IsGoodSteal(p) => Sites(cl'[p], cl[p].left_sib, cl[p].right_sib, most, child, NULL, NULL)
      /\ ~IsGoodSteal(p) => Sites(cl'[p], cl[p].left_sib, cl[p].right_sib, most, cl[p].fiber, child, cl[p].orig_rsp)
  BY <1>5, <1>6, <1>7
<1>9. \E m, k :
       /\ m = IF cl[p].right_most_child = c THEN cl[c].left_sib ELSE cl[p].right_most_child
       /\ k = IF KeepsFiber(c) THEN cl[c].fiber ELSE cl[p].fiber_child
       /\ IsGoodSteal(p) => Sites(cl'[p], cl[p].left_sib, cl[p].right_sib, m, k, NULL, NULL)
       /\ ~IsGoodSteal(p) => Sites(cl'[p], cl[p].left_sib, cl[p].right_sib, m, cl[p].fiber, k, cl[p].orig_rsp)
  <2>1. /\ most = IF cl[p].right_most_child = c THEN cl[c].left_sib ELSE cl[p].right_most_child
        /\ child = IF KeepsFiber(c) THEN cl[c].fiber ELSE cl[p].fiber_child
    BY DEF most, child
  <2>. QED  BY <1>8, <2>1, Zenon
<1>10. \A d \in Closure \ {c, p} :
         Sites(cl'[d], IF cl[d].left_sib = c THEN cl[c].left_sib ELSE cl[d].left_sib,
               IF cl[d].right_sib = c THEN cl[c].right_sib ELSE cl[d].right_sib,
               cl[d].right_most_child, cl[d].fiber, cl[d].fiber_child, cl[d].orig_rsp)
  <2>. TAKE d \in Closure \ {c, p}
  <2>1. cl'[d] = Unlinked(d, c)
    BY <1>7
  <2>. QED  BY <1>4, <2>1, Zenon
<1>. QED  BY <1>3, <1>7, <1>9, <1>10, Zenon DEF BackSites

LEMMA ReturnSiblings ==
  ASSUME FInv, SibInv, NEW w \in Worker, NEW c \in Closure, NEW p \in Closure, ReturnParent(w, c, p)
  PROVE  SibInv'
<1>1. GivesBack(w, c, p) /\ BackSites(c, p)
  BY ChildBack, ChildBackSites
<1>2. /\ Closure' = Closure /\ p # c /\ Kids(p)' = Kids(p) \ {c} /\ c \in Kids(p)
      /\ \A d \in Closure \ {p} : Kids(d)' = Kids(d)
  BY <1>1 DEF GivesBack
<1>3. /\ \A d \in Closure \ {c, p} :
           /\ cl'[d].left_sib = IF cl[d].left_sib = c THEN cl[c].left_sib ELSE cl[d].left_sib
           /\ cl'[d].right_sib = IF cl[d].right_sib = c THEN cl[c].right_sib ELSE cl[d].right_sib
      /\ cl'[p].left_sib = cl[p].left_sib /\ cl'[p].right_sib = cl[p].right_sib
      /\ \A d \in Closure \ {p} : cl'[d].right_most_child = cl[d].right_most_child
      /\ cl'[p].right_most_child = IF cl[p].right_most_child = c THEN cl[c].left_sib ELSE cl[p].right_most_child
  BY <1>1 DEF BackSites, Sites
<1>4. /\ NULL \notin Closure /\ Closure \subseteq Nat /\ \A q : Kids(q) \subseteq Closure
      /\ \A q : \A d \in Kids(q) : cl[d].spawn_parent = q
      /\ cl[p].spawn_parent # p
  BY FParts DEF FInv, CountInv, Kids
<1>5. /\ GreatestOf(cl[c].left_sib, Older(c, Kids(p))) /\ LeastOf(cl[c].right_sib, Younger(c, Kids(p)))
      /\ GreatestOf(cl[p].right_most_child, Kids(p))
  BY <1>2 DEF SibInv
<1>6. /\ \A x : GreatestOf(x, Kids(p)) => GreatestOf(IF x = c THEN cl[c].left_sib ELSE x, Kids(p) \ {c})
      /\ \A d \in Kids(p) \ {c} :
           /\ \A y : GreatestOf(y, Older(d, Kids(p))) =>
                GreatestOf(IF y = c THEN cl[c].left_sib ELSE y, Older(d, Kids(p) \ {c}))
           /\ \A y : LeastOf(y, Younger(d, Kids(p))) =>
                LeastOf(IF y = c THEN cl[c].right_sib ELSE y, Younger(d, Kids(p) \ {c}))
  <2>1. Kids(p) \subseteq Nat
    BY <1>4
  <2>. QED  BY <1>2, <1>5, <2>1, DropChild
<1>7. ASSUME NEW q \in Closure
      PROVE  /\ GreatestOf(cl'[q].right_most_child, Kids(q)')
             /\ \A e \in Kids(q)' : /\ GreatestOf(cl'[e].left_sib, Older(e, Kids(q)'))
                                    /\ LeastOf(cl'[e].right_sib, Younger(e, Kids(q)'))
  <2>1. CASE q = p
    <3>1. GreatestOf(cl'[q].right_most_child, Kids(q)')
      BY <1>2, <1>3, <1>5, <1>6, <2>1
    <3>2. ASSUME NEW e \in Kids(p) \ {c}
          PROVE  /\ GreatestOf(cl'[e].left_sib, Older(e, Kids(p) \ {c}))
                 /\ LeastOf(cl'[e].right_sib, Younger(e, Kids(p) \ {c}))
      <4>1. e \in Closure \ {c, p}
        BY <1>4
      <4>2. GreatestOf(cl[e].left_sib, Older(e, Kids(p))) /\ LeastOf(cl[e].right_sib, Younger(e, Kids(p)))
        BY DEF SibInv
      <4>. QED  BY <1>3, <1>6, <4>1, <4>2
    <3>. QED  BY <1>2, <2>1, <3>1, <3>2
  <2>2. CASE q # p
    <3>1. Kids(q)' = Kids(q) /\ c \notin Kids(q) /\ c # NULL
      BY <1>2, <1>4, <2>2
    <3>2. GreatestOf(cl'[q].right_most_child, Kids(q))
      BY <1>3, <2>2 DEF SibInv
    <3>3. ASSUME NEW e \in Kids(q)
          PROVE  GreatestOf(cl'[e].left_sib, Older(e, Kids(q))) /\ LeastOf(cl'[e].right_sib, Younger(e, Kids(q)))
      <4>1. GreatestOf(cl[e].left_sib, Older(e, Kids(q))) /\ LeastOf(cl[e].right_sib, Younger(e, Kids(q)))
        BY DEF SibInv
      <4>2. cl[e].left_sib # c /\ cl[e].right_sib # c
        BY <3>1, <4>1 DEF GreatestOf, LeastOf, Older, Younger
      <4>3. e \in Closure /\ e # c
        BY <1>4, <3>1
      <4>4. cl'[e].left_sib = cl[e].left_sib /\ cl'[e].right_sib = cl[e].right_sib
        BY <1>3, <4>2, <4>3
      <4>. QED  BY <4>1, <4>4
    <3>. QED  BY <3>1, <3>2, <3>3
  <2>. QED  BY <2>1, <2>2
<1>. QED  BY <1>2, <1>7, SiblingsNext

(* A frame was stolen: its closure has one child more, the youngest.          *)
LEMMA TakenSiblings ==
  ASSUME FInv, SibInv, NEW w \in Worker, NEW v \in Worker, NEW c \in Closure, NEW x \in Nat, NEW d \in Nat,
         NEW f \in Frame, Takes(w, v, c, x, d, f), TakenSites(c, x, d, f)
  PROVE  SibInv'
<1>1. /\ Closure' = Closure \union {x, d} /\ d \notin Closure /\ x # d /\ (x = c \/ x \notin Closure)
  BY DEF Takes
<1>2. /\ \A p \in Closure : p # x => Kids(p)' = Kids(p)
      /\ Kids(d)' = {} /\ (x = c => Kids(x)' = Kids(c) \union {d}) /\ (x # c => Kids(x)' = {d})
  BY TakenTree
<1>3. /\ \A e \in Closure : e < d
      /\ cl'[d].left_sib = (IF x = c THEN cl[c].right_most_child ELSE NULL)
      /\ cl'[d].right_sib = NULL /\ cl'[d].right_most_child = NULL /\ cl'[x].right_most_child = d
      /\ \A e \in Closure : cl'[e].left_sib = cl[e].left_sib
      /\ \A e \in Closure \ {x} :
           /\ cl'[e].right_sib = IF x = c /\ e = cl[c].right_most_child THEN d ELSE cl[e].right_sib
           /\ cl'[e].right_most_child = cl[e].right_most_child
      /\ x = c => cl'[x].right_sib = cl[x].right_sib
  BY <1>1 DEF TakenSites, Sites
<1>4. /\ NULL \notin Closure /\ Closure \subseteq Nat /\ \A q : Kids(q) \subseteq Closure
      /\ \A q : \A e \in Kids(q) : cl[e].spawn_parent = q
      /\ cl[c].spawn_parent # c
  BY FParts DEF FInv, CountInv, Kids
<1>5. ASSUME x = c
      PROVE  /\ GreatestOf(d, Kids(c) \union {d})
             /\ GreatestOf(cl[c].right_most_child, Older(d, Kids(c) \union {d})) /\ Younger(d, Kids(c) \union {d}) = {}
             /\ \A e \in Kids(c) : /\ Older(e, Kids(c) \union {d}) = Older(e, Kids(c))
                                   /\ \A y : LeastOf(y, Younger(e, Kids(c))) =>
                                        LeastOf(IF e = cl[c].right_most_child THEN d ELSE y, Younger(e, Kids(c) \union {d}))
  <2>1. Kids(c) \subseteq Nat /\ (\A e \in Kids(c) : e < d) /\ GreatestOf(cl[c].right_most_child, Kids(c))
    BY <1>3, <1>4 DEF SibInv
  <2>. QED  BY <2>1, AddYoungest
<1>6. ASSUME NEW p \in Closure'
      PROVE  /\ GreatestOf(cl'[p].right_most_child, Kids(p)')
             /\ \A e \in Kids(p)' : /\ GreatestOf(cl'[e].left_sib, Older(e, Kids(p)'))
                                    /\ LeastOf(cl'[e].right_sib, Younger(e, Kids(p)'))
  <2>1. CASE p = d
    BY <1>2, <1>3, <2>1 DEF GreatestOf
  <2>2. CASE p = x /\ x = c
    <3>1. GreatestOf(cl'[p].right_most_child, Kids(p)')
      BY <1>2, <1>3, <1>5, <2>2
    <3>2. /\ GreatestOf(cl'[d].left_sib, Older(d, Kids(c) \union {d}))
          /\ LeastOf(cl'[d].right_sib, Younger(d, Kids(c) \union {d}))
      BY <1>3, <1>5, <2>2 DEF LeastOf
    <3>3. ASSUME NEW e \in Kids(c)
          PROVE  /\ GreatestOf(cl'[e].left_sib, Older(e, Kids(c) \union {d}))
                 /\ LeastOf(cl'[e].right_sib, Younger(e, Kids(c) \union {d}))
      <4>1. e \in Closure /\ e # x
        BY <1>4, <2>2
      <4>2. GreatestOf(cl[e].left_sib, Older(e, Kids(c))) /\ LeastOf(cl[e].right_sib, Younger(e, Kids(c)))
        BY DEF SibInv
      <4>3. cl'[e].right_sib = IF e = cl[c].right_most_child THEN d ELSE cl[e].right_sib
        BY <1>3, <2>2, <4>1
      <4>. QED  BY <1>3, <1>5, <2>2, <4>1, <4>2, <4>3
    <3>. QED  BY <1>2, <2>2, <3>1, <3>2, <3>3
  <2>3. CASE p = x /\ x # c
    <3>1. Older(d, {d}) = {} /\ Younger(d, {d}) = {}
      BY DEF Older, Younger
    <3>2. GreatestOf(d, {d}) /\ GreatestOf(NULL, {}) /\ LeastOf(NULL, {})
      BY DEF GreatestOf, LeastOf
    <3>3. Kids(p)' = {d} /\ cl'[p].right_most_child = d /\ cl'[d].left_sib = NULL /\ cl'[d].right_sib = NULL
      BY <1>2, <1>3, <2>3
    <3>. QED  BY <3>1, <3>2, <3>3
  <2>4. CASE p \in Closure /\ p # x
    <3>1. Kids(p)' = Kids(p) /\ GreatestOf(cl'[p].right_most_child, Kids(p))
      BY <1>2, <1>3, <2>4 DEF SibInv
    <3>2. ASSUME NEW e \in Kids(p)
          PROVE  GreatestOf(cl'[e].left_sib, Older(e, Kids(p))) /\ LeastOf(cl'[e].right_sib, Younger(e, Kids(p)))
      <4>1. GreatestOf(cl[e].left_sib, Older(e, Kids(p))) /\ LeastOf(cl[e].right_sib, Younger(e, Kids(p)))
        BY <2>4 DEF SibInv
      <4>2. e \in Closure /\ cl'[e].left_sib = cl[e].left_sib
        BY <1>3, <1>4
      <4>3. x = c => e # cl[c].right_most_child
        <5>. SUFFICES ASSUME x = c, e = cl[c].right_most_child  PROVE FALSE
          OBVIOUS
        <5>1. e \in Kids(c)
          BY <1>4, <4>2 DEF SibInv, GreatestOf
        <5>. QED  BY <1>4, <2>4, <5>1
      <4>4. cl'[e].right_sib = cl[e].right_sib
        BY <1>1, <1>3, <4>2, <4>3
      <4>. QED  BY <4>1, <4>2, <4>4
    <3>. QED  BY <3>1, <3>2
  <2>. QED  BY <1>1, <2>1, <2>2, <2>3, <2>4
<1>. QED  BY <1>6, SiblingsNext

LEMMA PromoteSiblings ==
  ASSUME FInv, SibInv, NEW w \in Worker, NEW v \in Worker, NEW c \in Closure, Promote(w, v, c)
  PROVE  SibInv'
BY PromoteTakes, TakenSiblings

(* The stolen frame has closures now: none of the new ones has children.      *)
LEMMA FinishedTreeSites ==
  ASSUME FInv, NEW w \in Worker, NEW y \in Closure, FinishPromote(w, y), ~fr[cl[y].frame].stolen
  PROVE  /\ Closure \subseteq Closure' /\ \A p \in Closure : Kids(p)' = Kids(p)
         /\ \A p \in Closure' \ Closure : Kids(p)' = {} /\ cl'[p].right_most_child = NULL
         /\ \A d \in Closure : KeepsSites(cl'[d], cl[d])
<1>1. PICK o \in Closure, f \in Frame, n \in Nat : \E L, G : Finishes(w, y, o, f, n, L, G)
  BY FinishPath
<1>2. PICK L, G : Finishes(w, y, o, f, n, L, G)
  BY <1>1
<1>3. o = cl[y].call_parent
  BY <1>2 DEF Finishes
<1>4. FinishedSites(y, o)
  BY <1>3, FParts, NewFrameFinished
<1>5. /\ Closure \subseteq Closure' /\ NULL \notin Closure'
      /\ \A e \in Closure' : e \in Closure \/ \E i \in 1..n : e = L[i]
      /\ \A i \in 1..n + 1 : cl'[L[i]].spawn_parent = NULL
      /\ \A e \in Closure : cl'[e].spawn_parent = cl[e].spawn_parent
  BY <1>2, FinishedClosures
<1>6. \A p \in Closure : Kids(p)' = Kids(p)
  BY <1>2, FinishedTree
<1>7. ASSUME NEW p \in Closure' \ Closure  PROVE Kids(p)' = {}
  <2>1. ASSUME NEW e \in Closure'  PROVE cl'[e].spawn_parent # p
    <3>1. CASE e \in Closure
      BY <1>5, <3>1, FParts DEF TypedTree
    <3>2. CASE \E i \in 1..n : e = L[i]
      <4>1. PICK i \in 1..n : e = L[i]
        BY <3>2
      <4>. QED  BY <1>5, <4>1
    <3>. QED  BY <1>5, <3>1, <3>2
  <2>. QED  BY <2>1 DEF Kids
<1>8. \A p \in Closure' \ Closure : cl'[p].right_most_child = NULL
  BY <1>4 DEF FinishedSites, Sites
<1>9. \A d \in Closure : KeepsSites(cl'[d], cl[d])
  BY <1>4 DEF FinishedSites
<1>. QED  BY <1>5, <1>6, <1>7, <1>8, <1>9

LEMMA FinishSiblings ==
  ASSUME FInv, SibInv, NEW w \in Worker, NEW y \in Closure, FinishPromote(w, y)
  PROVE  SibInv'
<1>1. CASE fr[cl[y].frame].stolen
  BY <1>1, WriteQuiet, QuietSiblings
<1>2. CASE ~fr[cl[y].frame].stolen
  BY <1>2, FinishedTreeSites, SiblingsStay DEF KeepsSites, Sites
<1>. QED  BY <1>1, <1>2

(* Initially there is one closure, of the root.                               *)
LEMMA InitTree ==
  ASSUME Init
  PROVE  /\ Closure = {1} /\ Sites(cl[1], NULL, NULL, NULL, 1, NULL, NULL)
         /\ cl[1].frame = Root /\ cl[1].spawn_parent = NULL /\ cl[1].call_parent = NULL
         /\ cl[1].status = "READY" /\ ~cl[1].has_cilk_callee
<1>. DEFINE r == Closure_init("READY")
            q == [r EXCEPT !.frame = Root, !.fiber = 1]
<1>1. /\ Sites(q, NULL, NULL, NULL, 1, NULL, NULL) /\ q.frame = Root /\ q.spawn_parent = NULL
      /\ q.call_parent = NULL /\ q.status = "READY" /\ ~q.has_cilk_callee
  <2>1. r = [mutex |-> NULL, frame |-> NULL, fiber |-> NULL, fiber_child |-> NULL,
             join_counter |-> 0, orig_rsp |-> NULL, status |-> "READY",
             has_cilk_callee |-> FALSE, callee |-> NULL, call_parent |-> NULL,
             spawn_parent |-> NULL, left_sib |-> NULL, right_sib |-> NULL,
             right_most_child |-> NULL]
    BY DEF Closure_init
  <2>. HIDE DEF r
  <2>. QED  BY <2>1 DEF Sites
<1>2. cl = <<q>>
  BY DEF Init
<1>. HIDE DEF q
<1>3. Closure = {1} /\ cl[1] = q
  BY <1>2 DEF Closure
<1>. QED  BY <1>1, <1>3

LEMMA InitSiblings == Init => SibInv
<1>. SUFFICES ASSUME Init  PROVE SibInv
  OBVIOUS
<1>1. /\ Closure = {1} /\ cl[1].spawn_parent = NULL /\ cl[1].right_most_child = NULL
  BY InitTree DEF Sites
<1>2. Kids(1) = {}
  BY <1>1, WorkerAssumption DEF Kids
<1>. QED  BY <1>1, <1>2 DEF SibInv, GreatestOf

LEMMA SiblingsKept ==
  ASSUME FInv, SibInv, [Next]_vars
  PROVE  SibInv'
<1>0. ASSUME cl' = cl, \A v \in Worker : Hand(v)' = Hand(v)  PROVE SibInv'
  BY <1>0, NothingWritten, QuietSiblings
<1>1. ASSUME NEW w \in Worker, UserQuiet(w) \/ RuntimeQuiet(w) \/ UNCHANGED vars  PROVE SibInv'
  BY <1>0, <1>1, StaysPut, HandsStay
<1>2. ASSUME NEW w \in Worker, HandQuiet(w)  PROVE SibInv'
  BY <1>0, <1>2, HandMoves
<1>3. ASSUME NEW w \in Worker, Acquire(w)  PROVE SibInv'
  <2>1. CASE \E f \in Frame : SlowSync(w, f) \/ ReturnFullFrame(w, f) \/ EnterHandler(w, f)
    BY <1>1, <1>2, <2>1, Zenon DEF UserQuiet, HandQuiet
  <2>2. CASE \E c \in Closure : SyncNotReady(w, c) \/ SyncReady(w, c) \/ Handler(w, c)
    BY <2>2, SyncSiblings, WriteQuiet, QuietSiblings
  <2>3. CASE \E c \in Closure : SetReturnChild(w, c) \/ ReturnChild(w, c)
    BY <2>3, WriteQuiet, QuietSiblings
  <2>4. CASE \E c \in Closure : Execute(w, c) \/ PushAndRun(w, c)
    <3>1. CASE \E c \in Closure : Execute(w, c)
      BY <3>1, WriteQuiet, QuietSiblings
    <3>2. CASE \E c \in Closure : PushAndRun(w, c)
      BY <1>2, <3>2, Zenon DEF HandQuiet
    <3>. QED  BY <2>4, <3>1, <3>2
  <2>5. CASE \E c \in Closure : \E p \in Closure : SetReturnParent(w, c, p) \/ ReturnParent(w, c, p)
    BY <2>5, CalledReturnsSiblings, ReturnSiblings
  <2>6. CASE Extract(w)
    BY <1>2, <2>6 DEF HandQuiet
  <2>. QED  BY <1>3, <2>1, <2>2, <2>3, <2>4, <2>5, <2>6, Zenon DEF Acquire
<1>4. ASSUME NEW w \in Worker, Proceed(w)  PROVE SibInv'
  <2>1. CASE \E f \in Frame : \/ Spawn(w, f) \/ Call(w, f) \/ FastSync(w, f)
                              \/ ReturnToCaller(w, f) \/ PopParent(w, f)
    BY <1>1, <2>1, Zenon DEF UserQuiet
  <2>2. CASE FinishRoot(w) \/ BackToRuntime(w) \/ HaveWork(w) \/ Exit(w)
    BY <1>1, <2>2, Zenon DEF UserQuiet, RuntimeQuiet
  <2>3. CASE \E v \in Worker : GiveUp(w, v) \/ ReleaseVictim(w, v)
    BY <1>1, <2>3, Zenon DEF RuntimeQuiet
  <2>4. CASE \E v \in Worker : \E c \in Closure : Promote(w, v, c)
    BY <2>4, PromoteSiblings
  <2>5. CASE \E y \in Closure : FinishPromote(w, y)
    BY <2>5, FinishSiblings
  <2>. QED  BY <1>4, <2>1, <2>2, <2>3, <2>4, <2>5, Zenon DEF Proceed
<1>5. ASSUME NEW w \in Worker, Steal(w)  PROVE SibInv'
  BY <1>1, <1>5, Zenon DEF Steal, RuntimeQuiet
<1>6. CASE UNCHANGED vars
  BY <1>1, <1>6, WorkerAssumption
<1>. QED  BY <1>3, <1>4, <1>5, <1>6, Zenon DEF Next, Terminated

LEMMA SiblingsInvariant == Spec => [](FInv /\ SibInv)
<1>1. Init => FInv /\ SibInv
  BY FInitHolds, InitSiblings
<1>2. FInv /\ SibInv /\ [Next]_vars => FInv' /\ SibInv'
  BY FNextKeeps, SiblingsKept
<1>. QED  BY <1>1, <1>2, PTL DEF Spec

LEMMA GreatestIsMax ==
  ASSUME NEW S, S \subseteq Nat, NEW x
  PROVE  /\ GreatestOf(x, S) => x = IF S = {} THEN NULL ELSE Max(S)
         /\ LeastOf(x, S) => x = IF S = {} THEN NULL ELSE Min(S)
<1>1. ASSUME S # {}, GreatestOf(x, S)  PROVE x = Max(S)
  <2>1. x \in S /\ \A y \in S : x >= y
    BY <1>1 DEF GreatestOf
  <2>2. \A z \in S : (\A y \in S : z >= y) => z = x
    BY <2>1
  <2>. QED  BY <2>1, <2>2 DEF Max
<1>2. ASSUME S # {}, LeastOf(x, S)  PROVE x = Min(S)
  <2>1. x \in S /\ \A y \in S : x =< y
    BY <1>2 DEF LeastOf
  <2>2. \A z \in S : (\A y \in S : z =< y) => z = x
    BY <2>1
  <2>. QED  BY <2>1, <2>2 DEF Min
<1>. QED  BY <1>1, <1>2 DEF GreatestOf, LeastOf

LEMMA Counted ==
  ASSUME FInv, SibInv
  PROVE  ChildrenCounted
<1>1. IInv /\ Closure \subseteq Nat /\ \A p \in Closure : cl[p].join_counter = Cardinality(Kids(p))
  BY FParts DEF FInv, CountInv
<1>2. ASSUME NEW p \in Closure
      PROVE  /\ Children(p) = Kids(p) /\ Children(p) \subseteq Nat
             /\ cl[p].join_counter = Cardinality(Children(p))
             /\ cl[p].right_most_child = IF Children(p) = {} THEN NULL ELSE Max(Children(p))
             /\ \A c \in Children(p) :
                  /\ cl[c].left_sib = IF Older(c, Children(p)) = {} THEN NULL ELSE Max(Older(c, Children(p)))
                  /\ cl[c].right_sib = IF Younger(c, Children(p)) = {} THEN NULL ELSE Min(Younger(c, Children(p)))
  <2>1. Children(p) = Kids(p)
    BY <1>1, HoldersAre DEF Children, Kids
  <2>2. Kids(p) \subseteq Nat
    BY <1>1 DEF Kids
  <2>3. cl[p].right_most_child = IF Kids(p) = {} THEN NULL ELSE Max(Kids(p))
    BY <2>2, GreatestIsMax DEF SibInv
  <2>4. ASSUME NEW c \in Kids(p)
        PROVE  /\ cl[c].left_sib = IF Older(c, Kids(p)) = {} THEN NULL ELSE Max(Older(c, Kids(p)))
               /\ cl[c].right_sib = IF Younger(c, Kids(p)) = {} THEN NULL ELSE Min(Younger(c, Kids(p)))
    <3>1. GreatestOf(cl[c].left_sib, Older(c, Kids(p))) /\ LeastOf(cl[c].right_sib, Younger(c, Kids(p)))
      BY DEF SibInv
    <3>2. Older(c, Kids(p)) \subseteq Nat /\ Younger(c, Kids(p)) \subseteq Nat
      BY <2>2 DEF Older, Younger
    <3>. QED  BY <3>1, <3>2, GreatestIsMax
  <2>. QED  BY <1>1, <2>1, <2>2, <2>3, <2>4
<1>. QED  BY <1>2, Zenon DEF ChildrenCounted, Older, Younger

(* The join counter of a closure and the list of its children are those of    *)
(* its spawned children that have not returned (ChildrenCounted).             *)
THEOREM ChildrenAlwaysCounted == Spec => []ChildrenCounted
<1>1. FInv /\ SibInv => ChildrenCounted
  BY Counted
<1>. QED  BY <1>1, SiblingsInvariant, PTL

-----------------------------------------------------------------------------
(* Where frames are in their bodies: one has spawned since it synced last.    *)
Spawning(f) ==
  \E i \in 1..Len(Body[f]) : /\ i < fr[f].at /\ Body[f][i] \in Helper
                             /\ \A j \in i + 1..Len(Body[f]) : j < fr[f].at => Body[f][j] # SYNC
Thief(w) == pc[w] \in {"promoted", "finish"}

(* A frame that must sync, or that is being stolen, has spawned; one that was *)
(* resumed at its sync has synced.                                            *)
PosInv ==
  /\ \A f \in Frame : fr[f].unsynced => Spawning(f)
  /\ \A w \in Worker : /\ Thief(w) => Spawning(cl[t[w]].frame)
                       /\ good[w] => ~fr[cl[t[w]].frame].unsynced

(* A body ends with no spawn left to be synced.                               *)
LEMMA SyncedAtEnd ==
  ASSUME NEW f \in Frame, fr[f].at >= End(f), fr[f].at \in Nat
  PROVE  ~Spawning(f)
<1>. SUFFICES ASSUME NEW i \in 1..Len(Body[f]), Body[f][i] \in Helper,
                     \A j \in i + 1..Len(Body[f]) : j < fr[f].at => Body[f][j] # SYNC
              PROVE  FALSE
  BY DEF Spawning
<1>1. PICK j \in i + 1..Len(Body[f]) : Body[f][j] = SYNC
  BY ProgramAssumption
<1>2. End(f) = Len(Body[f]) + 1 /\ Len(Body[f]) \in Nat
  BY BodyFacts
<1>. QED  BY <1>1, <1>2

LEMMA SameSpawning ==
  ASSUME NEW f, fr'[f].at = fr[f].at
  PROVE  Spawning(f)' <=> Spawning(f)
BY DEF Spawning

LEMMA PosKept ==
  ASSUME FInv, PosInv,
         \A h \in Frame : fr'[h].unsynced => fr[h].unsynced \/ \E v \in Worker : Thief(v) /\ cl[t[v]].frame = h,
         \A h \in Frame : fr'[h].at = fr[h].at \/ (fr'[h].unsynced => Spawning(h)'),
         \A v \in Worker : Thief(v)' => \/ Spawning(cl[t[v]].frame)'
                                        \/ /\ Thief(v) /\ t'[v] = t[v] /\ cl'[t[v]].frame = cl[t[v]].frame
                                           /\ fr'[cl[t[v]].frame].at = fr[cl[t[v]].frame].at,
         \A v \in Worker : good'[v] => \/ ~fr'[cl'[t'[v]].frame].unsynced
                                       \/ good[v] /\ t'[v] = t[v] /\ cl'[t[v]].frame = cl[t[v]].frame
  PROVE  PosInv'
<1>1. ASSUME NEW h \in Frame, fr'[h].unsynced  PROVE Spawning(h)'
  <2>1. CASE fr'[h].at = fr[h].at
    BY <1>1, <2>1, SameSpawning DEF PosInv
  <2>. QED  BY <1>1, <2>1
<1>2. ASSUME NEW v \in Worker, Thief(v)'  PROVE Spawning(cl[t[v]].frame)'
  <2>1. CASE /\ Thief(v) /\ t'[v] = t[v] /\ cl'[t[v]].frame = cl[t[v]].frame
             /\ fr'[cl[t[v]].frame].at = fr[cl[t[v]].frame].at
    BY <2>1, SameSpawning DEF PosInv
  <2>. QED  BY <1>2, <2>1
<1>3. ASSUME NEW v \in Worker, good'[v]  PROVE ~fr'[cl'[t'[v]].frame].unsynced
  <2>. SUFFICES ASSUME good[v], t'[v] = t[v], cl'[t[v]].frame = cl[t[v]].frame, fr'[cl[t[v]].frame].unsynced
                PROVE  FALSE
    BY <1>3
  <2>1. t[v] \in Closure /\ cl[t[v]].frame \in Frame /\ ~fr[cl[t[v]].frame].unsynced /\ ~Thief(v) /\ Hand(v) = t[v]
    BY GoodParked, FParts DEF PosInv, StageInv, Thief
  <2>2. PICK u \in Worker : Thief(u) /\ cl[t[u]].frame = cl[t[v]].frame
    BY <2>1
  <2>3. t[u] \in Closure /\ Hand(u) = t[u] /\ cl[t[u]].frame # NULL
    BY <2>2, ThiefParked, Kinds DEF Thief
  <2>4. t[u] = t[v]
    BY <2>1, <2>2, <2>3 DEF FInv, OneClosure
  <2>5. OneHand /\ NULL \notin Closure
    BY FParts DEF IInv
  <2>. QED  BY <2>1, <2>2, <2>3, <2>4, <2>5 DEF OneHand
<1>5. PosInv' <=> /\ \A f \in Frame : fr'[f].unsynced => Spawning(f)'
                  /\ \A w \in Worker : /\ Thief(w)' => Spawning(cl[t[w]].frame)'
                                       /\ good'[w] => ~fr'[cl'[t'[w]].frame].unsynced
  BY DEF PosInv
<1>. QED  BY <1>1, <1>2, <1>3, <1>5
(* A step that moves no frame, marks none as unsynced and makes no thief.     *)
LEMMA PosStays ==
  ASSUME FInv, PosInv, NEW w \in Worker, Closure' = Closure,
         \A c \in Closure : cl'[c].frame = cl[c].frame,
         \A h \in Frame : fr'[h].at = fr[h].at /\ (fr'[h].unsynced => fr[h].unsynced),
         \A v \in Worker \ {w} : pc'[v] = pc[v] /\ t'[v] = t[v] /\ good'[v] = good[v],
         Thief(w)' => Thief(w) /\ t'[w] = t[w],
         good'[w] => \/ ~fr'[cl'[t'[w]].frame].unsynced
                     \/ good[w] /\ t'[w] = t[w]
  PROVE  PosInv'
<1>1. ASSUME NEW v \in Worker, Thief(v)'
      PROVE  /\ Thief(v) /\ t'[v] = t[v] /\ cl'[t[v]].frame = cl[t[v]].frame
             /\ fr'[cl[t[v]].frame].at = fr[cl[t[v]].frame].at
  <2>1. Thief(v) /\ t'[v] = t[v]
    BY <1>1 DEF Thief
  <2>2. t[v] \in Closure /\ cl[t[v]].frame \in Frame
    BY <2>1, ThiefParked DEF Thief
  <2>. QED  BY <2>1, <2>2
<1>2. ASSUME NEW v \in Worker, good'[v]
      PROVE  \/ ~fr'[cl'[t'[v]].frame].unsynced
             \/ good[v] /\ t'[v] = t[v] /\ cl'[t[v]].frame = cl[t[v]].frame
  <2>1. \/ ~fr'[cl'[t'[v]].frame].unsynced
        \/ good[v] /\ t'[v] = t[v]
    BY <1>2
  <2>2. good[v] => t[v] \in Closure
    BY GoodParked
  <2>. QED  BY <2>1, <2>2
<1>. QED  BY <1>1, <1>2, PosKept

(* What the steps of the runtime do to frames, and to what a worker that is   *)
(* stealing or has a good steal holds.                                        *)
PosQuiet(w) ==
  \/ \E f \in Frame : SlowSync(w, f)
  \/ \E c \in Closure : Handler(w, c) \/ SetReturnChild(w, c) \/ Execute(w, c) \/ ReturnChild(w, c)
  \/ \E c, p \in Closure : SetReturnParent(w, c, p)
  \/ \E c \in Closure : SyncNotReady(w, c)
  \/ Extract(w) \/ RuntimeQuiet(w)
LEMMA PosFrames ==
  ASSUME FInv, NEW w \in Worker, PosQuiet(w)
  PROVE  /\ \A h \in Frame : fr'[h].at = fr[h].at /\ (fr'[h].unsynced => fr[h].unsynced)
         /\ \A v \in Worker \ {w} : pc'[v] = pc[v] /\ t'[v] = t[v]
         /\ good' = good
         /\ Thief(w)' => Thief(w) /\ t'[w] = t[w]
         /\ good[w] => t'[w] = t[w]
<1>1. /\ fr \in [Frame -> FrameRecord] /\ pc \in [Worker -> PC] /\ t \in [Worker -> Closure \union {NULL}]
      /\ \A c \in Closure : cl[c].frame # NULL => cl[c].frame \in Frame
      /\ \A v \in Worker : good[v] => pc[v] \in {"loop", "do", "push", "exit"} /\ t[v] # NULL
  BY FParts, FrameOfClosure DEF Typed, TypedRun, TypedRuntime, StageInv
<1>2. CASE \E f \in Frame : SlowSync(w, f)
  BY <1>1, <1>2 DEF SlowSync, Goto, Thief
<1>3. CASE \E c \in Closure : Handler(w, c) \/ SetReturnChild(w, c) \/ ReturnChild(w, c)
  BY <1>1, <1>3 DEF Handler, SetReturnChild, ReturnChild, runVars, Goto, Thief
<1>4. CASE \E c \in Closure : Execute(w, c)
  BY <1>1, <1>4 DEF Execute, Goto, Thief
<1>5. CASE \E c, p \in Closure : SetReturnParent(w, c, p)
  <2>1. PICK c \in Closure, p \in Closure : SetReturnParent(w, c, p)
    BY <1>5
  <2>2. /\ fr'[cur[w]] = [fr[cur[w]] EXCEPT !.worker = w] /\ cur[w] \in Frame
        /\ \A h \in Frame \ {cur[w]} : fr'[h] = fr[h]
        /\ pc[w] = "set_return_parent" /\ pc'[w] = "user" /\ good' = good
    <3>1. ResumesCaller(w, c, p)
      BY <2>1, CalledReturns
    <3>. QED  BY <3>1 DEF ResumesCaller
  <2>3. fr'[cur[w]].at = fr[cur[w]].at /\ fr'[cur[w]].unsynced = fr[cur[w]].unsynced
    BY <1>1, <2>2 DEF FrameRecord
  <2>4. \A v \in Worker \ {w} : pc'[v] = pc[v] /\ t'[v] = t[v]
    BY <1>1, <2>1 DEF SetReturnParent, Goto
  <2>. QED  BY <1>1, <2>2, <2>3, <2>4 DEF Thief
<1>6. CASE \E c \in Closure : SyncNotReady(w, c)
  BY <1>1, <1>6 DEF SyncNotReady, Goto, Thief
<1>7. CASE Extract(w)
  BY <1>1, <1>7 DEF Extract, runVars, Goto, Thief, At
<1>8. CASE RuntimeQuiet(w)
  BY <1>1, <1>8 DEF RuntimeQuiet, BackToRuntime, HaveWork, Exit, TryVictim, GiveUp, ReleaseVictim,
                    treeVars, runVars, Goto, Thief, At
<1>. QED  BY <1>2, <1>3, <1>4, <1>5, <1>6, <1>7, <1>8 DEF PosQuiet

LEMMA PosQuietKeeps ==
  ASSUME FInv, PosInv, NEW w \in Worker, PosQuiet(w)
  PROVE  PosInv'
<1>1. Closure' = Closure /\ \A c \in Closure : cl'[c].frame = cl[c].frame
  <2>1. CASE \E f \in Frame : SlowSync(w, f)
    BY <2>1 DEF SlowSync, Closure
  <2>2. CASE \E c \in Closure : Handler(w, c) \/ SetReturnChild(w, c) \/ Execute(w, c) \/ ReturnChild(w, c)
    <3>1. QuietTree
      BY <2>2, WriteQuiet
    <3>. QED  BY <3>1 DEF QuietTree, SameSites
  <2>3. CASE \E c, p \in Closure : SetReturnParent(w, c, p)
    <3>1. \E c, p \in Closure : ResumesCaller(w, c, p)
      BY <2>3, CalledReturns
    <3>2. Closure' = Closure /\ \A c \in Closure : SameSites(cl'[c], cl[c])
      BY <3>1 DEF ResumesCaller
    <3>. QED  BY <3>2 DEF SameSites
  <2>4. CASE \E c \in Closure : SyncNotReady(w, c)
    BY <2>4, SyncTree
  <2>5. CASE Extract(w) \/ RuntimeQuiet(w)
    <3>1. cl' = cl
      BY <2>5, HandMoves, StaysPut DEF HandQuiet
    <3>. QED  BY <3>1 DEF Closure
  <2>. QED  BY <2>1, <2>2, <2>3, <2>4, <2>5 DEF PosQuiet
<1>. QED  BY <1>1, PosFrames, PosStays
(* A frame goes on past a sync or to its end, with no spawn left to sync.     *)
LEMMA PosAdvances ==
  ASSUME FInv, PosInv, NEW f \in Frame, Closure' = Closure, \A c \in Closure : cl'[c].frame = cl[c].frame,
         \A h \in Frame \ {f} : fr'[h].at = fr[h].at /\ (fr'[h].unsynced => fr[h].unsynced),
         ~fr'[f].unsynced,
         \A v \in Worker : Thief(v)' => Thief(v) /\ t'[v] = t[v],
         \A v \in Worker : Thief(v) => cl[t[v]].frame # f,
         \A v \in Worker : good'[v] => good[v] /\ t'[v] = t[v]
  PROVE  PosInv'
<1>1. ASSUME NEW v \in Worker, Thief(v)'
      PROVE  /\ Thief(v) /\ t'[v] = t[v] /\ cl'[t[v]].frame = cl[t[v]].frame
             /\ fr'[cl[t[v]].frame].at = fr[cl[t[v]].frame].at
  <2>1. Thief(v) /\ t'[v] = t[v]
    BY <1>1
  <2>2. t[v] \in Closure /\ cl[t[v]].frame \in Frame
    BY <2>1, ThiefParked DEF Thief
  <2>. QED  BY <2>1, <2>2
<1>2. ASSUME NEW v \in Worker, good'[v]
      PROVE  good[v] /\ t'[v] = t[v] /\ cl'[t[v]].frame = cl[t[v]].frame
  BY <1>2, GoodParked
<1>. QED  BY <1>1, <1>2, PosKept

(* The frame of a thief is nobody's in user code.                             *)
LEMMA ThiefApart ==
  ASSUME FInv, NEW w \in Worker, NEW f \in Held(w), NEW v \in Worker, Thief(v)
  PROVE  cl[t[v]].frame # f
BY ThiefParked, FParts DEF TipInv, Thief

(* A frame that must sync enters another.                                     *)
LEMMA PosEnters ==
  ASSUME FInv, PosInv, NEW w \in Worker, UserOnly(w), NEW f \in Held(w), NEW g \in Frame, Enters(f, g), f \in Frame
  PROVE  PosInv'
<1>1. /\ AtInv /\ IInv /\ UnsyncedInv /\ g # f /\ fr[g].at = 0 /\ fr[f].at \in Nat /\ fr'[f].at = fr[f].at + 1
      /\ fr[f].at \in 1..Len(Body[f]) /\ Body[f][fr[f].at] = g /\ SYNC \notin Frame
  <2>1. Running(f) /\ fr[f].at # 0
    BY FParts, AtFacts DEF Enters, Active
  <2>. QED  BY <2>1, FParts, EnterAt, NextFrame, AtFacts, Kinds DEF Enters
<1>2. \A h \in Frame : (fr'[h].unsynced => fr[h].unsynced) /\ (h \notin {f, g} => fr'[h].at = fr[h].at) /\ ~fr'[g].unsynced
  BY DEF Enters
<1>3. Spawning(f) => Spawning(f)'
  <2>. SUFFICES ASSUME NEW i \in 1..Len(Body[f]), i < fr[f].at, Body[f][i] \in Helper,
                       \A j \in i + 1..Len(Body[f]) : j < fr[f].at => Body[f][j] # SYNC
                PROVE  \A j \in i + 1..Len(Body[f]) : j < fr'[f].at => Body[f][j] # SYNC
    BY <1>1 DEF Spawning
  <2>. TAKE j \in i + 1..Len(Body[f])
  <2>1. Len(Body[f]) \in Nat /\ g # SYNC
    BY <1>1, BodyFacts
  <2>2. CASE j = fr[f].at
    BY <1>1, <2>1, <2>2
  <2>3. CASE j # fr[f].at
    BY <1>1, <2>1, <2>3
  <2>. QED  BY <2>2, <2>3
<1>4. \A h \in Frame : fr'[h].at = fr[h].at \/ (fr'[h].unsynced => Spawning(h)')
  <2>. TAKE h \in Frame
  <2>1. CASE h = f
    BY <1>2, <1>3, <2>1 DEF PosInv
  <2>. QED  BY <1>2, <2>1
<1>5. ASSUME NEW v \in Worker, Thief(v)'
      PROVE  /\ Thief(v) /\ t'[v] = t[v] /\ cl'[t[v]].frame = cl[t[v]].frame
             /\ fr'[cl[t[v]].frame].at = fr[cl[t[v]].frame].at
  <2>1. Thief(v) /\ t'[v] = t[v] /\ cl' = cl
    BY <1>5 DEF UserOnly, Thief
  <2>2. cl[t[v]].frame # f /\ cl[t[v]].frame \in Frame /\ fr[cl[t[v]].frame].at # 0
    BY <2>1, ThiefApart, ThiefParked DEF Thief
  <2>. QED  BY <1>1, <1>2, <2>1, <2>2
<1>6. ASSUME NEW v \in Worker, good'[v]
      PROVE  good[v] /\ t'[v] = t[v] /\ cl'[t[v]].frame = cl[t[v]].frame
  BY <1>6 DEF UserOnly
<1>. QED  BY <1>2, <1>4, <1>5, <1>6, PosKept

LEMMA PosUser ==
  ASSUME FInv, IInv', PosInv, NEW w \in Worker, NEW f \in Frame,
         \/ Spawn(w, f) \/ Call(w, f) \/ FastSync(w, f) \/ ReturnToCaller(w, f) \/ ReturnFullFrame(w, f)
         \/ PopParent(w, f) \/ EnterHandler(w, f)
  PROVE  PosInv'
<1>0. pc \in [Worker -> PC] /\ cur \in [Worker -> Frame \union {NULL}] /\ ltq \in [Worker -> Seq(Frame)] /\ Typed
      /\ t \in [Worker -> Closure \union {NULL}]
  BY FParts DEF Typed, TypedRuntime, TypedRun
<1>1. CASE Spawn(w, f) \/ Call(w, f)
  <2>1. PICK g \in Frame : Enters(f, g)
    BY <1>1, SpawnEnters, CallEnters, Kinds
  <2>2. f \in Held(w)
    BY <1>1, UserFrame DEF Spawn, Call
  <2>3. UserOnly(w)
    BY <1>0, <1>1 DEF Spawn, Call, UserOnly, InUser, At, treeVars
  <2>. QED  BY <2>1, <2>2, <2>3, PosEnters
<1>2. CASE ~(Spawn(w, f) \/ Call(w, f))
  <2>1. InUser(w, f) /\ f \in Held(w)
    BY <1>2, UserFrame DEF FastSync, ReturnToCaller, ReturnFullFrame, PopParent, EnterHandler, Leave
  <2>2. Advances(f) /\ fr'[f].unsynced = fr[f].unsynced /\ ~fr[f].unsynced
    <3>1. CASE FastSync(w, f)
      BY <3>1, FastSyncAdvances DEF FastSync
    <3>2. CASE ~FastSync(w, f)
      <4>1. Leave(w, f)
        BY <1>2, <3>2 DEF ReturnToCaller, ReturnFullFrame, PopParent, EnterHandler
      <4>2. fr[f].at = End(f) /\ fr[f].at \in Nat
        BY <1>0, <4>1, AtFacts DEF Leave
      <4>. QED  BY <4>1, <4>2, LeaveIs, SyncedAtEnd, BodyFacts DEF PosInv
    <3>. QED  BY <3>1, <3>2
  <2>3. cl' = cl /\ good' = good /\ \A v \in Worker \ {w} : t'[v] = t[v]
    BY <1>0, <1>2 DEF FastSync, ReturnToCaller, ReturnFullFrame, PopParent, EnterHandler, treeVars
  <2>4. pc[w] = "user" /\ ~Thief(w)' /\ \A v \in Worker : Thief(v)' => Thief(v)
    BY <1>0, <1>2, <2>1 DEF FastSync, ReturnToCaller, ReturnFullFrame, PopParent, EnterHandler, InUser, At, Goto, Thief
  <2>5. ~good[w]
    BY <2>1, UserFrame
  <2>6. Closure' = Closure
    BY <2>3 DEF Closure
  <2>7. \A v \in Worker : Thief(v) => cl[t[v]].frame # f
    BY <2>1, ThiefApart
  <2>8. \A h \in Frame \ {f} : fr'[h].at = fr[h].at /\ (fr'[h].unsynced => fr[h].unsynced)
    BY <2>2 DEF Advances
  <2>. QED  BY <2>2, <2>3, <2>4, <2>5, <2>6, <2>7, <2>8, PosAdvances
<1>. QED  BY <1>1, <1>2
LEMMA PosFinishRoot ==
  ASSUME FInv, PosInv, NEW w \in Worker, FinishRoot(w)
  PROVE  PosInv'
<1>1. fr \in [Frame -> FrameRecord] /\ pc \in [Worker -> PC] /\ Root \in Frame /\ Typed
  BY FParts, Kinds DEF Typed, TypedRun, TypedRuntime
<1>2. fr' = [fr EXCEPT ![Root].at = @ + 1] /\ cl' = cl /\ t' = t /\ good' = good
  BY DEF FinishRoot, treeVars
<1>3. fr'[Root].unsynced = fr[Root].unsynced /\ ~fr[Root].unsynced
  <2>1. fr[Root].at = End(Root) /\ fr[Root].at \in Nat
    BY <1>1, AtFacts DEF FinishRoot
  <2>. QED  BY <1>1, <1>2, <2>1, SyncedAtEnd, BodyFacts DEF PosInv, FrameRecord
<1>4. \A v \in Worker : Thief(v)' => Thief(v)
  BY <1>1 DEF FinishRoot, Goto, Thief
<1>5. \A v \in Worker : Thief(v) => cl[t[v]].frame # Root
  BY <1>1, UserFrame, ThiefApart DEF FinishRoot
<1>6. Closure' = Closure
  BY <1>2 DEF Closure
<1>7. \A h \in Frame \ {Root} : fr'[h] = fr[h]
  BY <1>1, <1>2
<1>. QED  BY <1>1, <1>2, <1>3, <1>4, <1>5, <1>6, <1>7, PosAdvances

(* A sync that succeeds marks the frame as synced.                            *)
LEMMA SyncFrame ==
  ASSUME FInv, NEW w \in Worker, NEW c \in Closure, SyncReady(w, c) \/ SyncNotReady(w, c)
  PROVE  /\ pc[w] = "sync" /\ c = Hand(w) /\ cl[c].frame = cur[w] /\ cur[w] \in Frame /\ fr[cur[w]].unsynced
         /\ fr[cur[w]].stolen /\ ltq[w] = <<>> /\ Tips(w) = <<cur[w]>> /\ cur[w] \in Held(w)
<1>1. pc[w] = "sync" /\ c = Hand(w)
  BY SyncTree DEF SyncReady, SyncNotReady, At
<1>2. fr[cur[w]].unsynced /\ cur[w] \in Frame /\ cur[w] \in Held(w)
  BY <1>1, FParts, UserCover DEF StageInv
<1>3. fr[cur[w]].stolen
  BY <1>2, FParts DEF UnsyncedInv
<1>. QED  BY <1>1, <1>2, <1>3, StolenAlone

LEMMA PosSyncReady ==
  ASSUME FInv, PosInv, NEW w \in Worker, NEW c \in Closure, SyncReady(w, c)
  PROVE  PosInv'
<1>1. fr \in [Frame -> FrameRecord] /\ pc \in [Worker -> PC] /\ cl[c] \in ClosureRecord
  BY FParts, TreeIsSeq DEF Typed, TypedRun, TypedRuntime
<1>2. pc[w] = "sync" /\ cl[c].frame = cur[w] /\ cur[w] \in Frame /\ cur[w] \in Held(w)
  BY SyncFrame
<1>3. fr' = [fr EXCEPT ![cur[w]] = [SyncedFrame(w, cl[c]) EXCEPT !.at = @ + 1]]
  BY <1>2 DEF SyncReady
<1>4. ~fr'[cur[w]].unsynced /\ \A h \in Frame \ {cur[w]} : fr'[h] = fr[h]
  BY <1>1, <1>2, <1>3 DEF SyncedFrame, FrameRecord
<1>5. /\ t' = t /\ good' = good /\ Closure' = Closure /\ \A d \in Closure : cl'[d].frame = cl[d].frame
      /\ \A v \in Worker : Thief(v)' => Thief(v)
  BY <1>1, SyncTree DEF SyncReady, Goto, Thief
<1>6. \A v \in Worker : Thief(v) => cl[t[v]].frame # cur[w]
  BY <1>2, ThiefApart
<1>. QED  BY <1>2, <1>4, <1>5, <1>6, PosAdvances

(* The frame of what a worker is about to run is not stolen by anybody else.  *)
LEMMA PushedApart ==
  ASSUME FInv, NEW w \in Worker, pc[w] = "push"
  PROVE  /\ t[w] \in Closure /\ cl[t[w]].frame \in Frame /\ fr[cl[t[w]].frame].stolen /\ Hand(w) = t[w]
         /\ Parked(t[w])
         /\ \A v \in Worker : Thief(v) => cl[t[v]].frame # cl[t[w]].frame
         /\ \A v \in Worker \ {w} : good[v] => cl[t[v]].frame # cl[t[w]].frame
         /\ \A v \in Worker : cl[t[w]].frame \notin Held(v)
<1>1. t[w] \in Closure /\ cl[t[w]].frame # NULL /\ Hand(w) = t[w] /\ OneHand /\ NULL \notin Closure
      /\ cl[t[w]].status = "RUNNING" /\ cl[t[w]].has_cilk_callee \in BOOLEAN /\ IInv
  BY FParts, HandIs, TreeIsSeq DEF PlaceInv, IInv, Typed, TypedRuntime, ClosureRecord
<1>2. Parked(t[w])
  <2>1. ~cl[t[w]].has_cilk_callee
    BY <1>1 DEF IInv, CallInv
  <2>. QED  BY <1>1, <2>1 DEF Parked
<1>3. cl[t[w]].frame \in Frame /\ fr[cl[t[w]].frame].stolen
  <2>1. ~Entering(t[w])
    <3>. SUFFICES ASSUME NEW v \in Worker, pc[v] \in {"promoted", "finish"}, t[v] = t[w]  PROVE FALSE
      BY DEF Entering
    <3>1. Hand(v) = t[v] /\ v # w
      BY ThiefParked
    <3>. QED  BY <1>1, <3>1 DEF OneHand
  <2>. QED  BY <1>1, <2>1, FrameOfClosure DEF IInv, FrameInv
<1>4. ASSUME NEW v \in Worker, Thief(v) \/ (good[v] /\ v # w)  PROVE cl[t[v]].frame # cl[t[w]].frame
  <2>1. v # w /\ t[v] \in Closure /\ Hand(v) = t[v]
    BY <1>4, ThiefParked, GoodParked DEF Thief
  <2>2. t[v] # t[w]
    BY <1>1, <2>1 DEF OneHand
  <2>. QED  BY <1>1, <2>1, <2>2 DEF FInv, OneClosure
<1>5. \A v \in Worker : cl[t[w]].frame \notin Held(v)
  BY <1>1, <1>2, FParts DEF TipInv
<1>. QED  BY <1>1, <1>2, <1>3, <1>4, <1>5

LEMMA PosPush ==
  ASSUME FInv, PosInv, NEW w \in Worker, NEW c \in Closure, PushAndRun(w, c)
  PROVE  PosInv'
<1>1. /\ fr \in [Frame -> FrameRecord] /\ pc \in [Worker -> PC] /\ t \in [Worker -> Closure \union {NULL}]
      /\ good \in [Worker -> BOOLEAN]
  BY FParts DEF Typed, TypedRun, TypedRuntime
<1>2. pc[w] = "push" /\ c = t[w] /\ cl[c].frame \in Frame /\ \A v \in Worker : Thief(v) => cl[t[v]].frame # cl[c].frame
  BY PushedApart DEF PushAndRun, At
<1>3. /\ cl' = cl /\ good' = [good EXCEPT ![w] = FALSE] /\ t' = [t EXCEPT ![w] = NULL]
      /\ good[w] => fr' = [fr EXCEPT ![cl[c].frame].at = @ + 1]
      /\ ~good[w] => fr' = [fr EXCEPT ![cl[c].frame].sp = cl[c].fiber]
  BY DEF PushAndRun
<1>4. \A v \in Worker : Thief(v)' => Thief(v) /\ v # w /\ t'[v] = t[v]
  BY <1>1, <1>2, <1>3 DEF PushAndRun, Goto, Thief
<1>5. Closure' = Closure
  BY <1>3 DEF Closure
<1>6. \A v \in Worker : good'[v] => good[v] /\ t'[v] = t[v]
  BY <1>1, <1>3
<1>7. CASE good[w]
  <2>1. fr'[cl[c].frame].unsynced = fr[cl[c].frame].unsynced /\ \A h \in Frame \ {cl[c].frame} : fr'[h] = fr[h]
    BY <1>1, <1>2, <1>3, <1>7 DEF FrameRecord
  <2>2. ~fr[cl[c].frame].unsynced
    BY <1>2, <1>7 DEF PosInv
  <2>. QED  BY <1>2, <1>3, <1>4, <1>5, <1>6, <2>1, <2>2, PosAdvances
<1>8. CASE ~good[w]
  <2>1. \A h \in Frame : fr'[h].at = fr[h].at /\ fr'[h].unsynced = fr[h].unsynced
    BY <1>1, <1>2, <1>3, <1>8 DEF FrameRecord
  <2>2. \A v \in Worker \ {w} : pc'[v] = pc[v] /\ t'[v] = t[v] /\ good'[v] = good[v]
    BY <1>1, <1>3 DEF PushAndRun, Goto
  <2>. QED  BY <1>3, <1>4, <1>5, <1>6, <2>1, <2>2, PosStays
<1>. QED  BY <1>7, <1>8

LEMMA PosBack ==
  ASSUME FInv, PosInv, NEW w \in Worker, NEW c \in Closure, NEW p \in Closure, ReturnParent(w, c, p)
  PROVE  PosInv'
<1>1. GivesBack(w, c, p) /\ t \in [Worker -> Closure \union {NULL}] /\ good \in [Worker -> BOOLEAN]
  BY ChildBack, FParts DEF Typed, TypedRuntime
<1>2. /\ Closure' = Closure /\ \A d \in Closure : cl'[d].frame = cl[d].frame
      /\ pc'[w] = "loop" /\ \A v \in Worker \ {w} : pc'[v] = pc[v] /\ t'[v] = t[v] /\ good'[v] = good[v]
      /\ good'[w] => t'[w] = p /\ ~fr'[cl[p].frame].unsynced
  BY <1>1 DEF GivesBack, Idles
<1>3. \A h \in Frame : fr'[h].at = fr[h].at /\ (fr'[h].unsynced => fr[h].unsynced)
  <2>1. /\ \A h \in Frame : fr'[h].at = fr[h].at
        /\ \A h \in Frame : h # cl[p].frame \/ ~IsGoodSteal(p) => fr'[h].unsynced = fr[h].unsynced
        /\ IsGoodSteal(p) => ~fr'[cl[p].frame].unsynced
    BY <1>1 DEF GivesBack
  <2>. QED  BY <2>1
<1>4. ~Thief(w)'
  BY <1>2 DEF Thief
<1>. QED  BY <1>2, <1>3, <1>4, PosStays
(* A frame that is stolen has just spawned.                                   *)
LEMMA PosTaken ==
  ASSUME FInv, PosInv, NEW w \in Worker, NEW v \in Worker, NEW c \in Closure, NEW x \in Nat, NEW d \in Nat,
         NEW f \in Frame, Takes(w, v, c, x, d, f)
  PROVE  PosInv'
<1>1. Spawning(f)
  <2>1. Oldest(Tips(v)[2]) \in Helper /\ Active(f) /\ Tips(v)[1] = f /\ Len(Tips(v)) > 1 /\ Len(Tips(v)) \in Nat
    BY TakenTips, TakenFrame
  <2>2. fr[f].at > 1 /\ Prev(f) = Oldest(Tips(v)[2])
    BY <2>1, FParts DEF ChainInv
  <2>3. fr[f].at \in Nat /\ fr[f].at <= End(f) /\ End(f) = Len(Body[f]) + 1 /\ Len(Body[f]) \in Nat
    BY <2>1, FParts, AtFacts, BodyFacts DEF Active, Running
  <2>4. fr[f].at - 1 \in 1..Len(Body[f]) /\ Body[f][fr[f].at - 1] \in Helper
    BY <2>1, <2>2, <2>3 DEF Prev
  <2>5. \A j \in (fr[f].at - 1) + 1..Len(Body[f]) : ~(j < fr[f].at)
    BY <2>3
  <2>. QED  BY <2>3, <2>4, <2>5 DEF Spawning
<1>2. fr' = fr /\ good' = good /\ t'[w] = x /\ cl'[x].frame = f /\ pc[w] = "steal" /\ pc[v] = "user" /\ pc'[v] = "user"
      /\ \A e \in Closure : cl'[e].frame = cl[e].frame
      /\ \A u \in Worker \ {v, w} : pc'[u] = pc[u] /\ t'[u] = t[u]
  BY DEF Takes, Idles
<1>3. ASSUME NEW u \in Worker, Thief(u)'
      PROVE  \/ Spawning(cl[t[u]].frame)'
             \/ /\ Thief(u) /\ t'[u] = t[u] /\ cl'[t[u]].frame = cl[t[u]].frame
                /\ fr'[cl[t[u]].frame].at = fr[cl[t[u]].frame].at
  <2>1. CASE u = w
    BY <1>1, <1>2, <2>1 DEF Spawning
  <2>2. CASE u = v
    BY <1>2, <1>3, <2>2 DEF Thief
  <2>3. CASE u \notin {v, w}
    <3>1. Thief(u) /\ t'[u] = t[u]
      BY <1>2, <1>3, <2>3 DEF Thief
    <3>. QED  BY <1>2, <3>1, ThiefParked DEF Thief
  <2>. QED  BY <2>1, <2>2, <2>3
<1>4. ASSUME NEW u \in Worker, good'[u]
      PROVE  good[u] /\ t'[u] = t[u] /\ cl'[t[u]].frame = cl[t[u]].frame
  <2>1. good[u] /\ u \notin {v, w}
    BY <1>2, <1>4, NotGood
  <2>. QED  BY <1>2, <2>1, GoodParked
<1>. QED  BY <1>2, <1>3, <1>4, PosKept

(* The thief marks the frame as unsynced.                                     *)
LEMMA PosFinish ==
  ASSUME FInv, PosInv, NEW w \in Worker, NEW y \in Closure, FinishPromote(w, y)
  PROVE  PosInv'
<1>1. /\ pc[w] = "finish" /\ y = t[w] /\ t' = t /\ good' = good /\ pc' = [pc EXCEPT ![w] = "do"]
      /\ pc \in [Worker -> PC] /\ cl[y].frame \in Frame /\ fr \in [Frame -> FrameRecord]
  BY FParts, ThiefParked DEF FinishPromote, At, Goto, Typed, TypedRun, TypedRuntime
<1>2. \A v \in Worker : Thief(v)' => Thief(v) /\ v # w
  BY <1>1 DEF Thief
<1>3. \A v \in Worker : Thief(v) \/ good[v] => t[v] \in Closure /\ cl'[t[v]].frame = cl[t[v]].frame
  <2>. TAKE v \in Worker
  <2>. SUFFICES ASSUME Thief(v) \/ good[v]  PROVE t[v] \in Closure /\ cl'[t[v]].frame = cl[t[v]].frame
    OBVIOUS
  <2>1. t[v] \in Closure /\ Hand(v) = t[v] /\ cl[t[v]].frame # NULL
    BY ThiefParked, GoodParked, Kinds DEF Thief
  <2>2. CASE fr[cl[y].frame].stolen
    <3>1. QuietTree
      BY <2>2, WriteQuiet
    <3>. QED  BY <2>1, <3>1 DEF QuietTree, SameSites
  <2>3. CASE ~fr[cl[y].frame].stolen
    <3>1. PICK o \in Closure : \E f \in Frame : \E n \in Nat : \E L, G : Finishes(w, y, o, f, n, L, G)
      BY <2>3, FinishPath
    <3>2. PICK f \in Frame : \E n \in Nat : \E L, G : Finishes(w, y, o, f, n, L, G)
      BY <3>1
    <3>3. PICK n \in Nat : \E L, G : Finishes(w, y, o, f, n, L, G)
      BY <3>2
    <3>4. PICK L, G : Finishes(w, y, o, f, n, L, G)
      BY <3>3
    <3>. QED  BY <2>1, <3>4, FinishedClosures
  <2>. QED  BY <2>2, <2>3
<1>4. \A h \in Frame : fr'[h].at = fr[h].at /\ (fr'[h].unsynced => fr[h].unsynced \/ h = cl[y].frame)
  <2>2. CASE fr[cl[y].frame].stolen
    <3>1. fr' = [fr EXCEPT ![cl[y].frame].unsynced = TRUE]
      BY <2>2 DEF FinishPromote, FinishFullFrame
    <3>. QED  BY <1>1, <3>1 DEF FrameRecord
  <2>3. CASE ~fr[cl[y].frame].stolen
    <3>1. PICK o \in Closure : \E f \in Frame : \E n \in Nat : \E L, G : Finishes(w, y, o, f, n, L, G)
      BY <2>3, FinishPath
    <3>2. PICK f \in Frame : \E n \in Nat : \E L, G : Finishes(w, y, o, f, n, L, G)
      BY <3>1
    <3>3. PICK n \in Nat : \E L, G : Finishes(w, y, o, f, n, L, G)
      BY <3>2
    <3>4. PICK L, G : Finishes(w, y, o, f, n, L, G)
      BY <3>3
    <3>. QED  BY <3>4 DEF Finishes
  <2>. QED  BY <2>2, <2>3
<1>5. \A h \in Frame : fr'[h].unsynced => fr[h].unsynced \/ \E v \in Worker : Thief(v) /\ cl[t[v]].frame = h
  BY <1>1, <1>4 DEF Thief
<1>6. ASSUME NEW v \in Worker, Thief(v)'
      PROVE  /\ Thief(v) /\ t'[v] = t[v] /\ cl'[t[v]].frame = cl[t[v]].frame
             /\ fr'[cl[t[v]].frame].at = fr[cl[t[v]].frame].at
  <2>1. Thief(v) /\ cl[t[v]].frame \in Frame
    BY <1>2, <1>6, ThiefParked DEF Thief
  <2>. QED  BY <1>1, <1>3, <1>4, <2>1
<1>. QED  BY <1>1, <1>3, <1>4, <1>5, <1>6, PosKept

(* The invariant.                                                             *)
LEMMA InitPos == Init => PosInv
<1>. SUFFICES ASSUME Init  PROVE PosInv
  OBVIOUS
<1>1. \A f \in Frame : fr[f].unsynced = FALSE
  BY DEF Init, NewFrame
<1>2. \A w \in Worker : pc[w] = "loop" /\ good[w] = FALSE
  BY DEF Init
<1>. QED  BY <1>1, <1>2 DEF PosInv, Thief

LEMMA PosSteps ==
  ASSUME FInv, IInv', PosInv, [Next]_vars
  PROVE  PosInv'
<1>1. ASSUME NEW w \in Worker, PosQuiet(w)  PROVE PosInv'
  BY <1>1, PosQuietKeeps
<1>2. ASSUME NEW w \in Worker, NEW f \in Frame,
             \/ Spawn(w, f) \/ Call(w, f) \/ FastSync(w, f) \/ ReturnToCaller(w, f) \/ ReturnFullFrame(w, f)
             \/ PopParent(w, f) \/ EnterHandler(w, f)
      PROVE  PosInv'
  BY <1>2, PosUser
<1>3. ASSUME NEW w \in Worker, FinishRoot(w)  PROVE PosInv'
  BY <1>3, PosFinishRoot
<1>4. ASSUME NEW w \in Worker, NEW c \in Closure, SyncReady(w, c) \/ PushAndRun(w, c) \/ FinishPromote(w, c)
      PROVE  PosInv'
  BY <1>4, PosSyncReady, PosPush, PosFinish
<1>5. ASSUME NEW w \in Worker, NEW c \in Closure, NEW p \in Closure, ReturnParent(w, c, p)  PROVE PosInv'
  BY <1>5, PosBack
<1>6. ASSUME NEW w \in Worker, NEW v \in Worker, NEW c \in Closure, Promote(w, v, c)  PROVE PosInv'
  <2>1. PICK x \in Nat, d \in Nat : \E f \in Frame : Takes(w, v, c, x, d, f)
    BY <1>6, PromoteTakes
  <2>. QED  BY <2>1, PosTaken
<1>7. CASE UNCHANGED vars
  BY <1>7 DEF vars, treeVars, runVars, fiberVars, PosInv, Spawning, Thief
<1>8. ASSUME NEW w \in Worker, Acquire(w)  PROVE PosInv'
  <2>1. CASE \E f \in Frame : SlowSync(w, f) \/ ReturnFullFrame(w, f) \/ EnterHandler(w, f)
    BY <1>1, <1>2, <2>1 DEF PosQuiet
  <2>2. CASE \E c \in Closure : SyncNotReady(w, c) \/ Handler(w, c) \/ SetReturnChild(w, c) \/ Execute(w, c) \/ ReturnChild(w, c)
    BY <1>1, <2>2 DEF PosQuiet
  <2>3. CASE \E c \in Closure : SyncReady(w, c) \/ PushAndRun(w, c)
    BY <1>4, <2>3
  <2>4. CASE \E c, p \in Closure : SetReturnParent(w, c, p) \/ ReturnParent(w, c, p)
    BY <1>1, <1>5, <2>4 DEF PosQuiet
  <2>5. CASE Extract(w)
    BY <1>1, <2>5 DEF PosQuiet
  <2>. QED  BY <1>8, <2>1, <2>2, <2>3, <2>4, <2>5 DEF Acquire
<1>9. ASSUME NEW w \in Worker, Proceed(w)  PROVE PosInv'
  <2>1. CASE \E f \in Frame : Spawn(w, f) \/ Call(w, f) \/ FastSync(w, f) \/ ReturnToCaller(w, f) \/ PopParent(w, f)
    BY <1>2, <2>1
  <2>2. CASE RuntimeQuiet(w)
    BY <1>1, <2>2 DEF PosQuiet
  <2>. QED  BY <1>3, <1>4, <1>6, <1>9, <2>1, <2>2 DEF Proceed, RuntimeQuiet
<1>10. ASSUME NEW w \in Worker, Steal(w)  PROVE PosInv'
  BY <1>1, <1>10 DEF Steal, PosQuiet, RuntimeQuiet
<1>11. CASE Terminated
  BY <1>7, <1>11 DEF Terminated
<1>. QED  BY <1>7, <1>8, <1>9, <1>10, <1>11 DEF Next
=============================================================================
