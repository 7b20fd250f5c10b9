----------------------------- MODULE Scheduler -----------------------------
(***************************************************************************)
(* The work-stealing scheduler of the Cheetah runtime: several workers run *)
(* a program of frames that spawn, call, sync and return; a worker without *)
(* work steals the continuation of the oldest spawn of another.            *)
(*                                                                         *)
(* A frame that was ever stolen has a closure (a "full frame"); closures   *)
(* form a tree of call and spawn parents.  An action is what a worker does *)
(* between two lock operations.  What it does without a lock is part of    *)
(* the action before or after it, because nobody else reads or writes it;  *)
(* the exception is the shadow stack, whose pop and steal are single steps *)
(* here because module THEProtocol implements them (ImplementsDeque).      *)
(***************************************************************************)
EXTENDS CilkProgram, FiniteSets, SequencesExt

CONSTANTS
  Worker,   \* the workers,
  Boss,     \* and the one that starts with invoke_main
  NULL

ASSUME WorkerAssumption ==
  /\ Boss \in Worker /\ NULL \notin Worker \union Frame /\ NULL \notin Int
  /\ NULL # SYNC

VARIABLES
  cl,         \* the closures made so far; a pointer to one is its index
  deque,      \* each worker's ready deque, top first
  dlock,      \* who holds the lock of each deque
  ltq,        \* the frames on each shadow stack between H and T
  pc,         \* where each worker is
  t,          \* the closure each worker has in hand in the runtime
  victim,     \* whom each thief steals from
  cur,        \* w->current_stack_frame
  on,         \* the fiber each worker's stack pointer is in, NULL in the runtime
  toFree,     \* w->l->fiber_to_free
  good,       \* w->l->provably_good_steal
  fr,         \* the frames: flags, worker, saved stack pointer, home fiber
  made, idle, \* number of fibers made, and those that are in a pool
  done        \* g->done

treeVars == <<cl, deque, dlock>>
runVars == <<ltq, cur, on, fr>>
fiberVars == <<made, idle>>
vars == <<treeVars, runVars, fiberVars, pc, t, victim, toFree, good, done>>

Closure == DOMAIN cl
Fiber == 1..made

(* Closure_init. *)
Closure_init(status) ==
  [mutex |-> NULL, frame |-> NULL, fiber |-> NULL, fiber_child |-> NULL,
   join_counter |-> 0, orig_rsp |-> NULL, status |-> status,
   has_cilk_callee |-> FALSE, callee |-> NULL, call_parent |-> NULL,
   spawn_parent |-> NULL, left_sib |-> NULL, right_sib |-> NULL,
   right_most_child |-> NULL]

NewFrame(w, fiber) ==
  [at |-> 1, stolen |-> FALSE, unsynced |-> FALSE, worker |-> w, sp |-> NULL, home |-> fiber]

(* create_invoke_main, workers_init and scheduler_thread_proc. *)
Init ==
  /\ cl = <<[Closure_init("READY") EXCEPT !.frame = Root, !.fiber = 1]>>
  /\ deque = [w \in Worker |-> <<>>] /\ dlock = [w \in Worker |-> NULL]
  /\ ltq = [w \in Worker |-> <<>>]
  /\ pc = [w \in Worker |-> "loop"]
  /\ t = [w \in Worker |-> IF w = Boss THEN 1 ELSE NULL]
  /\ victim = [w \in Worker |-> NULL]
  /\ cur = [w \in Worker |-> NULL] /\ on = [w \in Worker |-> NULL]
  /\ toFree = [w \in Worker |-> NULL] /\ good = [w \in Worker |-> FALSE]
  /\ fr = [f \in Frame |-> IF f = Root THEN [NewFrame(NULL, 1) EXCEPT !.stolen = TRUE]
                                       ELSE [NewFrame(NULL, NULL) EXCEPT !.at = 0]]
  /\ made = 1 /\ idle = {}
  /\ done = FALSE

-----------------------------------------------------------------------------
At(w, label) == pc[w] = label
Goto(w, label) == pc' = [pc EXCEPT ![w] = label]
InUser(w, f) == At(w, "user") /\ cur[w] = f
NextInstr(f) == IF fr[f].at < End(f) THEN Body[f][fr[f].at] ELSE NULL

Free(S) == S \ {NULL}
Bottom(w) == Last(deque[w])

-----------------------------------------------------------------------------
(* Slips: plausible mistakes in the definitions below, used to check that the *)
(* properties notice them.  Nothing here is part of the specification.        *)

(* A sync that looks at called children only. *)
Closure_has_children_CalleeOnly(c) == cl[c].has_cilk_callee

(* The fiber of a younger child is kept as the one to resume on. *)
KeepsFiber_AnyFirst(c) == cl[cl[c].spawn_parent].fiber_child = NULL

(* The last child back resumes a parent that waits for a called child. *)
IsGoodSteal_IgnoreCallee(p) == cl[p].join_counter = 1 /\ cl[p].status = "SUSPENDED"

(* The counter is tested before it is decremented. *)
IsGoodSteal_Early(p) ==
  cl[p].join_counter = 0 /\ cl[p].status = "SUSPENDED" /\ ~cl[p].has_cilk_callee

(* The parent resumes on the fiber of its last strand. *)
SetupForSync_SameFiber(c) == [c EXCEPT !.fiber_child = NULL, !.orig_rsp = NULL]

(* fiber_child is not unset. *)
SetupForSync_KeepChild(c) == [c EXCEPT !.fiber = c.fiber_child, !.orig_rsp = NULL]

(* A fiber left behind by an earlier sync is forgotten. *)
LeftFiber_Forgotten(w) == {}

(* A thief takes the youngest continuation off the stack instead of the oldest. *)
Unhooked_Youngest(q) == Front(q)

(* The new child is not linked to its left sibling. *)
SpawnChild_NoSibling(p, leftmost, fiber) ==
  [Closure_init("RUNNING") EXCEPT !.spawn_parent = p, !.fiber = fiber]

(* The stolen parent stays on top of the victim's deque. *)
Detached_NotExtracted(q, child, own) == Append(q, child)

(* Called ancestors of a stolen frame keep the victim as their worker. *)
StolenFrame_KeepWorker(f, youngest) == [fr[f] EXCEPT !.stolen = TRUE]

-----------------------------------------------------------------------------
(* User code.  A worker runs instruction after instruction of cur[w].         *)

(* setjmp, __cilkrts_enter_frame_fast and __cilkrts_detach of a spawn helper: *)
(* the continuation of f is up for grabs.                                     *)
Spawn(w, f) ==
  /\ InUser(w, f)
  /\ NextInstr(f) \in Helper
  /\ fr' = [fr EXCEPT ![f].at = @ + 1, ![f].sp = on[w],
                      ![NextInstr(f)] = NewFrame(w, on[w])]
  /\ ltq' = [ltq EXCEPT ![w] = Append(@, f)]
  /\ cur' = [cur EXCEPT ![w] = NextInstr(f)]
  /\ UNCHANGED <<treeVars, fiberVars, pc, t, victim, on, toFree, good, done>>

(* __cilkrts_enter_frame of a called function. *)
Call(w, f) ==
  /\ InUser(w, f)
  /\ NextInstr(f) \in Frame \ Helper
  /\ fr' = [fr EXCEPT ![f].at = @ + 1, ![NextInstr(f)] = NewFrame(w, on[w])]
  /\ cur' = [cur EXCEPT ![w] = NextInstr(f)]
  /\ UNCHANGED <<treeVars, fiberVars, pc, t, victim, ltq, on, toFree, good, done>>

(* A frame that was not stolen since its last sync does not enter the runtime. *)
FastSync(w, f) ==
  /\ InUser(w, f)
  /\ NextInstr(f) = SYNC
  /\ ~fr[f].unsynced
  /\ fr' = [fr EXCEPT ![f].at = @ + 1]
  /\ UNCHANGED <<treeVars, fiberVars, pc, t, victim, ltq, cur, on, toFree, good, done>>

(* setjmp and the first lines of Cilk_sync. *)
SlowSync(w, f) ==
  /\ InUser(w, f)
  /\ NextInstr(f) = SYNC
  /\ fr[f].unsynced
  /\ dlock[w] = NULL
  /\ dlock' = [dlock EXCEPT ![w] = w]
  /\ fr' = [fr EXCEPT ![f].sp = on[w]]
  /\ Goto(w, "sync")
  /\ UNCHANGED <<cl, deque, fiberVars, t, victim, ltq, cur, on, toFree, good, done>>

(* __cilkrts_pop_frame and __cilkrts_leave_frame, the four ways out. *)
Leave(w, f) ==
  /\ InUser(w, f)
  /\ fr[f].at = End(f)
  /\ fr' = [fr EXCEPT ![f].at = @ + 1]
  /\ cur' = [cur EXCEPT ![w] = Caller(f)]

ReturnToCaller(w, f) ==
  /\ f \notin Helper \union {Root}
  /\ Leave(w, f)
  /\ ~fr[f].stolen
  /\ UNCHANGED <<treeVars, fiberVars, pc, t, victim, ltq, on, toFree, good, done>>

(* A called full frame: Cilk_set_return locks the deque and takes the child. *)
ReturnFullFrame(w, f) ==
  /\ f \notin Helper \union {Root}
  /\ Leave(w, f)
  /\ fr[f].stolen
  /\ dlock[w] = NULL
  /\ dlock' = [dlock EXCEPT ![w] = w]
  /\ t' = [t EXCEPT ![w] = Bottom(w)]
  /\ deque' = [deque EXCEPT ![w] = Front(@)]
  /\ Goto(w, "set_return")
  /\ UNCHANGED <<cl, fiberVars, victim, ltq, on, toFree, good, done>>

(* A spawn helper whose parent is still on the shadow stack pops it. *)
PopParent(w, f) ==
  /\ f \in Helper
  /\ Leave(w, f)
  /\ ltq[w] # <<>>
  /\ ltq' = [ltq EXCEPT ![w] = Front(@)]
  /\ UNCHANGED <<treeVars, fiberVars, pc, t, victim, on, toFree, good, done>>

(* The parent is gone: Cilk_exception_handler locks the deque. *)
EnterHandler(w, f) ==
  /\ f \in Helper
  /\ Leave(w, f)
  /\ ltq[w] = <<>>
  /\ dlock[w] = NULL
  /\ dlock' = [dlock EXCEPT ![w] = w]
  /\ Goto(w, "handler")
  /\ UNCHANGED <<cl, deque, fiberVars, t, victim, ltq, on, toFree, good, done>>

(* The end of invoke_main. *)
FinishRoot(w) ==
  /\ InUser(w, Root)
  /\ fr[Root].at = End(Root)
  /\ fr' = [fr EXCEPT ![Root].at = @ + 1]
  /\ done' = TRUE
  /\ Goto(w, "back")
  /\ UNCHANGED <<treeVars, fiberVars, t, victim, ltq, cur, on, toFree, good>>

-----------------------------------------------------------------------------
(* Syncs and returns.  The deque's lock is held, a closure's is awaited.      *)

Closure_has_children(c) == cl[c].has_cilk_callee \/ cl[c].join_counter # 0

(* setup_for_sync: back to the fiber the frame lives on. *)
SetupForSync(c) ==
  [c EXCEPT !.fiber = c.fiber_child, !.fiber_child = NULL, !.orig_rsp = NULL]
SyncedFrame(w, c) ==
  [fr[c.frame] EXCEPT !.unsynced = FALSE, !.sp = c.orig_rsp, !.worker = w]

(* What an earlier sync, passed without going back to the runtime, left to free. *)
LeftFiber(w) == Free({toFree[w]})

(* Cilk_sync with children outstanding: the closure leaves the deque; its     *)
(* fiber is still under the worker's feet and is freed in the runtime.        *)
SyncNotReady(w, c) ==
  /\ At(w, "sync") /\ c = Bottom(w) /\ cl[c].mutex = NULL
  /\ Closure_has_children(c)
  /\ cl' = [cl EXCEPT ![c].status = "SUSPENDED", ![c].fiber = NULL]
  /\ fr' = [fr EXCEPT ![cl[c].frame].worker = NULL]
  /\ deque' = [deque EXCEPT ![w] = Front(@)]
  /\ dlock' = [dlock EXCEPT ![w] = NULL]
  /\ idle' = idle \union LeftFiber(w)
  /\ toFree' = [toFree EXCEPT ![w] = cl[c].fiber]
  /\ Goto(w, "back")
  /\ UNCHANGED <<made, t, victim, ltq, cur, on, good, done>>

SyncReady(w, c) ==
  /\ At(w, "sync") /\ c = Bottom(w) /\ cl[c].mutex = NULL
  /\ ~Closure_has_children(c)
  /\ cl' = [cl EXCEPT ![c] = SetupForSync(@)]
  /\ fr' = [fr EXCEPT ![cl[c].frame] = [SyncedFrame(w, cl[c]) EXCEPT !.at = @ + 1]]
  /\ on' = [on EXCEPT ![w] = cl[c].orig_rsp]
  /\ dlock' = [dlock EXCEPT ![w] = NULL]
  /\ idle' = idle \union LeftFiber(w)
  /\ toFree' = [toFree EXCEPT ![w] = cl[c].fiber]
  /\ Goto(w, "user")
  /\ UNCHANGED <<deque, made, t, victim, ltq, cur, good, done>>

(* Cilk_exception_handler once it has the closure: the helper's closure is    *)
(* returning, and the worker goes back to the runtime.                        *)
Handler(w, c) ==
  /\ At(w, "handler") /\ c = Bottom(w) /\ cl[c].mutex = NULL
  /\ cl' = [cl EXCEPT ![c].status = "RETURNING"]
  /\ dlock' = [dlock EXCEPT ![w] = NULL]
  /\ Goto(w, "back")
  /\ UNCHANGED <<deque, runVars, fiberVars, t, victim, toFree, good, done>>

(* Cilk_set_return locks the child, then its caller ... *)
SetReturnChild(w, c) ==
  /\ At(w, "set_return") /\ c = t[w] /\ cl[c].mutex = NULL
  /\ cl' = [cl EXCEPT ![c].mutex = w]
  /\ Goto(w, "set_return_parent")
  /\ UNCHANGED <<deque, dlock, runVars, fiberVars, t, victim, toFree, good, done>>

(* setup_call_parent_resumption. *)
CallParentResumption(w, f) == [fr[f] EXCEPT !.worker = w]

(* ... which takes the child's place on the deque. *)
SetReturnParent(w, c, p) ==
  /\ At(w, "set_return_parent") /\ c = t[w] /\ p = cl[c].call_parent /\ cl[p].mutex = NULL
  /\ cl' = [cl EXCEPT ![c].mutex = NULL, ![p].status = "RUNNING",
                      ![p].has_cilk_callee = FALSE, ![p].callee = NULL]
  /\ fr' = [fr EXCEPT ![cl[p].frame] = CallParentResumption(w, cl[p].frame)]
  /\ deque' = [deque EXCEPT ![w] = Append(@, p)]
  /\ dlock' = [dlock EXCEPT ![w] = NULL]
  /\ t' = [t EXCEPT ![w] = NULL]
  /\ Goto(w, "user")
  /\ UNCHANGED <<fiberVars, victim, ltq, cur, on, toFree, good, done>>

-----------------------------------------------------------------------------
(* worker_scheduler and do_what_it_says.                                      *)

(* Behind the setjmp of do_what_it_says: a fiber left behind is freed now.    *)
BackToRuntime(w) ==
  /\ At(w, "back")
  /\ on' = [on EXCEPT ![w] = NULL]
  /\ idle' = idle \union Free({toFree[w]})
  /\ toFree' = [toFree EXCEPT ![w] = NULL]
  /\ Goto(w, "loop")
  /\ UNCHANGED <<treeVars, ltq, cur, fr, made, t, victim, good, done>>

(* deque_xtract_bottom, between the deque's lock and unlock. *)
Extract(w) ==
  /\ At(w, "loop") /\ ~done /\ t[w] = NULL
  /\ dlock[w] = NULL
  /\ IF deque[w] = <<>>
     THEN UNCHANGED <<deque, t>> /\ Goto(w, "idle")
     ELSE /\ t' = [t EXCEPT ![w] = Bottom(w)]
          /\ deque' = [deque EXCEPT ![w] = Front(@)]
          /\ Goto(w, "do")
  /\ UNCHANGED <<cl, dlock, runVars, fiberVars, victim, toFree, good, done>>

HaveWork(w) ==
  /\ At(w, "loop") /\ ~done /\ t[w] # NULL
  /\ Goto(w, "do")
  /\ UNCHANGED <<treeVars, runVars, fiberVars, t, victim, toFree, good, done>>

(* setup_for_execution under the closure's lock. *)
Execute(w, c) ==
  /\ At(w, "do") /\ ~done /\ c = t[w] /\ cl[c].mutex = NULL
  /\ cl[c].status = "READY"
  /\ cl' = [cl EXCEPT ![c].status = "RUNNING"]
  /\ fr' = [fr EXCEPT ![cl[c].frame].worker = w]
  /\ ltq' = [ltq EXCEPT ![w] = <<>>]
  /\ cur' = [cur EXCEPT ![w] = cl[c].frame]
  /\ Goto(w, "push")
  /\ UNCHANGED <<deque, dlock, fiberVars, t, victim, on, toFree, good, done>>

(* The closure goes onto the deque; longjmp_to_user_code enters it at its     *)
(* sync (a provably good steal) or, on its new fiber, after its last spawn.   *)
PushAndRun(w, c) ==
  /\ At(w, "push") /\ c = t[w]
  /\ dlock[w] = NULL
  /\ deque' = [deque EXCEPT ![w] = Append(@, c)]
  /\ LET f == cl[c].frame
     IN IF good[w]
        THEN /\ fr' = [fr EXCEPT ![f].at = @ + 1]
             /\ on' = [on EXCEPT ![w] = fr[f].sp]
        ELSE /\ fr' = [fr EXCEPT ![f].sp = cl[c].fiber]
             /\ on' = [on EXCEPT ![w] = cl[c].fiber]
  /\ good' = [good EXCEPT ![w] = FALSE]
  /\ t' = [t EXCEPT ![w] = NULL]
  /\ Goto(w, "user")
  /\ UNCHANGED <<cl, dlock, fiberVars, victim, ltq, cur, toFree, done>>

(* A closure that is returning: return_value, and the first lock of           *)
(* Closure_return.                                                            *)
ReturnChild(w, c) ==
  /\ At(w, "do") /\ ~done /\ c = t[w] /\ cl[c].mutex = NULL
  /\ cl[c].status = "RETURNING"
  /\ cl' = [cl EXCEPT ![c].mutex = w]
  /\ Goto(w, "return")
  /\ UNCHANGED <<deque, dlock, runVars, fiberVars, t, victim, toFree, good, done>>

(* The leftmost child, first back, leaves its fiber for the parent to sync on. *)
KeepsFiber(c) == cl[c].left_sib = NULL /\ cl[cl[c].spawn_parent].fiber_child = NULL

(* The last child back of a parent suspended at a sync resumes it.            *)
IsGoodSteal(p) ==
  cl[p].join_counter = 1 /\ cl[p].status = "SUSPENDED" /\ ~cl[p].has_cilk_callee

(* Closure_remove_child, as seen by a sibling. *)
Unlinked(d, c) ==
  [cl[d] EXCEPT !.right_sib = IF @ = c THEN cl[c].right_sib ELSE @,
                !.left_sib = IF @ = c THEN cl[c].left_sib ELSE @]

(* The parent once child c is off its tree and counter. *)
Rejoined(p, c) ==
  [cl[p] EXCEPT !.join_counter = @ - 1,
                !.fiber_child = IF KeepsFiber(c) THEN cl[c].fiber ELSE @,
                !.right_most_child = IF @ = c THEN cl[c].left_sib ELSE @]

ReturnParent(w, c, p) ==
  /\ At(w, "return") /\ c = t[w] /\ p = cl[c].spawn_parent /\ cl[p].mutex = NULL
  /\ idle' = idle \union Free({toFree[w]})
                  \union (IF KeepsFiber(c) THEN {} ELSE {cl[c].fiber})
                  \union (IF IsGoodSteal(p) THEN Free({cl[p].fiber}) ELSE {})
  /\ toFree' = [toFree EXCEPT ![w] = NULL]
  /\ cl' = [d \in Closure |->
              IF d = c THEN [cl[c] EXCEPT !.mutex = NULL, !.left_sib = NULL, !.right_sib = NULL,
                                          !.fiber = IF KeepsFiber(c) THEN NULL ELSE @]
              ELSE IF d # p THEN Unlinked(d, c)
              ELSE IF IsGoodSteal(p)
                   THEN [SetupForSync(Rejoined(p, c)) EXCEPT !.status = "READY"]
                   ELSE Rejoined(p, c)]
  /\ IF IsGoodSteal(p)
     THEN /\ fr' = [fr EXCEPT ![cl[p].frame] = SyncedFrame(w, cl[p])]
          /\ good' = [good EXCEPT ![w] = TRUE]
          /\ t' = [t EXCEPT ![w] = p]
     ELSE t' = [t EXCEPT ![w] = NULL] /\ UNCHANGED <<fr, good>>
  /\ Goto(w, "loop")
  /\ UNCHANGED <<deque, dlock, made, victim, ltq, cur, on, done>>

(* while(!w->g->done). *)
Exit(w) ==
  /\ pc[w] \in {"loop", "idle", "do"} /\ done
  /\ Goto(w, "exit")
  /\ UNCHANGED <<treeVars, runVars, fiberVars, t, victim, toFree, good, done>>

-----------------------------------------------------------------------------
(* Closure_steal.                                                             *)

TryVictim(w, v) ==
  /\ At(w, "idle") /\ ~done /\ v # w
  /\ dlock[v] = NULL
  /\ dlock' = [dlock EXCEPT ![v] = w]
  /\ victim' = [victim EXCEPT ![w] = v]
  /\ Goto(w, "steal")
  /\ UNCHANGED <<cl, deque, runVars, fiberVars, t, toFree, good, done>>

(* deque_peek_top, Closure_trylock and do_dekker_on. *)
CanSteal(v) ==
  /\ deque[v] # <<>>
  /\ cl[Head(deque[v])].mutex = NULL
  /\ cl[Head(deque[v])].status = "RUNNING"
  /\ ltq[v] # <<>>

GiveUp(w, v) ==
  /\ At(w, "steal") /\ v = victim[w]
  /\ ~CanSteal(v)
  /\ dlock' = [dlock EXCEPT ![v] = NULL]
  /\ victim' = [victim EXCEPT ![w] = NULL]
  /\ Goto(w, "idle")
  /\ UNCHANGED <<cl, deque, runVars, fiberVars, t, toFree, good, done>>

(* cilk_fiber_allocate_from_pool; which pooled fiber it returns is immaterial. *)
NewFiber == IF idle = {} THEN made + 1 ELSE CHOOSE x \in idle : TRUE

(* The parent: it keeps its tree and moves to the thief's fiber.              *)
SpawnParent(w, c, child, fiber) ==
  [c EXCEPT !.mutex = w, !.fiber = fiber, !.right_most_child = child,
            !.join_counter = @ + 1,
            !.orig_rsp = IF @ = NULL THEN fr[c.frame].sp ELSE @]

(* The child: what goes on running on the victim, on the fiber it is on.      *)
SpawnChild(p, leftmost, fiber) ==
  [Closure_init("RUNNING") EXCEPT !.spawn_parent = p, !.left_sib = leftmost, !.fiber = fiber]

(* H is incremented. *)
Unhooked(q) == Tail(q)

(* deque_add_bottom of the child, and deque_xtract_top of the stolen closure  *)
(* or deque_xtract_bottom (Closure_suspend_victim) of the one above it.       *)
Detached(q, child, own) ==
  IF own THEN Tail(Append(q, child)) ELSE Append(Front(q), child)

(* promote_child when the frame at *H has a closure: that closure is stolen.  *)
PromoteFullFrame(w, v, c) ==
  LET child == Len(cl) + 1
      left  == cl[c].right_most_child
  IN /\ cl' = [d \in 1..child |->
                 IF d = child THEN SpawnChild(c, left, cl[c].fiber)
                 ELSE IF d = c THEN SpawnParent(w, cl[c], child, NewFiber)
                 ELSE IF d = left THEN [cl[d] EXCEPT !.right_sib = child]
                 ELSE cl[d]]
     /\ deque' = [deque EXCEPT ![v] = Detached(@, child, TRUE)]
     /\ t' = [t EXCEPT ![w] = c]

(* promote_child when it has none: a closure is made for the frame, and the   *)
(* one that was running waits for it (Closure_add_temp_callee).               *)
PromoteNewFrame(w, v, c) ==
  LET p == Len(cl) + 1
      child == Len(cl) + 2
      new == [Closure_init("RUNNING") EXCEPT !.frame = Head(ltq[v]), !.call_parent = c]
  IN /\ cl' = [cl EXCEPT ![c].has_cilk_callee = TRUE, ![c].status = "SUSPENDED"]
               \o <<SpawnParent(w, new, child, NewFiber), SpawnChild(p, NULL, cl[c].fiber)>>
     /\ deque' = [deque EXCEPT ![v] = Detached(@, child, FALSE)]
     /\ t' = [t EXCEPT ![w] = p]

Promote(w, v, c) ==
  /\ At(w, "steal") /\ v = victim[w]
  /\ CanSteal(v) /\ c = Head(deque[v])
  /\ \/ cl[c].frame = Head(ltq[v]) /\ PromoteFullFrame(w, v, c)
     \/ cl[c].frame # Head(ltq[v]) /\ PromoteNewFrame(w, v, c)
  /\ ltq' = [ltq EXCEPT ![v] = Unhooked(@)]
  /\ idle' = idle \ {NewFiber}
  /\ made' = IF idle = {} THEN made + 1 ELSE made
  /\ Goto(w, "promoted")
  /\ UNCHANGED <<dlock, victim, cur, on, fr, toFree, good, done>>

ReleaseVictim(w, v) ==
  /\ At(w, "promoted") /\ v = victim[w]
  /\ dlock' = [dlock EXCEPT ![v] = NULL]
  /\ Goto(w, "finish")
  /\ UNCHANGED <<cl, deque, runVars, fiberVars, t, victim, toFree, good, done>>

(* The frames of f's stacklet, youngest first, that have no closure yet       *)
(* (oldest_non_stolen_frame_in_stacklet is the last one).                     *)
NotStolen(f) ==
  LET s == Stacklet[f]
  IN SubSeq(s, 1, Max({k \in 0..Len(s) : \A i \in 1..k : ~fr[s[i]].stolen}))

StolenFrame(f, youngest) ==
  [fr[f] EXCEPT !.stolen = TRUE, !.worker = IF f = youngest THEN @ ELSE NULL]

(* finish_promote with setup_closures_in_stacklet: the closure that was       *)
(* running gets its frame, if it had none, and every frame between that one   *)
(* and the stolen one gets a closure that waits for the next younger one.     *)
FinishNewFrame(w, y, old) ==
  LET path   == NotStolen(cl[y].frame)
      oldest == IF cl[old].frame = NULL THEN Last(path) ELSE cl[old].frame
      mids   == IF cl[old].frame = NULL THEN SubSeq(path, 2, Len(path) - 1) ELSE Tail(path)
      n      == Len(mids)
      Link(i) == CASE i = 0 -> old [] i = n + 1 -> y [] OTHER -> Len(cl) + i
      New(i) == [Closure_init("SUSPENDED") EXCEPT
                   !.frame = mids[n + 1 - i], !.fiber = cl[old].fiber,
                   !.call_parent = Link(i - 1), !.callee = Link(i + 1),
                   !.has_cilk_callee = TRUE]
  IN /\ cl' = [cl EXCEPT ![old].frame = oldest, ![old].callee = Link(1),
                         ![old].has_cilk_callee = TRUE,
                         ![y].call_parent = Link(n), ![y].mutex = NULL, ![y].status = "READY"]
               \o [i \in 1..n |-> New(i)]
     /\ fr' = [f \in Frame |->
                 IF f = path[1] THEN [StolenFrame(f, f) EXCEPT !.unsynced = TRUE]
                 ELSE IF f \in Range(path) THEN StolenFrame(f, path[1])
                 ELSE IF f = oldest THEN [fr[f] EXCEPT !.worker = NULL]
                 ELSE fr[f]]

FinishFullFrame(w, y) ==
  /\ cl' = [cl EXCEPT ![y].mutex = NULL, ![y].status = "READY"]
  /\ fr' = [fr EXCEPT ![cl[y].frame].unsynced = TRUE]

FinishPromote(w, y) ==
  /\ At(w, "finish") /\ y = t[w]
  /\ IF fr[cl[y].frame].stolen THEN FinishFullFrame(w, y)
                               ELSE FinishNewFrame(w, y, cl[y].call_parent)
  /\ victim' = [victim EXCEPT ![w] = NULL]
  /\ Goto(w, "do")
  /\ UNCHANGED <<deque, dlock, fiberVars, t, ltq, cur, on, toFree, good, done>>

-----------------------------------------------------------------------------
(* Actions that wait for a lock, on which two or more workers may spin. *)
Acquire(w) ==
  \/ \E f \in Frame : SlowSync(w, f) \/ ReturnFullFrame(w, f) \/ EnterHandler(w, f)
  \/ \E c \in Closure : \/ SyncNotReady(w, c) \/ SyncReady(w, c) \/ Handler(w, c)
                        \/ SetReturnChild(w, c) \/ Execute(w, c) \/ PushAndRun(w, c)
                        \/ ReturnChild(w, c)
                        \/ \E p \in Closure : SetReturnParent(w, c, p) \/ ReturnParent(w, c, p)
  \/ Extract(w)

(* Actions that do not wait. *)
Proceed(w) ==
  \/ \E f \in Frame : Spawn(w, f) \/ Call(w, f) \/ FastSync(w, f)
                      \/ ReturnToCaller(w, f) \/ PopParent(w, f)
  \/ FinishRoot(w) \/ BackToRuntime(w) \/ HaveWork(w) \/ Exit(w)
  \/ \E v \in Worker : GiveUp(w, v) \/ ReleaseVictim(w, v)
                       \/ \E c \in Closure : Promote(w, v, c)
  \/ \E y \in Closure : FinishPromote(w, y)

Steal(w) == \E v \in Worker : TryVictim(w, v)

Terminated == (\A w \in Worker : At(w, "exit")) /\ UNCHANGED vars

Next == (\E w \in Worker : Acquire(w) \/ Proceed(w) \/ Steal(w)) \/ Terminated

Spec == Init /\ [][Next]_vars

(* Every thread keeps running, and a spin lock is not kept from a worker that *)
(* waits for it by others that take it again and again (they hold it for a    *)
(* few instructions, the thieves among them look at random victims).  Nothing *)
(* makes a worker steal.                                                      *)
Fairness == \A w \in Worker : SF_vars(Acquire(w)) /\ WF_vars(Proceed(w))

FairSpec == Spec /\ Fairness

-----------------------------------------------------------------------------
Holders(c) == {w \in Worker : t[w] = c \/ c \in Range(deque[w])}
(* Closures that have not returned. *)
Alive(c) == Holders(c) # {} \/ cl[c].status = "SUSPENDED"
Running(f) == fr[f].at \in 1..End(f)

(* A closure is in one ready deque, in one worker's hand, or suspended and in *)
(* neither; the deques hold no closure that Closure_steal calls a bug, and    *)
(* never more than one, which the comment on promote_child makes an exception *)
(* of.  Violated, two workers would run the same frame.                       *)
OnePlace ==
  /\ \A c \in Closure : /\ Cardinality(Holders(c)) <= 1
                        /\ cl[c].status = "SUSPENDED" => \A w \in Holders(c) : At(w, "promoted")
  /\ \A w \in Worker : /\ Len(deque[w]) <= 1
                       /\ \A c \in Range(deque[w]) : /\ cl[c].status \in {"RUNNING", "RETURNING"}
                                                     /\ t[w] # c

(* Every fiber has one owner: a pool, the worker about to free it, the parent *)
(* that will sync on it, or the closure that runs on it (a caller lends it to *)
(* its callee).  No fiber is freed twice or leaked.                           *)
FiberOwners(x) ==
       {<<"pool", x>> : y \in idle \intersect {x}}
  \union {<<"free", w>> : w \in {v \in Worker : toFree[v] = x}}
  \union {<<"sync", c>> : c \in {d \in Closure : cl[d].fiber_child = x}}
  \union {<<"run", c>> : c \in {d \in Closure : cl[d].fiber = x /\ Alive(d) /\ ~cl[d].has_cilk_callee}}
OneFiberOwner == \A x \in Fiber : Cardinality(FiberOwners(x)) = 1

(* The stack under a live frame, or under a worker, is neither pooled nor     *)
(* about to be, except the one a worker itself is about to leave.             *)
StacksKept ==
  /\ \A f \in Frame : Running(f) => fr[f].home \notin idle \union Free(Range(toFree))
  /\ \A w \in Worker : on[w] \notin idle \union Free({toFree[v] : v \in Worker \ {w}})

(* A worker runs on the fiber of its closure, and a frame that has synced is  *)
(* back on the fiber it was called on (longjmp_to_user_code asserts that its  *)
(* frame and stack pointers are in the closure's fiber).                      *)
OnItsFiber ==
  \A w \in Worker : At(w, "user") =>
    /\ on[w] = cl[Bottom(w)].fiber
    /\ ~fr[cur[w]].unsynced => on[w] = fr[cur[w]].home

(* The join counter and the sibling list of a closure agree with the spawned  *)
(* children that have not returned, whoever returns first.                    *)
Children(p) == {c \in Closure : cl[c].spawn_parent = p /\ Alive(c)}
ChildrenCounted ==
  \A p \in Closure : Alive(p) =>
    LET kids == Children(p)
        Below(c) == {d \in kids : d < c}
        Above(c) == {d \in kids : d > c}
    IN /\ cl[p].join_counter = Cardinality(kids)
       /\ cl[p].right_most_child = IF kids = {} THEN NULL ELSE Max(kids)
       /\ \A c \in kids : /\ cl[c].left_sib = IF Below(c) = {} THEN NULL ELSE Max(Below(c))
                          /\ cl[c].right_sib = IF Above(c) = {} THEN NULL ELSE Min(Above(c))

(* A closure waits for a called child exactly while one is alive, so that a   *)
(* provably good steal never resumes it under the callee's feet.              *)
CallersWait ==
  \A c \in Closure : Alive(c) =>
    LET callees == {d \in Closure : cl[d].call_parent = c /\ Alive(d)}
    IN /\ Cardinality(callees) = IF cl[c].has_cilk_callee THEN 1 ELSE 0
       /\ cl[c].has_cilk_callee => cl[c].status = "SUSPENDED"

(* What the code asserts (CILK_ASSERT is compiled out) of frames that move    *)
(* between workers: at the compiler's entry points, that user code runs with  *)
(* sf->worker set to its own worker; when a full frame returns to its caller  *)
(* and when a spawned closure returns, that the parent waits for it.          *)
ReturnClaims ==
  \A w \in Worker :
    /\ At(w, "user") => fr[cur[w]].worker = w
    /\ At(w, "set_return_parent") =>
         LET p == cl[t[w]].call_parent
         IN /\ cl[p].status = "SUSPENDED" /\ cl[p].has_cilk_callee
            /\ cl[p].frame = cur[w] /\ fr[cur[w]].stolen
            /\ fr[cur[w]].worker = NULL /\ ltq[w] = <<>>
    /\ At(w, "handler") => ~Closure_has_children(Bottom(w))
    /\ At(w, "return") =>
         LET p == cl[t[w]].spawn_parent
         IN /\ cl[t[w]].join_counter = 0 /\ cl[t[w]].call_parent = NULL
            /\ cl[p].join_counter > 0 /\ cl[p].status # "RETURNING"
            /\ cl[p].frame = cur[w] /\ cl[p].fiber_child # cl[t[w]].fiber

(* A spawn helper that finds something on the shadow stack finds its parent   *)
(* (the assertion at the end of __cilkrts_leave_frame, commented out in the   *)
(* code), and a worker enters the runtime with nothing left on it.            *)
ShadowStackMatches ==
  \A w \in Worker :
    /\ At(w, "user") /\ cur[w] \in Helper /\ ltq[w] # <<>> => Last(ltq[w]) = Caller(cur[w])
    /\ ~At(w, "user") /\ ~At(w, "sync") => ltq[w] = <<>>

(* When invoke_main raises g->done all frames have returned, no closure but   *)
(* its own is left, and all fibers but its own are free: a worker that leaves *)
(* its loop abandons nothing, and the deinitialisers' assertions hold.        *)
NothingLeftBehind ==
  done => /\ \A f \in Frame : fr[f].at = End(f) + 1
          /\ \A c \in Closure : Alive(c) => cl[c].frame = Root
          /\ Fiber \ {fr[Root].home} = idle \union Free(Range(toFree))
          /\ \A w \in Worker : At(w, "exit") => toFree[w] = NULL

(* The program runs as if by the abstract fork-join semantics: calls wait for *)
(* their callee, syncs for all frames spawned before, every frame runs once,  *)
(* wherever it was stolen.                                                    *)
Program == INSTANCE ForkJoin WITH at <- [f \in Frame |-> fr[f].at]
ImplementsForkJoin == Program!Spec

(* The program terminates, and so does every worker. *)
Termination == <>[](\A w \in Worker : At(w, "exit"))
=============================================================================
