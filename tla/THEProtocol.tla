---------------------------- MODULE THEProtocol ----------------------------
(***************************************************************************)
(* The THE protocol of the Cheetah runtime: one worker (the victim) runs   *)
(* user code that spawns and returns, and thieves steal the continuations  *)
(* it leaves on its shadow stack.  The three pointers are w->tail (T),     *)
(* w->head (H) and w->exc (E), as indices into w->l->shadow_stack.         *)
(*                                                                         *)
(* One action is one access to shared memory.  The victim's stores go      *)
(* through a store buffer, as on the x86 processors the code is written    *)
(* for: a store is appended to "buffer" and reaches memory in order, at    *)
(* any later time; a locked instruction waits until the buffer is empty.   *)
(***************************************************************************)
EXTENDS Naturals, Sequences

CONSTANTS
  Thieves,    \* the other workers
  Owner,      \* the victim
  NOBODY,     \* no worker
  Depth,      \* entries of the shadow stack (options.deqdepth)
  MaxSpawn    \* bound on the number of spawns of a behaviour

ASSUME ThievesAssumption == Owner \notin Thieves /\ NOBODY \notin Thieves \union {Owner}
ASSUME DepthAssumption == Depth \in Nat \ {0} /\ MaxSpawn \in Nat

VARIABLES
  head, tail, exc,  \* the victim's pointers, in memory
  slot,             \* the shadow stack, in memory
  buffer,           \* the victim's store buffer
  ltail,            \* w->tail as the victim's own loads return it
  stack,            \* continuations below the detached frames of the victim's C stack
  vpc,              \* where the victim is
  tpc,              \* where each thief is
  loot,             \* frame_to_steal of each thief
  lock,             \* owner of the lock of the victim's ready deque
  closure,          \* status of the closure on that deque, "none" if it is empty
  spawns,           \* number of spawns so far: the next continuation's name
  popped, stolen    \* history: continuations resumed by the victim, by a thief

pointers == <<head, tail, exc, slot>>
victimVars == <<buffer, ltail, stack, vpc, spawns, popped>>
thiefVars == <<tpc, loot, stolen>>
vars == <<pointers, victimVars, thiefVars, lock, closure>>

Continuation == 1..MaxSpawn
Index == 0..Depth
SlotStore(i, x) == [loc |-> "slot", idx |-> i, val |-> x]
TailStore(i)    == [loc |-> "tail", idx |-> 0, val |-> i]
Store == [loc : {"slot", "tail"}, idx : Nat, val : Nat]

VictimPC == {"runtime", "add", "unlock_add", "run", "fence", "check", "handler",
             "resume", "unwind", "extract", "unlock_extract"}
ThiefPC == {"idle", "raise", "dekker", "retract", "read", "bump", "unlock"}
(* A thief between raising E and either taking it back or moving H after it. *)
InDekker == {"dekker", "retract", "read", "bump"}

TypeOK ==
  /\ head \in Index /\ tail \in Index /\ ltail \in Index
  /\ exc \in 0..Depth+1
  /\ slot \in [0..Depth-1 -> 0..MaxSpawn]
  /\ buffer \in Seq(Store)
  /\ stack \in Seq(Continuation)
  /\ vpc \in VictimPC
  /\ tpc \in [Thieves -> ThiefPC]
  /\ loot \in [Thieves -> 0..MaxSpawn]
  /\ lock \in Thieves \union {Owner, NOBODY}
  /\ closure \in {"none", "running", "returning"}
  /\ spawns \in 0..MaxSpawn
  /\ popped \subseteq Continuation /\ stolen \subseteq Continuation

Init ==
  /\ head = 1 /\ tail = 1 /\ ltail = 1 /\ exc = 1
  /\ slot = [i \in 0..Depth-1 |-> 0]
  /\ buffer = <<>> /\ stack = <<>>
  /\ vpc = "runtime"
  /\ tpc = [t \in Thieves |-> "idle"]
  /\ loot = [t \in Thieves |-> 0]
  /\ lock = NOBODY
  /\ closure = "none"
  /\ spawns = 0 /\ popped = {} /\ stolen = {}

-----------------------------------------------------------------------------
(* The oldest buffered store reaches memory. *)
Drain ==
  /\ buffer # <<>>
  /\ buffer' = Tail(buffer)
  /\ LET s == Head(buffer)
     IN \/ /\ s.loc = "tail"
           /\ tail' = s.val
           /\ UNCHANGED slot
        \/ /\ s.loc = "slot"
           /\ slot' = [slot EXCEPT ![s.idx] = s.val]
           /\ UNCHANGED tail
  /\ UNCHANGED <<head, exc, ltail, stack, vpc, spawns, popped, thiefVars, lock, closure>>

(* A locked instruction of the victim completes only on an empty buffer. *)
Fenced == buffer = <<>>

LockSelf == Fenced /\ lock = NOBODY /\ lock' = Owner

(* The victim returns to the continuation of its youngest spawn. *)
PopStack ==
  /\ popped' = popped \union {stack[Len(stack)]}
  /\ stack' = SubSeq(stack, 1, Len(stack) - 1)

-----------------------------------------------------------------------------
(* Slips: what a plausible mistake would make of the actions below.  Nothing *)
(* here is part of the specification; each one is used to check that a       *)
(* property notices it.                                                      *)

(* Entry and tail stored in the wrong order. *)
Detach_TailFirst ==
  /\ vpc = "run"
  /\ spawns < MaxSpawn
  /\ ltail + 1 < Depth
  /\ spawns' = spawns + 1
  /\ stack' = Append(stack, spawns')
  /\ ltail' = ltail + 1
  /\ buffer' = Append(Append(buffer, TailStore(ltail')), SlotStore(ltail, spawns'))
  /\ UNCHANGED <<pointers, vpc, popped, thiefVars, lock, closure>>

(* The update of the flags is no longer a locked instruction. *)
LeaveFence_None ==
  /\ vpc = "fence"
  /\ vpc' = "check"
  /\ UNCHANGED <<pointers, buffer, ltail, stack, spawns, popped, thiefVars, lock, closure>>

(* head >= tail instead of head > tail. *)
HandlerLock_OffByOne ==
  /\ vpc = "handler"
  /\ LockSelf
  /\ exc' = head
  /\ \/ head >= tail /\ closure' = "returning" /\ vpc' = "unwind"
     \/ head < tail /\ closure' = closure /\ vpc' = "resume"
  /\ UNCHANGED <<head, tail, slot, buffer, ltail, stack, spawns, popped, thiefVars>>

(* The early return after a failed Closure_trylock keeps the deque's lock. *)
TryLock_NoUnlock(t) ==
  /\ tpc[t] = "idle"
  /\ lock = NOBODY
  /\ lock' = t
  /\ \/ closure = "running" /\ tpc' = [tpc EXCEPT ![t] = "raise"]
     \/ UNCHANGED tpc
  /\ UNCHANGED <<pointers, victimVars, loot, stolen, closure>>

(* The thief looks at H and T before E is visible. *)
RaiseExc_NotVisible(t) ==
  /\ tpc[t] = "raise"
  /\ tpc' = [tpc EXCEPT ![t] = "dekker"]
  /\ UNCHANGED <<pointers, victimVars, loot, stolen, lock, closure>>

(* The failed steal leaves E raised. *)
RetractExc_Forgotten(t) ==
  /\ tpc[t] = "retract"
  /\ tpc' = [tpc EXCEPT ![t] = "unlock"]
  /\ UNCHANGED <<pointers, victimVars, loot, stolen, lock, closure>>

(* The thief also takes the entry at T. *)
Dekker_LastEntry(t) ==
  /\ tpc[t] = "dekker"
  /\ \/ head > tail /\ tpc' = [tpc EXCEPT ![t] = "retract"]
     \/ head <= tail /\ tpc' = [tpc EXCEPT ![t] = "read"]
  /\ UNCHANGED <<pointers, victimVars, loot, stolen, lock, closure>>

(* H is left alone after the steal. *)
BumpHead_None(t) ==
  /\ tpc[t] = "bump"
  /\ UNCHANGED head
  /\ stolen' = stolen \union {loot[t]}
  /\ tpc' = [tpc EXCEPT ![t] = "unlock"]
  /\ UNCHANGED <<tail, exc, slot, victimVars, loot, lock, closure>>

-----------------------------------------------------------------------------
(* setup_for_execution: the three pointers go back to the base of the stack; *)
(* only the closure's lock is held, not the deque's.                         *)
SetupForExecution ==
  /\ vpc = "runtime"
  /\ vpc' = "add"
  /\ head' = 0 /\ tail' = 0 /\ ltail' = 0
  /\ exc' = head'
  /\ UNCHANGED <<slot, buffer, stack, spawns, popped, thiefVars, lock, closure>>

(* deque_lock_self and deque_add_bottom of do_what_it_says. *)
AddBottom ==
  /\ vpc = "add"
  /\ LockSelf
  /\ closure' = "running"
  /\ vpc' = "unlock_add"
  /\ UNCHANGED <<pointers, buffer, ltail, stack, spawns, popped, thiefVars>>

EnterUserCode ==
  /\ vpc = "unlock_add"
  /\ lock' = NOBODY
  /\ vpc' = "run"
  /\ UNCHANGED <<pointers, buffer, ltail, stack, spawns, popped, thiefVars, closure>>

(* __cilkrts_detach: the continuation is stored before the new tail.  The    *)
(* guard on Depth is the assertion there: nothing else bounds the tail.      *)
Detach ==
  /\ vpc = "run"
  /\ spawns < MaxSpawn
  /\ ltail + 1 < Depth
  /\ spawns' = spawns + 1
  /\ stack' = Append(stack, spawns')
  /\ ltail' = ltail + 1
  /\ buffer' = Append(Append(buffer, SlotStore(ltail, spawns')), TailStore(ltail'))
  /\ UNCHANGED <<pointers, vpc, popped, thiefVars, lock, closure>>

(* __cilkrts_leave_frame of a detached frame: --t; w->tail = t. *)
LeaveStoreTail ==
  /\ vpc = "run"
  /\ stack # <<>>
  /\ ltail' = ltail - 1
  /\ buffer' = Append(buffer, TailStore(ltail'))
  /\ vpc' = "fence"
  /\ UNCHANGED <<pointers, stack, spawns, popped, thiefVars, lock, closure>>

(* The atomic update of sf->flags: the store of the tail is visible after it. *)
LeaveFence ==
  /\ vpc = "fence"
  /\ Fenced
  /\ vpc' = "check"
  /\ UNCHANGED <<pointers, buffer, ltail, stack, spawns, popped, thiefVars, lock, closure>>

(* if (w->exc > t): without contention the frame just returns. *)
LeaveCheck ==
  /\ vpc = "check"
  /\ \/ /\ exc > ltail
        /\ vpc' = "handler"
        /\ UNCHANGED <<stack, popped>>
     \/ /\ exc <= ltail
        /\ vpc' = "run"
        /\ PopStack
  /\ UNCHANGED <<pointers, buffer, ltail, spawns, thiefVars, lock, closure>>

(* Cilk_exception_handler, up to its verdict: E is reset under the deque's lock. *)
HandlerLock ==
  /\ vpc = "handler"
  /\ LockSelf
  /\ exc' = head
  /\ \/ /\ head > tail
        /\ closure' = "returning"
        /\ vpc' = "unwind"
     \/ /\ head <= tail
        /\ UNCHANGED closure
        /\ vpc' = "resume"
  /\ UNCHANGED <<head, tail, slot, buffer, ltail, stack, spawns, popped, thiefVars>>

(* False alarm: unlock and return to user code. *)
HandlerResume ==
  /\ vpc = "resume"
  /\ lock' = NOBODY
  /\ vpc' = "run"
  /\ PopStack
  /\ UNCHANGED <<pointers, buffer, ltail, spawns, thiefVars, closure>>

(* The parent was stolen: unlock and longjmp to the runtime. *)
HandlerUnwind ==
  /\ vpc = "unwind"
  /\ lock' = NOBODY
  /\ vpc' = "extract"
  /\ stack' = <<>>
  /\ UNCHANGED <<pointers, buffer, ltail, spawns, popped, thiefVars, closure>>

(* The victim takes its closure off its deque: in worker_scheduler to return *)
(* it, or in Cilk_sync, with nothing left to pop, to suspend it.             *)
Extract ==
  /\ \/ vpc = "extract"
     \/ vpc = "run" /\ stack = <<>>
  /\ LockSelf
  /\ closure' = "none"
  /\ vpc' = "unlock_extract"
  /\ UNCHANGED <<pointers, buffer, ltail, stack, spawns, popped, thiefVars>>

BackToRuntime ==
  /\ vpc = "unlock_extract"
  /\ lock' = NOBODY
  /\ vpc' = "runtime"
  /\ UNCHANGED <<pointers, buffer, ltail, stack, spawns, popped, thiefVars, closure>>

-----------------------------------------------------------------------------
(* deque_trylock and deque_peek_top of Closure_steal.  The closure's own     *)
(* lock, which a returning child of it may hold, may refuse the thief too.   *)
TryLock(t) ==
  /\ tpc[t] = "idle"
  /\ lock = NOBODY
  /\ lock' = t
  /\ \/ /\ closure = "running"
        /\ tpc' = [tpc EXCEPT ![t] = "raise"]
     \/ tpc' = [tpc EXCEPT ![t] = "unlock"]
  /\ UNCHANGED <<pointers, victimVars, loot, stolen, closure>>

(* increment_exception_pointer, complete when its fence is. *)
RaiseExc(t) ==
  /\ tpc[t] = "raise"
  /\ exc' = exc + 1
  /\ tpc' = [tpc EXCEPT ![t] = "dekker"]
  /\ UNCHANGED <<head, tail, slot, victimVars, loot, stolen, lock, closure>>

(* do_dekker_on: is there anything between H and T? *)
Dekker(t) ==
  /\ tpc[t] = "dekker"
  /\ \/ head >= tail /\ tpc' = [tpc EXCEPT ![t] = "retract"]
     \/ head <  tail /\ tpc' = [tpc EXCEPT ![t] = "read"]
  /\ UNCHANGED <<pointers, victimVars, loot, stolen, lock, closure>>

(* decrement_exception_pointer. *)
RetractExc(t) ==
  /\ tpc[t] = "retract"
  /\ exc' = exc - 1
  /\ tpc' = [tpc EXCEPT ![t] = "unlock"]
  /\ UNCHANGED <<head, tail, slot, victimVars, loot, stolen, lock, closure>>

(* promote_child reads frame_to_steal ... *)
ReadFrame(t) ==
  /\ tpc[t] = "read"
  /\ loot' = [loot EXCEPT ![t] = slot[head]]
  /\ tpc' = [tpc EXCEPT ![t] = "bump"]
  /\ UNCHANGED <<pointers, victimVars, stolen, lock, closure>>

(* ... and increments H; a closure for the child replaces the stolen one. *)
BumpHead(t) ==
  /\ tpc[t] = "bump"
  /\ head' = head + 1
  /\ stolen' = stolen \union {loot[t]}
  /\ tpc' = [tpc EXCEPT ![t] = "unlock"]
  /\ UNCHANGED <<tail, exc, slot, victimVars, loot, lock, closure>>

UnlockVictim(t) ==
  /\ tpc[t] = "unlock"
  /\ lock' = NOBODY
  /\ tpc' = [tpc EXCEPT ![t] = "idle"]
  /\ UNCHANGED <<pointers, victimVars, loot, stolen, closure>>

-----------------------------------------------------------------------------
VictimStep ==
  \/ SetupForExecution \/ AddBottom \/ EnterUserCode
  \/ Detach \/ LeaveStoreTail \/ LeaveFence \/ LeaveCheck
  \/ HandlerLock \/ HandlerResume \/ HandlerUnwind
  \/ Extract \/ BackToRuntime

ThiefStep(t) ==
  \/ TryLock(t) \/ RaiseExc(t) \/ Dekker(t) \/ RetractExc(t)
  \/ ReadFrame(t) \/ BumpHead(t) \/ UnlockVictim(t)

Next == Drain \/ VictimStep \/ \E t \in Thieves : ThiefStep(t)

Spec == Init /\ [][Next]_vars

(* Every processor keeps executing, and a store buffer empties eventually.   *)
(* Nothing is assumed of the spin lock: who gets it next is left open.       *)
Fairness ==
  /\ WF_vars(Drain)
  /\ WF_vars(VictimStep)
  /\ \A t \in Thieves : WF_vars(ThiefStep(t))

FairSpec == Spec /\ Fairness
-----------------------------------------------------------------------------
(* Continuations nobody has claimed yet.  The detached frame the victim is   *)
(* leaving counts until the protocol has decided who gets its parent.        *)
Outstanding == SubSeq(stack, head + 1, Len(stack))

(* The victim and the thieves never both resume the same continuation: the   *)
(* pop of __cilkrts_leave_frame and the steal of promote_child exclude each  *)
(* other although the pop takes no lock.                                     *)
ResumedOnce == popped \intersect stolen = {}

(* No continuation is forgotten: each spawn so far was popped, was stolen or *)
(* is still between H and the top of the victim's stack.                     *)
NothingLost ==
  1..spawns = popped \union stolen
                \union {Outstanding[i] : i \in 1..Len(Outstanding)}

(* Thieves and the exception handler leave E where they found H, so that the *)
(* victim's cheap test in __cilkrts_leave_frame is exact when nobody steals. *)
ExcAtHead == lock = NOBODY /\ closure = "running" => exc = head

(* What promote_child asserts, and why it is safe with H = T: a victim that  *)
(* has already dropped T to H is on its way to the exception handler.        *)
PromoteClaims ==
  \A t \in Thieves : tpc[t] \in {"read", "bump"} =>
    /\ head < exc /\ head <= tail
    /\ head >= ltail => vpc \in {"fence", "check", "handler"}

(* The frame a thief reads is the one the victim pushed there: the store of  *)
(* the entry is visible before the store of the tail that covers it, and no  *)
(* later push has overwritten it.                                            *)
VisibleFrame ==
  \A t \in Thieves : tpc[t] = "bump" => stack[head + 1] = loot[t]

(* Cilk_exception_handler abandons user code exactly when the continuation   *)
(* the victim is returning to is gone.                                       *)
HandlerVerdict ==
  [][vpc = "handler" /\ vpc' # "handler" =>
       (vpc' = "unwind" <=> stack[Len(stack)] \in stolen)]_vars

(* Whoever holds the lock of the deque gives it back, on the paths where the *)
(* steal is given up as well.                                                *)
LockReleased == \A p \in Thieves \union {Owner} : lock = p ~> lock # p

(* The protocol implements a deque whose operations are single steps: a pop  *)
(* takes effect at the victim's test of E (or in the handler that overrules  *)
(* it), a steal when H moves.                                                *)
Deque == INSTANCE WorkDeque WITH items <- Outstanding
ImplementsDeque == Deque!Spec
=============================================================================
