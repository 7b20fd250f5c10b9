------------------------- MODULE THEProtocol_proof -------------------------
(***************************************************************************)
(* Proofs about the THE protocol, for any number of thieves, any depth of  *)
(* the shadow stack and any number of spawns.                              *)
(***************************************************************************)
EXTENDS THEProtocol, SequenceTheorems, TLAPS

(* The victim is leaving a detached frame: T is already below the entry. *)
Leaving == vpc \in {"fence", "check", "handler", "resume", "unwind"}
InUserCode == vpc = "run" \/ Leaving

(* Who is inside a critical section of the deque's lock. *)
LockInv ==
  /\ \A t \in Thieves : tpc[t] # "idle" <=> lock = t
  /\ lock = Owner <=> vpc \in {"unlock_add", "resume", "unwind", "unlock_extract"}

(* The status of the closure follows the victim; thieves only work on a     *)
(* running one.                                                             *)
ClosureInv ==
  /\ closure = "none" <=> vpc \in {"runtime", "add", "unlock_extract"}
  /\ closure = "returning" <=> vpc \in {"unwind", "extract"}
  /\ \A t \in Thieves : tpc[t] \in InDekker \union {"raise"} => closure = "running"

(* T mirrors the depth of the victim's stack. *)
StackInv ==
  /\ Len(stack) <= Depth
  /\ vpc = "run" => ltail = Len(stack)
  /\ Leaving => Len(stack) = ltail + 1
  /\ ~InUserCode => stack = <<>>
  /\ vpc \in {"add", "unlock_add"} => head = 0 /\ ltail = 0

(* H and E against the stack. *)
PointerInv ==
  /\ closure = "running" =>
       /\ (\E t \in Thieves : tpc[t] \in InDekker) => exc = head + 1
       /\ (\A t \in Thieves : tpc[t] \notin InDekker) => exc = head
  /\ vpc = "add" => exc = head
  /\ InUserCode => head <= Len(stack)
  /\ \A t \in Thieves : tpc[t] \in {"read", "bump"} => head < Len(stack)
  /\ vpc = "resume" => head < Len(stack)
  /\ vpc = "unwind" => head = Len(stack)

(* What the victim's store buffer can hold. *)
BufferInv ==
  /\ vpc \notin {"run", "fence"} => buffer = <<>>
  /\ buffer = <<>> => tail = ltail
  /\ buffer # <<>> => buffer[Len(buffer)] = TailStore(ltail)
  /\ InUserCode => tail <= Len(stack)
  /\ \A k \in 1..Len(buffer) :
       /\ buffer[k].loc = "tail" => buffer[k].val <= Len(stack)
       /\ buffer[k].loc = "slot" =>
            buffer[k].idx < Len(stack) /\ buffer[k].val = stack[buffer[k].idx + 1]

(* Every entry below a tail that is, or will become, visible is in memory or *)
(* buffered ahead of that tail.                                              *)
InMemory(i) == slot[i] = stack[i + 1]
VisibleInv ==
  /\ InUserCode =>
       /\ \A i \in 0..tail-1 : InMemory(i)
       /\ \A k \in 1..Len(buffer) : buffer[k].loc = "tail" =>
            \A i \in 0..buffer[k].val-1 :
              \/ InMemory(i)
              \/ \E j \in 1..k-1 : buffer[j].loc = "slot" /\ buffer[j].idx = i
  /\ \A t \in Thieves : tpc[t] = "read" => InMemory(head)

(* The tails on their way to memory grow, except for the one the victim is   *)
(* waiting for in __cilkrts_leave_frame; none passes under a steal.          *)
Pending(k) == buffer[k].loc = "tail"
Growing(k) == Pending(k) /\ (vpc = "run" \/ k # Len(buffer))
OrderInv ==
  /\ \A k \in 1..Len(buffer) : Growing(k) =>
       /\ tail < buffer[k].val
       /\ \A j \in 1..k-1 : Pending(j) => buffer[j].val < buffer[k].val
  /\ \A t \in Thieves : tpc[t] \in {"read", "bump"} =>
       head <= tail /\ \A k \in 1..Len(buffer) : Pending(k) => head <= buffer[k].val

(* Where each continuation is. *)
HistoryInv ==
  /\ popped \intersect stolen = {}
  /\ popped \union stolen \subseteq 1..spawns
  /\ \A i \in 1..Len(stack) : stack[i] \in 1..spawns
  /\ \A i, j \in 1..Len(stack) : stack[i] = stack[j] => i = j
  /\ \A i \in 1..Len(stack) : i > head => stack[i] \notin popped \union stolen
  /\ \A i \in 1..Len(stack) : i <= head => stack[i] \in stolen
  /\ \A x \in 1..spawns :
       x \in popped \union stolen \/ \E i \in 1..Len(stack) : stack[i] = x
  /\ \A t \in Thieves : tpc[t] = "bump" => loot[t] = stack[head + 1]

IInv == /\ TypeOK /\ LockInv /\ ClosureInv /\ StackInv /\ PointerInv
        /\ BufferInv /\ VisibleInv /\ OrderInv /\ HistoryInv

-----------------------------------------------------------------------------
(* Facts about stores and about the stack the steps rest on. *)
LEMMA StoreFields ==
  ASSUME NEW i \in Nat, NEW x \in Nat
  PROVE  SlotStore(i, x) \in Store /\ TailStore(i) \in Store
BY DEF Store, SlotStore, TailStore

(* The fields of a buffered store. *)
LEMMA StoreVal == \A s \in Store : s.loc \in {"slot", "tail"} /\ s.idx \in Nat /\ s.val \in Nat
BY DEF Store

(* The stack without its top. *)
LEMMA FrontFacts ==
  ASSUME NEW S, NEW s \in Seq(S), Len(s) # 0
  PROVE  /\ SubSeq(s, 1, Len(s) - 1) \in Seq(S)
         /\ Len(SubSeq(s, 1, Len(s) - 1)) = Len(s) - 1
         /\ \A i \in 1..Len(s)-1 : SubSeq(s, 1, Len(s) - 1)[i] = s[i]
<1>. DEFINE n == Len(s) - 1
<1>1. n \in Nat /\ \A i \in 1..n : s[i] \in S
  OBVIOUS
<1>. HIDE DEF n
<1>2. /\ SubSeq(s, 1, n) \in Seq(S)
      /\ Len(SubSeq(s, 1, n)) = IF 1 <= n THEN n - 1 + 1 ELSE 0
      /\ \A i \in 1..n-1+1 : SubSeq(s, 1, n)[i] = s[1 + i - 1]
  BY <1>1, SubSeqProperties
<1>3. /\ SubSeq(s, 1, n) \in Seq(S)
      /\ Len(SubSeq(s, 1, n)) = n
      /\ \A i \in 1..n : SubSeq(s, 1, n)[i] = s[i]
  BY <1>1, <1>2
<1>. QED  BY <1>3 DEF n

(* Every step of the protocol preserves the invariant: one lemma per action. *)
LEMMA DrainStep ==
  ASSUME IInv, Drain
  PROVE  IInv'
<1>. USE ThievesAssumption, DepthAssumption DEF IInv, pointers, victimVars, thiefVars, LockSelf, Fenced, Leaving, InUserCode, InDekker, InMemory
<1>tl. /\ buffer' \in Seq(Store) /\ Len(buffer') = Len(buffer) - 1
       /\ \A k \in 1..Len(buffer') : buffer'[k] = buffer[k + 1]
       /\ buffer[1] \in Store /\ Head(buffer) = buffer[1] /\ Len(buffer) >= 1
  BY HeadTailProperties DEF TypeOK, Drain
<1>fr. /\ UNCHANGED <<head, exc, ltail, stack, vpc, spawns, popped, tpc, loot, stolen, lock, closure>>
       /\ \/ buffer[1].loc = "tail" /\ tail' = buffer[1].val /\ slot' = slot
          \/ /\ buffer[1].loc = "slot" /\ tail' = tail
             /\ slot' = [slot EXCEPT ![buffer[1].idx] = buffer[1].val]
  BY <1>tl DEF Drain
<1>1. TypeOK'
  <2>1. buffer[1].loc = "tail" => tail' \in Index
    BY <1>tl, <1>fr DEF TypeOK, BufferInv, StackInv, Index, Store
  <2>2. buffer[1].loc = "slot" => buffer[1].idx \in 0..Depth-1 /\ buffer[1].val \in 0..MaxSpawn
    <3>1. buffer[1].idx \in Nat /\ 1 \in 1..Len(buffer)
      BY <1>tl DEF Store, TypeOK
    <3>2. buffer[1].loc = "slot" =>
            buffer[1].idx < Len(stack) /\ buffer[1].val = stack[buffer[1].idx + 1]
      BY <3>1 DEF BufferInv
    <3>3. buffer[1].loc = "slot" => stack[buffer[1].idx + 1] \in Continuation
      BY <3>1, <3>2 DEF TypeOK
    <3>4. buffer[1].loc = "slot" => buffer[1].val \in 0..MaxSpawn
      BY <3>2, <3>3 DEF Continuation
    <3>5. buffer[1].loc = "slot" => buffer[1].idx \in 0..Depth-1
      BY <3>1, <3>2 DEF TypeOK, StackInv
    <3>. QED  BY <3>4, <3>5
  <2>3. slot' \in [0..Depth-1 -> 0..MaxSpawn]
    BY <1>fr, <2>2 DEF TypeOK
  <2>4. tail' \in Index
    BY <1>fr, <2>1 DEF TypeOK
  <2>. QED  BY <1>tl, <1>fr, <2>3, <2>4 DEF TypeOK
<1>2. LockInv'
  BY <1>fr DEF TypeOK, LockInv, VictimPC
<1>3. ClosureInv'
  BY <1>fr DEF TypeOK, ClosureInv, LockInv
<1>4. StackInv'
  BY <1>fr DEF TypeOK, StackInv, VictimPC, Index
<1>5. PointerInv'
  BY <1>fr DEF TypeOK, PointerInv, StackInv, LockInv, ClosureInv, BufferInv, Index
<1>6. BufferInv'
  <2>1. vpc \in {"run", "fence"}
    BY <1>tl DEF BufferInv, TypeOK
  <2>2. buffer' = <<>> => tail' = ltail'
    <3>1. buffer' = <<>> => Len(buffer) = 1
      BY <1>tl
    <3>2. buffer' = <<>> => buffer[1] = TailStore(ltail)
      BY <3>1, <1>tl DEF BufferInv, Drain
    <3>3. TailStore(ltail).loc = "tail" /\ TailStore(ltail).val = ltail
      BY DEF TailStore
    <3>. QED  BY <3>2, <3>3, <1>fr
  <2>3. buffer' # <<>> => buffer'[Len(buffer')] = TailStore(ltail')
    <3>1. buffer' # <<>> => Len(buffer') \in 1..Len(buffer') /\ Len(buffer') + 1 = Len(buffer)
      BY <1>tl
    <3>. QED  BY <3>1, <1>tl, <1>fr DEF BufferInv, TailStore
  <2>4. InUserCode' => tail' <= Len(stack)'
    BY <1>tl, <1>fr DEF BufferInv
  <2>5. \A k \in 1..Len(buffer') : k + 1 \in 1..Len(buffer) /\ buffer'[k] = buffer[k + 1]
    BY <1>tl DEF TypeOK
  <2>. QED  BY <2>1, <2>2, <2>3, <2>4, <2>5, <1>fr DEF BufferInv
<1>7. VisibleInv'
  <2>1. buffer[1].loc = "slot" =>
          buffer[1].idx \in 0..Depth-1 /\ buffer[1].val = stack[buffer[1].idx + 1]
    <3>1. buffer[1].idx \in Nat /\ 1 \in 1..Len(buffer)
      BY <1>tl DEF Store, TypeOK
    <3>2. buffer[1].loc = "slot" =>
            buffer[1].idx < Len(stack) /\ buffer[1].val = stack[buffer[1].idx + 1]
      BY <3>1 DEF BufferInv
    <3>. QED  BY <3>1, <3>2 DEF StackInv, TypeOK
  <2>2. \A i \in 0..Depth-1 : slot[i] = stack[i + 1] => slot'[i] = stack'[i + 1]
    BY <1>fr, <2>1 DEF TypeOK
  <2>3. buffer[1].loc = "slot" => slot'[buffer[1].idx] = stack'[buffer[1].idx + 1]
    BY <1>fr, <2>1 DEF TypeOK
  <2>4. ASSUME InUserCode'
        PROVE  \A i \in 0..tail'-1 : slot'[i] = stack'[i + 1]
    <3>1. InUserCode
      BY <2>4, <1>fr
    <3>2. CASE buffer[1].loc = "tail"
      <4>1. tail' = buffer[1].val /\ slot' = slot /\ stack' = stack
        BY <3>2, <1>fr
      <4>2. \A i \in 0..buffer[1].val-1 : InMemory(i) \/ \E j \in 1..1-1 : TRUE
        BY <3>1, <3>2, <1>tl DEF VisibleInv
      <4>. QED  BY <4>1, <4>2
    <3>3. CASE buffer[1].loc = "slot"
      BY <3>1, <3>3, <1>fr, <2>2 DEF VisibleInv, TypeOK, Index
    <3>. QED  BY <3>2, <3>3, <1>fr
  <2>5. ASSUME InUserCode', NEW k \in 1..Len(buffer'), buffer'[k].loc = "tail",
               NEW i \in 0..buffer'[k].val-1
        PROVE  \/ slot'[i] = stack'[i + 1]
               \/ \E j \in 1..k-1 : buffer'[j].loc = "slot" /\ buffer'[j].idx = i
    <3>1. InUserCode /\ k + 1 \in 1..Len(buffer) /\ buffer'[k] = buffer[k + 1]
      BY <2>5, <1>fr, <1>tl DEF TypeOK
    <3>4. i \in 0..Depth-1
      <4>1. buffer[k + 1].val \in Nat /\ buffer[k + 1].val <= Len(stack)
        <5>1. buffer[k + 1] \in Store
          BY <3>1 DEF TypeOK
        <5>. QED  BY <2>5, <3>1, <5>1, StoreVal DEF BufferInv
      <4>2. i \in Nat /\ i < buffer[k + 1].val
        BY <2>5, <3>1, <4>1
      <4>. QED  BY <4>1, <4>2 DEF StackInv, TypeOK
    <3>5. InMemory(i) \/ \E j \in 1..(k+1)-1 : buffer[j].loc = "slot" /\ buffer[j].idx = i
      <4>1. \A m \in 1..Len(buffer) : buffer[m].loc = "tail" =>
              \A z \in 0..buffer[m].val-1 :
                InMemory(z) \/ \E j \in 1..m-1 : buffer[j].loc = "slot" /\ buffer[j].idx = z
        BY <3>1 DEF VisibleInv
      <4>. QED  BY <2>5, <3>1, <4>1
    <3>2. CASE InMemory(i)
      BY <3>2, <3>4, <2>2
    <3>3. CASE \E j \in 1..(k+1)-1 : buffer[j].loc = "slot" /\ buffer[j].idx = i
      <4>1. PICK j \in 1..(k+1)-1 : buffer[j].loc = "slot" /\ buffer[j].idx = i
        BY <3>3
      <4>2. CASE j = 1
        BY <4>1, <4>2, <2>3
      <4>3. CASE j # 1
        <5>1. j - 1 \in 1..k-1 /\ j - 1 \in 1..Len(buffer') /\ (j - 1) + 1 = j
          BY <4>1, <4>3, <1>tl
        <5>2. buffer'[j - 1] = buffer[j]
          BY <5>1, <1>tl
        <5>. QED  BY <4>1, <5>1, <5>2
      <4>. QED  BY <4>2, <4>3
    <3>. QED  BY <3>2, <3>3, <3>5
  <2>6. \A t \in Thieves : tpc'[t] = "read" => slot'[head'] = stack'[head' + 1]
    <3>1. \A t \in Thieves : tpc[t] = "read" => head \in 0..Depth-1
      BY DEF PointerInv, StackInv, TypeOK, Index
    <3>. QED  BY <1>fr, <2>2, <3>1 DEF VisibleInv
  <2>. QED  BY <2>4, <2>5, <2>6 DEF VisibleInv
<1>8. OrderInv'
  <2>1. \A k \in 1..Len(buffer') :
          /\ k + 1 \in 1..Len(buffer) /\ buffer'[k] = buffer[k + 1]
          /\ Pending(k)' => Pending(k + 1)
          /\ Growing(k)' => Growing(k + 1)
    BY <1>tl, <1>fr DEF TypeOK, Pending, Growing
  <2>2. ASSUME NEW k \in 1..Len(buffer'), Growing(k)'
        PROVE  /\ tail' < buffer'[k].val
               /\ \A j \in 1..k-1 : Pending(j)' => buffer'[j].val < buffer'[k].val
    <3>1. /\ tail < buffer[k + 1].val
          /\ \A j \in 1..(k+1)-1 : Pending(j) => buffer[j].val < buffer[k + 1].val
      BY <2>1, <2>2 DEF OrderInv
    <3>2. tail' < buffer[k + 1].val
      <4>1. 1 \in 1..(k+1)-1
        OBVIOUS
      <4>. QED  BY <1>fr, <3>1, <4>1 DEF Pending
    <3>3. ASSUME NEW j \in 1..k-1, Pending(j)'
          PROVE  buffer'[j].val < buffer'[k].val
      <4>1. j \in 1..Len(buffer') /\ j + 1 \in 1..(k+1)-1
        BY <1>tl
      <4>. QED  BY <2>1, <3>1, <3>3, <4>1
    <3>. QED  BY <2>1, <3>2, <3>3
  <2>3. ASSUME NEW u \in Thieves, tpc[u] \in {"read", "bump"}
        PROVE  head <= tail' /\ \A k \in 1..Len(buffer') : Pending(k)' => head <= buffer'[k].val
    <3>1. head <= tail /\ \A k \in 1..Len(buffer) : Pending(k) => head <= buffer[k].val
      BY <2>3 DEF OrderInv
    <3>. QED  BY <1>tl, <1>fr, <2>1, <3>1 DEF Pending
  <2>. QED  BY <1>fr, <2>2, <2>3 DEF OrderInv
<1>9. HistoryInv'
  BY <1>fr DEF HistoryInv
<1>. QED  BY <1>1, <1>2, <1>3, <1>4, <1>5, <1>6, <1>7, <1>8, <1>9

LEMMA SetupForExecutionStep ==
  ASSUME IInv, SetupForExecution
  PROVE  IInv'
<1>. USE ThievesAssumption, DepthAssumption DEF IInv, SetupForExecution, pointers, victimVars, thiefVars, LockSelf, Fenced, Leaving, InUserCode, InDekker, InMemory
<1>1. TypeOK'
  BY DEF TypeOK, StackInv, PointerInv, ClosureInv, Continuation, Index, VictimPC, ThiefPC
<1>2. LockInv'
  BY DEF TypeOK, LockInv, VictimPC
<1>3. ClosureInv'
  BY DEF TypeOK, ClosureInv, LockInv
<1>4. StackInv'
  BY DEF TypeOK, StackInv, VictimPC, Index
<1>5. PointerInv'
  BY DEF TypeOK, PointerInv, StackInv, LockInv, ClosureInv, BufferInv, Index
<1>6. BufferInv'
  BY DEF TypeOK, BufferInv, StackInv, Index, TailStore, SlotStore
<1>7. VisibleInv'
  BY DEF TypeOK, VisibleInv, BufferInv, StackInv, PointerInv, ClosureInv, LockInv, Index, TailStore, SlotStore
<1>8. OrderInv'
  BY DEF TypeOK, OrderInv, Pending, Growing, BufferInv, StackInv, PointerInv, ClosureInv, LockInv, Index
<1>9. HistoryInv'
  BY DEF TypeOK, HistoryInv, StackInv, PointerInv, LockInv, ClosureInv, Continuation, Index
<1>. QED  BY <1>1, <1>2, <1>3, <1>4, <1>5, <1>6, <1>7, <1>8, <1>9

LEMMA AddBottomStep ==
  ASSUME IInv, AddBottom
  PROVE  IInv'
<1>. USE ThievesAssumption, DepthAssumption DEF IInv, AddBottom, pointers, victimVars, thiefVars, LockSelf, Fenced, Leaving, InUserCode, InDekker, InMemory
<1>1. TypeOK'
  BY DEF TypeOK, StackInv, PointerInv, ClosureInv, Continuation, Index, VictimPC, ThiefPC
<1>2. LockInv'
  BY DEF TypeOK, LockInv, VictimPC
<1>3. ClosureInv'
  BY DEF TypeOK, ClosureInv, LockInv
<1>4. StackInv'
  BY DEF TypeOK, StackInv, VictimPC, Index
<1>5. PointerInv'
  BY DEF TypeOK, PointerInv, StackInv, LockInv, ClosureInv, BufferInv, Index
<1>6. BufferInv'
  BY DEF TypeOK, BufferInv, StackInv, Index, TailStore, SlotStore
<1>7. VisibleInv'
  BY DEF TypeOK, VisibleInv, BufferInv, StackInv, PointerInv, ClosureInv, LockInv, Index, TailStore, SlotStore
<1>8. OrderInv'
  BY DEF TypeOK, OrderInv, Pending, Growing, BufferInv, StackInv, PointerInv, ClosureInv, LockInv, Index
<1>9. HistoryInv'
  BY DEF TypeOK, HistoryInv, StackInv, PointerInv, LockInv, ClosureInv, Continuation, Index
<1>. QED  BY <1>1, <1>2, <1>3, <1>4, <1>5, <1>6, <1>7, <1>8, <1>9

LEMMA EnterUserCodeStep ==
  ASSUME IInv, EnterUserCode
  PROVE  IInv'
<1>. USE ThievesAssumption, DepthAssumption DEF IInv, EnterUserCode, pointers, victimVars, thiefVars, LockSelf, Fenced, Leaving, InUserCode, InDekker, InMemory
<1>1. TypeOK'
  BY DEF TypeOK, StackInv, PointerInv, ClosureInv, Continuation, Index, VictimPC, ThiefPC
<1>2. LockInv'
  BY DEF TypeOK, LockInv, VictimPC
<1>3. ClosureInv'
  BY DEF TypeOK, ClosureInv, LockInv
<1>4. StackInv'
  BY DEF TypeOK, StackInv, VictimPC, Index
<1>5. PointerInv'
  BY DEF TypeOK, PointerInv, StackInv, LockInv, ClosureInv, BufferInv, Index
<1>6. BufferInv'
  BY DEF TypeOK, BufferInv, StackInv, Index, TailStore, SlotStore
<1>7. VisibleInv'
  BY DEF TypeOK, VisibleInv, BufferInv, StackInv, PointerInv, ClosureInv, LockInv, Index, TailStore, SlotStore
<1>8. OrderInv'
  BY DEF TypeOK, OrderInv, Pending, Growing, BufferInv, StackInv, PointerInv, ClosureInv, LockInv, Index
<1>9. HistoryInv'
  BY DEF TypeOK, HistoryInv, StackInv, PointerInv, LockInv, ClosureInv, Continuation, Index
<1>. QED  BY <1>1, <1>2, <1>3, <1>4, <1>5, <1>6, <1>7, <1>8, <1>9

LEMMA DetachStep ==
  ASSUME IInv, Detach
  PROVE  IInv'
<1>. USE ThievesAssumption, DepthAssumption DEF IInv, pointers, victimVars, thiefVars, LockSelf, Fenced, Leaving, InUserCode, InDekker, InMemory
<1>ty. ltail \in 0..Depth-1 /\ ltail' \in Index /\ spawns' \in Continuation
  BY DEF TypeOK, Index, Continuation, Detach
<1>st. /\ stack' \in Seq(Continuation) /\ Len(stack') = Len(stack) + 1
       /\ \A i \in 1..Len(stack) : stack'[i] = stack[i]
       /\ stack'[Len(stack) + 1] = spawns'
  BY <1>ty, AppendProperties DEF TypeOK, Detach
<1>bu. /\ buffer' \in Seq(Store) /\ Len(buffer') = Len(buffer) + 2
       /\ \A k \in 1..Len(buffer) : buffer'[k] = buffer[k]
       /\ buffer'[Len(buffer) + 1] = SlotStore(ltail, spawns')
       /\ buffer'[Len(buffer) + 2] = TailStore(ltail')
  <2>. DEFINE b == Append(buffer, SlotStore(ltail, spawns'))
  <2>1. SlotStore(ltail, spawns') \in Store /\ TailStore(ltail') \in Store
    BY <1>ty, StoreFields DEF Index, Continuation
  <2>2. /\ b \in Seq(Store) /\ Len(b) = Len(buffer) + 1
        /\ \A k \in 1..Len(buffer) : b[k] = buffer[k]
        /\ b[Len(buffer) + 1] = SlotStore(ltail, spawns')
    BY <2>1, AppendProperties DEF TypeOK
  <2>. HIDE DEF b
  <2>3. buffer' = Append(b, TailStore(ltail')) /\ Len(buffer) \in Nat
    BY DEF b, Detach, TypeOK
  <2>4. /\ buffer' \in Seq(Store) /\ Len(buffer') = Len(b) + 1
        /\ \A k \in 1..Len(b) : buffer'[k] = b[k]
        /\ buffer'[Len(b) + 1] = TailStore(ltail')
    BY <2>1, <2>2, <2>3, AppendProperties
  <2>5. \A k \in 1..Len(buffer) : k \in 1..Len(b)
    BY <2>2, <2>3
  <2>. QED  BY <2>2, <2>3, <2>4, <2>5
<1>fr. /\ vpc = "run" /\ spawns' = spawns + 1 /\ ltail' = ltail + 1
       /\ UNCHANGED <<head, tail, exc, slot, vpc, popped, tpc, loot, stolen, lock, closure>>
  BY DEF Detach
<1>1. TypeOK'
  <2>1. spawns' \in 0..MaxSpawn
    BY <1>ty DEF Continuation
  <2>. QED  BY <1>ty, <1>st, <1>bu, <1>fr, <2>1 DEF TypeOK
<1>2. LockInv'
  BY <1>fr DEF TypeOK, LockInv, VictimPC
<1>3. ClosureInv'
  BY <1>fr DEF TypeOK, ClosureInv, LockInv
<1>4. StackInv'
  BY <1>ty, <1>st, <1>fr DEF TypeOK, StackInv, VictimPC, Index
<1>5. PointerInv'
  <2>1. head <= Len(stack)' /\ \A t \in Thieves : tpc[t] \in {"read", "bump"} => head < Len(stack)'
    BY <1>st, <1>fr DEF PointerInv, TypeOK, Index
  <2>. QED  BY <1>fr, <2>1 DEF PointerInv
<1>6. BufferInv'
  <2>1. Len(buffer) \in Nat /\ Len(stack) \in Nat /\ ltail = Len(stack) /\ ltail' = Len(stack)'
    BY <1>fr, <1>st DEF TypeOK, StackInv
  <2>2. tail <= Len(stack)'
    BY <1>fr, <1>st, <2>1 DEF BufferInv, TypeOK, Index
  <2>3. \A k \in 1..Len(buffer) :
          /\ buffer'[k].loc = "tail" => buffer'[k].val <= Len(stack)'
          /\ buffer'[k].loc = "slot" => /\ buffer'[k].idx < Len(stack)'
                                        /\ buffer'[k].val = stack'[buffer'[k].idx + 1]
    <3>1. \A k \in 1..Len(buffer) : buffer[k] \in Store
      BY DEF TypeOK
    <3>2. \A k \in 1..Len(buffer) : buffer[k].loc = "slot" => buffer[k].idx + 1 \in 1..Len(stack)
      BY <3>1, <2>1 DEF BufferInv, Store
    <3>3. \A k \in 1..Len(buffer) : buffer[k].val \in Nat /\ buffer[k].idx \in Nat
      BY <3>1, StoreVal
    <3>. QED  BY <1>st, <1>bu, <2>1, <3>2, <3>3 DEF BufferInv
  <2>4. LET k == Len(buffer) + 1
        IN  /\ buffer'[k].loc = "slot" /\ buffer'[k].idx < Len(stack)'
            /\ buffer'[k].val = stack'[buffer'[k].idx + 1]
    BY <1>st, <1>bu, <2>1 DEF SlotStore
  <2>5. LET k == Len(buffer) + 2
        IN  buffer'[k].loc = "tail" /\ buffer'[k].val <= Len(stack)'
    BY <1>st, <1>bu, <2>1 DEF TailStore
  <2>6. \A k \in 1..Len(buffer)' :
          k \in 1..Len(buffer) \/ k = Len(buffer) + 1 \/ k = Len(buffer) + 2
    BY <1>bu, <2>1
  <2>7. buffer' # <<>> /\ buffer'[Len(buffer)'] = TailStore(ltail')
    BY <1>bu, <2>1
  <2>. QED  BY <1>fr, <2>2, <2>3, <2>4, <2>5, <2>6, <2>7 DEF BufferInv
<1>7. VisibleInv'
  <2>1. Len(buffer) \in Nat /\ Len(stack) \in Nat /\ ltail = Len(stack)
    BY <1>fr DEF TypeOK, StackInv
  <2>2. \A i \in Nat : i < Len(stack) => stack'[i + 1] = stack[i + 1]
    BY <1>st, <2>1
  <2>3. tail \in Nat /\ tail <= Len(stack)
    BY <1>fr DEF BufferInv, TypeOK, Index
  <2>4. \A i \in 0..tail-1 : slot[i] = stack'[i + 1]
    BY <1>fr, <2>2, <2>3 DEF VisibleInv
  <2>5. ASSUME NEW k \in 1..Len(buffer), buffer'[k].loc = "tail", NEW i \in 0..buffer'[k].val-1
        PROVE  \/ slot[i] = stack'[i + 1]
               \/ \E j \in 1..k-1 : buffer'[j].loc = "slot" /\ buffer'[j].idx = i
    <3>1. buffer'[k] = buffer[k] /\ \A j \in 1..k-1 : buffer'[j] = buffer[j]
      BY <1>bu, <2>1
    <3>2. buffer[k].val \in Nat /\ buffer[k].val <= Len(stack)
      <4>1. buffer[k] \in Store
        BY DEF TypeOK
      <4>. QED  BY <2>5, <3>1, <4>1, StoreVal DEF BufferInv
    <3>3. i \in Nat /\ i < Len(stack)
      BY <2>1, <3>1, <3>2
    <3>4. InMemory(i) \/ \E j \in 1..k-1 : buffer[j].loc = "slot" /\ buffer[j].idx = i
      BY <1>fr, <2>5, <3>1 DEF VisibleInv
    <3>. QED  BY <2>2, <3>1, <3>3, <3>4
  <2>6. ASSUME NEW i \in 0..ltail'-1
        PROVE  \/ slot[i] = stack'[i + 1]
               \/ \E j \in 1..Len(buffer)+1 : buffer'[j].loc = "slot" /\ buffer'[j].idx = i
    <3>1. CASE i = ltail
      BY <3>1, <1>bu, <2>1 DEF SlotStore
    <3>2. CASE i # ltail /\ buffer = <<>>
      <4>1. i \in 0..tail-1
        BY <3>2, <1>fr, <2>1 DEF BufferInv
      <4>. QED  BY <4>1, <2>4
    <3>3. CASE i # ltail /\ buffer # <<>>
      <4>1. Len(buffer) \in 1..Len(buffer)
        BY <3>3, <2>1 DEF TypeOK
      <4>2. buffer'[Len(buffer)] = TailStore(ltail)
        BY <3>3, <4>1, <1>bu DEF BufferInv
      <4>3. buffer'[Len(buffer)].loc = "tail" /\ i \in 0..buffer'[Len(buffer)].val-1
        BY <3>3, <4>2, <1>fr, <2>1 DEF TailStore
      <4>. QED  BY <2>1, <2>5, <4>1, <4>3
    <3>. QED  BY <3>1, <3>2, <3>3
  <2>7. ASSUME NEW k \in 1..Len(buffer)', buffer'[k].loc = "tail", NEW i \in 0..buffer'[k].val-1
        PROVE  \/ slot[i] = stack'[i + 1]
               \/ \E j \in 1..k-1 : buffer'[j].loc = "slot" /\ buffer'[j].idx = i
    <3>1. CASE k \in 1..Len(buffer)
      BY <2>5, <2>7, <3>1
    <3>2. CASE k = Len(buffer) + 1
      BY <2>7, <3>2, <1>bu DEF SlotStore
    <3>3. CASE k = Len(buffer) + 2
      <4>1. buffer'[k].val = ltail' /\ k - 1 = Len(buffer) + 1
        BY <3>3, <1>bu, <2>1 DEF TailStore
      <4>. QED  BY <2>6, <4>1
    <3>. QED  BY <1>bu, <2>1, <3>1, <3>2, <3>3
  <2>8. \A t \in Thieves : tpc[t] = "read" => slot[head] = stack'[head + 1]
    BY <2>2 DEF VisibleInv, PointerInv, TypeOK, Index
  <2>. QED  BY <1>fr, <2>4, <2>7, <2>8 DEF VisibleInv
<1>8. OrderInv'
  <2>1. /\ Len(buffer) \in Nat /\ Len(stack) \in Nat /\ ltail = Len(stack)
        /\ tail \in Nat /\ tail <= Len(stack) /\ head \in Nat
    BY <1>fr DEF TypeOK, StackInv, BufferInv, Index
  <2>2. \A k \in 1..Len(buffer) :
          /\ buffer'[k] = buffer[k] /\ buffer[k].val \in Nat
          /\ Pending(k) => buffer[k].val <= Len(stack)
    <3>1. \A k \in 1..Len(buffer) : buffer[k] \in Store
      BY DEF TypeOK
    <3>. QED  BY <1>bu, <3>1, StoreVal DEF BufferInv, Pending
  <2>3. buffer'[Len(buffer) + 1].loc = "slot"
    BY <1>bu DEF SlotStore
  <2>4. LET k == Len(buffer) + 2 IN buffer'[k].val = Len(stack) + 1
    BY <1>bu, <1>fr, <2>1 DEF TailStore
  <2>5. \A k \in 1..Len(buffer)' :
          k \in 1..Len(buffer) \/ k = Len(buffer) + 1 \/ k = Len(buffer) + 2
    BY <1>bu, <2>1
  <2>6. ASSUME NEW k \in 1..Len(buffer)', Growing(k)'
        PROVE  /\ tail < buffer'[k].val
               /\ \A j \in 1..k-1 : Pending(j)' => buffer'[j].val < buffer'[k].val
    <3>1. CASE k \in 1..Len(buffer)
      <4>1. Growing(k) /\ \A j \in 1..k-1 : j \in 1..Len(buffer) /\ (Pending(j)' => Pending(j))
        BY <1>fr, <2>2, <2>6, <3>1 DEF Pending, Growing
      <4>. QED  BY <2>2, <3>1, <4>1 DEF OrderInv
    <3>2. CASE k = Len(buffer) + 1
      BY <2>3, <2>6, <3>2 DEF Growing, Pending
    <3>3. CASE k = Len(buffer) + 2
      <4>1. \A j \in 1..k-1 : Pending(j)' => j \in 1..Len(buffer) /\ Pending(j)
        <5>1. \A j \in 1..k-1 : j \in 1..Len(buffer) \/ j = Len(buffer) + 1
          BY <2>1, <3>3
        <5>. QED  BY <2>2, <2>3, <5>1 DEF Pending
      <4>. QED  BY <2>1, <2>2, <2>4, <3>3, <4>1
    <3>. QED  BY <2>5, <3>1, <3>2, <3>3
  <2>7. ASSUME NEW u \in Thieves, tpc[u] \in {"read", "bump"}
        PROVE  head <= tail /\ \A k \in 1..Len(buffer)' : Pending(k)' => head <= buffer'[k].val
    <3>1. head <= tail /\ head < Len(stack) /\ \A k \in 1..Len(buffer) : Pending(k) => head <= buffer[k].val
      BY <2>7 DEF OrderInv, PointerInv
    <3>2. \A k \in 1..Len(buffer) : Pending(k)' => Pending(k)
      BY <2>2 DEF Pending
    <3>3. ASSUME NEW k \in 1..Len(buffer)', Pending(k)'
          PROVE  head <= buffer'[k].val
      <4>1. CASE k \in 1..Len(buffer)
        BY <2>2, <3>1, <3>2, <3>3, <4>1
      <4>2. CASE k = Len(buffer) + 1
        BY <2>3, <3>3, <4>2 DEF Pending
      <4>3. CASE k = Len(buffer) + 2
        BY <2>1, <2>4, <3>1, <4>3
      <4>. QED  BY <2>5, <4>1, <4>2, <4>3
    <3>. QED  BY <3>1, <3>3
  <2>. QED  BY <1>fr, <2>6, <2>7 DEF OrderInv
<1>9. HistoryInv'
  <2>1. Len(stack) \in Nat /\ spawns \in Nat /\ head \in Nat /\ head <= Len(stack)
    BY <1>fr DEF TypeOK, PointerInv, Index
  <2>2. /\ stolen \subseteq 1..spawns /\ popped \subseteq 1..spawns
        /\ spawns' \notin 1..spawns /\ \A x \in 1..spawns' : x \in 1..spawns \/ x = spawns'
    BY <1>fr, <2>1 DEF HistoryInv
  <2>3. \A i \in 1..Len(stack)' : \/ i \in 1..Len(stack) /\ stack'[i] = stack[i]
                                  \/ i = Len(stack) + 1 /\ stack'[i] = spawns' /\ i > head
    BY <1>st, <2>1
  <2>4. \A i \in 1..Len(stack) : i \in 1..Len(stack)' /\ stack'[i] = stack[i]
    BY <1>st, <2>1
  <2>5. Len(stack) + 1 \in 1..Len(stack)' /\ spawns' \in 1..spawns' /\ 1..spawns \subseteq 1..spawns'
    BY <1>st, <1>fr, <2>1
  <2>6. \A i \in 1..Len(stack)' : stack'[i] \in 1..spawns'
    BY <2>3, <2>5 DEF HistoryInv
  <2>7. \A i, j \in 1..Len(stack)' : stack'[i] = stack'[j] => i = j
    BY <2>2, <2>3 DEF HistoryInv
  <2>8. \A i \in 1..Len(stack)' : i > head => stack'[i] \notin popped \union stolen
    BY <2>2, <2>3 DEF HistoryInv
  <2>9. \A i \in 1..Len(stack)' : i <= head => stack'[i] \in stolen
    BY <2>1, <2>3 DEF HistoryInv
  <2>10. \A x \in 1..spawns' :
           x \in popped \union stolen \/ \E i \in 1..Len(stack)' : stack'[i] = x
    BY <1>st, <2>2, <2>4, <2>5 DEF HistoryInv
  <2>11. \A t \in Thieves : tpc[t] = "bump" => loot[t] = stack'[head + 1]
    BY <2>1, <2>4 DEF HistoryInv, PointerInv
  <2>. QED  BY <1>fr, <2>2, <2>5, <2>6, <2>7, <2>8, <2>9, <2>10, <2>11 DEF HistoryInv
<1>. QED  BY <1>1, <1>2, <1>3, <1>4, <1>5, <1>6, <1>7, <1>8, <1>9

LEMMA LeaveStoreTailStep ==
  ASSUME IInv, LeaveStoreTail
  PROVE  IInv'
<1>. USE ThievesAssumption, DepthAssumption DEF IInv, pointers, victimVars, thiefVars, LockSelf, Fenced, Leaving, InUserCode, InDekker, InMemory
<1>st. Len(stack) \in Nat \ {0} /\ ltail = Len(stack)
  BY DEF TypeOK, StackInv, LeaveStoreTail
<1>bu. /\ ltail' \in Index
       /\ buffer' \in Seq(Store) /\ Len(buffer') = Len(buffer) + 1
       /\ \A k \in 1..Len(buffer) : buffer'[k] = buffer[k]
       /\ buffer'[Len(buffer) + 1] = TailStore(ltail')
  <2>1. ltail' \in Index /\ TailStore(ltail') \in Store
    BY <1>st, StoreFields DEF TypeOK, Index, LeaveStoreTail
  <2>. QED  BY <2>1, AppendProperties DEF TypeOK, LeaveStoreTail
<1>fr. /\ vpc = "run" /\ vpc' = "fence" /\ ltail' = ltail - 1
       /\ UNCHANGED <<head, tail, exc, slot, stack, spawns, popped, tpc, loot, stolen, lock, closure>>
  BY DEF LeaveStoreTail
<1>1. TypeOK'
  BY <1>st, <1>bu, <1>fr DEF TypeOK, StackInv, PointerInv, ClosureInv, Continuation, Index, VictimPC, ThiefPC
<1>2. LockInv'
  BY <1>fr, <1>st, <1>bu DEF TypeOK, LockInv, VictimPC
<1>3. ClosureInv'
  BY <1>fr, <1>st, <1>bu DEF TypeOK, ClosureInv, LockInv
<1>4. StackInv'
  BY <1>fr, <1>st, <1>bu DEF TypeOK, StackInv, VictimPC, Index
<1>5. PointerInv'
  BY <1>fr, <1>st, <1>bu DEF TypeOK, PointerInv, StackInv, LockInv, ClosureInv, BufferInv, Index
<1>6. BufferInv'
  <2>1. Len(buffer) \in Nat /\ tail <= Len(stack)
    BY <1>fr DEF TypeOK, BufferInv
  <2>2. \A k \in 1..Len(buffer)' : k \in 1..Len(buffer) \/ k = Len(buffer) + 1
    BY <1>bu, <2>1
  <2>3. LET k == Len(buffer) + 1
        IN  buffer'[k].loc = "tail" /\ buffer'[k].val <= Len(stack)
    BY <1>st, <1>bu, <1>fr, <2>1 DEF TailStore
  <2>4. buffer' # <<>> /\ buffer'[Len(buffer)'] = TailStore(ltail')
    BY <1>bu, <2>1
  <2>. QED  BY <1>fr, <1>bu, <2>1, <2>2, <2>3, <2>4 DEF BufferInv
<1>7. VisibleInv'
  <2>1. Len(buffer) \in Nat /\ tail \in Nat
    BY DEF TypeOK, Index
  <2>2. ASSUME NEW k \in 1..Len(buffer), buffer'[k].loc = "tail", NEW i \in 0..buffer'[k].val-1
        PROVE  \/ slot[i] = stack[i + 1]
               \/ \E j \in 1..k-1 : buffer'[j].loc = "slot" /\ buffer'[j].idx = i
    <3>1. buffer'[k] = buffer[k] /\ \A j \in 1..k-1 : buffer'[j] = buffer[j]
      BY <1>bu, <2>1
    <3>. QED  BY <1>fr, <2>2, <3>1 DEF VisibleInv
  <2>3. ASSUME NEW i \in 0..ltail'-1
        PROVE  \/ slot[i] = stack[i + 1]
               \/ \E j \in 1..Len(buffer) : buffer'[j].loc = "slot" /\ buffer'[j].idx = i
    <3>1. CASE buffer = <<>>
      <4>1. i \in 0..tail-1
        BY <3>1, <1>fr, <1>st DEF BufferInv
      <4>. QED  BY <4>1, <1>fr DEF VisibleInv
    <3>2. CASE buffer # <<>>
      <4>1. Len(buffer) \in 1..Len(buffer)
        BY <3>2, <2>1 DEF TypeOK
      <4>2. buffer'[Len(buffer)] = TailStore(ltail)
        BY <3>2, <4>1, <1>bu DEF BufferInv
      <4>3. buffer'[Len(buffer)].loc = "tail" /\ i \in 0..buffer'[Len(buffer)].val-1
        BY <4>2, <1>fr, <1>st DEF TailStore
      <4>. QED  BY <2>1, <2>2, <4>1, <4>3
    <3>. QED  BY <3>1, <3>2
  <2>4. ASSUME NEW k \in 1..Len(buffer)', buffer'[k].loc = "tail", NEW i \in 0..buffer'[k].val-1
        PROVE  \/ slot[i] = stack[i + 1]
               \/ \E j \in 1..k-1 : buffer'[j].loc = "slot" /\ buffer'[j].idx = i
    <3>1. CASE k \in 1..Len(buffer)
      BY <2>2, <2>4, <3>1
    <3>2. CASE k = Len(buffer) + 1
      <4>1. buffer'[k].val = ltail' /\ k - 1 = Len(buffer)
        BY <3>2, <1>bu, <2>1 DEF TailStore
      <4>. QED  BY <2>3, <4>1
    <3>. QED  BY <1>bu, <2>1, <3>1, <3>2
  <2>. QED  BY <1>fr, <2>4 DEF VisibleInv
<1>8. OrderInv'
  <2>1. Len(buffer) \in Nat /\ \A k \in 1..Len(buffer)' : k \in 1..Len(buffer) \/ k = Len(buffer) + 1
    BY <1>bu DEF TypeOK
  <2>2. ASSUME NEW k \in 1..Len(buffer)', Growing(k)'
        PROVE  /\ tail < buffer'[k].val
               /\ \A j \in 1..k-1 : Pending(j)' => buffer'[j].val < buffer'[k].val
    <3>1. k \in 1..Len(buffer)
      BY <1>fr, <1>bu, <2>1, <2>2 DEF Growing
    <3>2. \A j \in 1..k : j \in 1..Len(buffer) /\ buffer'[j] = buffer[j]
      BY <1>bu, <2>1, <3>1
    <3>3. Growing(k) /\ \A j \in 1..k : Pending(j)' => Pending(j)
      BY <1>fr, <2>2, <3>1, <3>2 DEF Growing, Pending
    <3>. QED  BY <3>1, <3>2, <3>3 DEF OrderInv
  <2>3. ASSUME NEW u \in Thieves, tpc[u] \in {"read", "bump"}
        PROVE  head <= tail /\ \A k \in 1..Len(buffer)' : Pending(k)' => head <= buffer'[k].val
    <3>1. head <= tail /\ head < Len(stack) /\ \A k \in 1..Len(buffer) : Pending(k) => head <= buffer[k].val
      BY <2>3 DEF OrderInv, PointerInv
    <3>2. LET k == Len(buffer) + 1 IN head <= buffer'[k].val
      BY <1>st, <1>bu, <1>fr, <3>1 DEF TailStore, TypeOK, Index
    <3>. QED  BY <1>bu, <2>1, <3>1, <3>2 DEF Pending
  <2>. QED  BY <1>fr, <2>2, <2>3 DEF OrderInv
<1>9. HistoryInv'
  BY <1>fr, <1>st, <1>bu DEF TypeOK, HistoryInv, StackInv, PointerInv, LockInv, ClosureInv, Continuation, Index
<1>. QED  BY <1>1, <1>2, <1>3, <1>4, <1>5, <1>6, <1>7, <1>8, <1>9

LEMMA LeaveFenceStep ==
  ASSUME IInv, LeaveFence
  PROVE  IInv'
<1>. USE ThievesAssumption, DepthAssumption DEF IInv, LeaveFence, pointers, victimVars, thiefVars, LockSelf, Fenced, Leaving, InUserCode, InDekker, InMemory
<1>1. TypeOK'
  BY DEF TypeOK, StackInv, PointerInv, ClosureInv, Continuation, Index, VictimPC, ThiefPC
<1>2. LockInv'
  BY DEF TypeOK, LockInv, VictimPC
<1>3. ClosureInv'
  BY DEF TypeOK, ClosureInv, LockInv
<1>4. StackInv'
  BY DEF TypeOK, StackInv, VictimPC, Index
<1>5. PointerInv'
  BY DEF TypeOK, PointerInv, StackInv, LockInv, ClosureInv, BufferInv, Index
<1>6. BufferInv'
  BY DEF TypeOK, BufferInv, StackInv, Index, TailStore, SlotStore
<1>7. VisibleInv'
  BY DEF TypeOK, VisibleInv, BufferInv, StackInv, PointerInv, ClosureInv, LockInv, Index, TailStore, SlotStore
<1>8. OrderInv'
  BY DEF TypeOK, OrderInv, Pending, Growing, BufferInv, StackInv, PointerInv, ClosureInv, LockInv, Index
<1>9. HistoryInv'
  BY DEF TypeOK, HistoryInv, StackInv, PointerInv, LockInv, ClosureInv, Continuation, Index
<1>. QED  BY <1>1, <1>2, <1>3, <1>4, <1>5, <1>6, <1>7, <1>8, <1>9

LEMMA LeaveCheckStep ==
  ASSUME IInv, LeaveCheck
  PROVE  IInv'
<1>. USE ThievesAssumption, DepthAssumption DEF IInv, LeaveCheck, pointers, victimVars, thiefVars, LockSelf, Fenced, Leaving, InUserCode, InDekker, InMemory
<1>top. Len(stack) # 0 /\ Len(stack) = ltail + 1 /\ Len(stack) \in Nat
  BY DEF TypeOK, StackInv, Index
<1>front. /\ SubSeq(stack, 1, Len(stack) - 1) \in Seq(Continuation)
          /\ Len(SubSeq(stack, 1, Len(stack) - 1)) = Len(stack) - 1
          /\ \A i \in 1..Len(stack)-1 : SubSeq(stack, 1, Len(stack) - 1)[i] = stack[i]
  BY <1>top, FrontFacts DEF TypeOK
<1>last. stack[Len(stack)] \in Continuation
  BY <1>top DEF TypeOK
<1>cut. vpc' = "run" => PopStack
  OBVIOUS
<1>pop. vpc' = "run" =>
          /\ stack' \in Seq(Continuation) /\ Len(stack') = Len(stack) - 1
          /\ \A i \in 1..Len(stack)-1 : stack'[i] = stack[i]
          /\ stack[Len(stack)] \in Continuation
          /\ popped' = popped \union {stack[Len(stack)]}
  BY <1>front, <1>last, <1>cut DEF PopStack
<1>exc. vpc' = "run" =>
          /\ exc <= Len(stack) - 1
          /\ closure = "running" /\ head <= exc
          /\ \A u \in Thieves : tpc[u] \in InDekker => exc = head + 1
  BY <1>top DEF TypeOK, ClosureInv, PointerInv, StackInv, Index
<1>1. TypeOK'
  BY <1>top, <1>pop DEF TypeOK, StackInv, PointerInv, ClosureInv, Continuation, Index, VictimPC, ThiefPC
<1>2. LockInv'
  BY DEF TypeOK, LockInv, VictimPC
<1>3. ClosureInv'
  BY DEF TypeOK, ClosureInv, LockInv
<1>4. StackInv'
  BY <1>top, <1>pop DEF TypeOK, StackInv, VictimPC, Index
<1>5. PointerInv'
  BY <1>top, <1>pop, <1>exc DEF TypeOK, PointerInv, StackInv, LockInv, ClosureInv, BufferInv, Index
<1>6. BufferInv'
  BY <1>top, <1>pop DEF TypeOK, BufferInv, StackInv, Index, TailStore, SlotStore
<1>7. VisibleInv'
  BY <1>top, <1>pop, <1>exc DEF TypeOK, VisibleInv, BufferInv, StackInv, PointerInv, ClosureInv, LockInv, Index, TailStore, SlotStore
<1>8. OrderInv'
  BY DEF TypeOK, OrderInv, Pending, Growing, BufferInv, StackInv, PointerInv, ClosureInv, LockInv, Index
<1>9. HistoryInv'
  <2>1. Len(stack) \in Nat /\ head \in Nat
    BY DEF TypeOK, Index
  <2>2. CASE vpc' = "run"
    <3>1. stack[Len(stack)] \notin stolen /\ stack[Len(stack)] \in 1..spawns /\ head <= Len(stack) - 1
      BY <1>top, <2>1, <2>2, <1>exc DEF HistoryInv, PointerInv, TypeOK
    <3>2. popped' = popped \union {stack[Len(stack)]}
      BY <1>top, <1>pop, <2>2
    <3>3. \A i \in 1..Len(stack)' : i \in 1..Len(stack) /\ i # Len(stack) /\ stack'[i] = stack[i]
      BY <1>top, <1>pop, <2>2, <2>1
    <3>4. \A i \in 1..Len(stack) : i # Len(stack) => i \in 1..Len(stack)' /\ stack'[i] = stack[i]
      BY <1>top, <1>pop, <2>2, <2>1
    <3>5. Len(stack) \in 1..Len(stack)
      BY <1>top, <2>1
    <3>6. popped' \intersect stolen = {} /\ popped' \union stolen \subseteq 1..spawns
      BY <3>1, <3>2 DEF HistoryInv
    <3>7. \A i \in 1..Len(stack)' : i > head => stack'[i] \notin popped' \union stolen
      BY <3>2, <3>3, <3>5 DEF HistoryInv
    <3>8. \A x \in 1..spawns :
            x \in popped' \union stolen \/ \E i \in 1..Len(stack)' : stack'[i] = x
      BY <3>2, <3>4 DEF HistoryInv
    <3>9. \A u \in Thieves : tpc[u] = "bump" => loot[u] = stack'[head + 1]
      <4>1. \A u \in Thieves : tpc[u] = "bump" => head + 1 \in 1..Len(stack)'
        BY <1>exc, <1>top, <1>pop, <2>1, <2>2
      <4>. QED  BY <4>1, <3>3 DEF HistoryInv
    <3>. QED  BY <3>3, <3>6, <3>7, <3>8, <3>9 DEF HistoryInv
  <2>3. CASE vpc' # "run"
    BY <2>3 DEF HistoryInv
  <2>. QED  BY <2>2, <2>3
<1>. QED  BY <1>1, <1>2, <1>3, <1>4, <1>5, <1>6, <1>7, <1>8, <1>9

LEMMA HandlerLockStep ==
  ASSUME IInv, HandlerLock
  PROVE  IInv'
<1>. USE ThievesAssumption, DepthAssumption DEF IInv, HandlerLock, pointers, victimVars, thiefVars, LockSelf, Fenced, Leaving, InUserCode, InDekker, InMemory
<1>idle. \A t \in Thieves : tpc[t] = "idle"
  BY DEF TypeOK, LockInv
<1>1. TypeOK'
  BY DEF TypeOK, StackInv, PointerInv, ClosureInv, Continuation, Index, VictimPC, ThiefPC
<1>2. LockInv'
  BY DEF TypeOK, LockInv, VictimPC
<1>3. ClosureInv'
  BY DEF TypeOK, ClosureInv, LockInv
<1>4. StackInv'
  BY DEF TypeOK, StackInv, VictimPC, Index
<1>5. PointerInv'
  BY <1>idle DEF TypeOK, PointerInv, StackInv, LockInv, ClosureInv, BufferInv, Index
<1>6. BufferInv'
  BY DEF TypeOK, BufferInv, StackInv, Index, TailStore, SlotStore
<1>7. VisibleInv'
  BY DEF TypeOK, VisibleInv, BufferInv, StackInv, PointerInv, ClosureInv, LockInv, Index, TailStore, SlotStore
<1>8. OrderInv'
  BY DEF TypeOK, OrderInv, Pending, Growing, BufferInv, StackInv, PointerInv, ClosureInv, LockInv, Index
<1>9. HistoryInv'
  BY <1>idle DEF TypeOK, HistoryInv, StackInv, PointerInv, LockInv, ClosureInv, Continuation, Index
<1>. QED  BY <1>1, <1>2, <1>3, <1>4, <1>5, <1>6, <1>7, <1>8, <1>9

LEMMA HandlerResumeStep ==
  ASSUME IInv, HandlerResume
  PROVE  IInv'
<1>. USE ThievesAssumption, DepthAssumption DEF IInv, HandlerResume, pointers, victimVars, thiefVars, LockSelf, Fenced, Leaving, InUserCode, InDekker, InMemory
<1>top. Len(stack) # 0 /\ Len(stack) = ltail + 1 /\ Len(stack) \in Nat
  BY DEF TypeOK, StackInv, Index
<1>front. /\ SubSeq(stack, 1, Len(stack) - 1) \in Seq(Continuation)
          /\ Len(SubSeq(stack, 1, Len(stack) - 1)) = Len(stack) - 1
          /\ \A i \in 1..Len(stack)-1 : SubSeq(stack, 1, Len(stack) - 1)[i] = stack[i]
  BY <1>top, FrontFacts DEF TypeOK
<1>last. stack[Len(stack)] \in Continuation
  BY <1>top DEF TypeOK
<1>cut. vpc' = "run" => PopStack
  OBVIOUS
<1>pop. vpc' = "run" =>
          /\ stack' \in Seq(Continuation) /\ Len(stack') = Len(stack) - 1
          /\ \A i \in 1..Len(stack)-1 : stack'[i] = stack[i]
          /\ stack[Len(stack)] \in Continuation
          /\ popped' = popped \union {stack[Len(stack)]}
  BY <1>front, <1>last, <1>cut DEF PopStack
<1>idle. \A t \in Thieves : tpc[t] = "idle"
  BY DEF TypeOK, LockInv
<1>1. TypeOK'
  BY <1>top, <1>pop DEF TypeOK, StackInv, PointerInv, ClosureInv, Continuation, Index, VictimPC, ThiefPC
<1>2. LockInv'
  BY DEF TypeOK, LockInv, VictimPC
<1>3. ClosureInv'
  BY DEF TypeOK, ClosureInv, LockInv
<1>4. StackInv'
  BY <1>top, <1>pop DEF TypeOK, StackInv, VictimPC, Index
<1>5. PointerInv'
  BY <1>top, <1>pop, <1>idle DEF TypeOK, PointerInv, StackInv, LockInv, ClosureInv, BufferInv, Index
<1>6. BufferInv'
  BY <1>top, <1>pop DEF TypeOK, BufferInv, StackInv, Index, TailStore, SlotStore
<1>7. VisibleInv'
  BY <1>top, <1>pop, <1>idle DEF TypeOK, VisibleInv, BufferInv, StackInv, PointerInv, ClosureInv, LockInv, Index, TailStore, SlotStore
<1>8. OrderInv'
  BY DEF TypeOK, OrderInv, Pending, Growing, BufferInv, StackInv, PointerInv, ClosureInv, LockInv, Index
<1>9. HistoryInv'
  <2>1. Len(stack) \in Nat /\ head \in Nat
    BY DEF TypeOK, Index
  <2>2. CASE vpc' = "run"
    <3>1. stack[Len(stack)] \notin stolen /\ stack[Len(stack)] \in 1..spawns /\ head <= Len(stack) - 1
      BY <1>top, <2>1, <2>2, <1>idle DEF HistoryInv, PointerInv, TypeOK
    <3>2. popped' = popped \union {stack[Len(stack)]}
      BY <1>top, <1>pop, <2>2
    <3>3. \A i \in 1..Len(stack)' : i \in 1..Len(stack) /\ i # Len(stack) /\ stack'[i] = stack[i]
      BY <1>top, <1>pop, <2>2, <2>1
    <3>4. \A i \in 1..Len(stack) : i # Len(stack) => i \in 1..Len(stack)' /\ stack'[i] = stack[i]
      BY <1>top, <1>pop, <2>2, <2>1
    <3>5. Len(stack) \in 1..Len(stack)
      BY <1>top, <2>1
    <3>6. popped' \intersect stolen = {} /\ popped' \union stolen \subseteq 1..spawns
      BY <3>1, <3>2 DEF HistoryInv
    <3>7. \A i \in 1..Len(stack)' : i > head => stack'[i] \notin popped' \union stolen
      BY <3>2, <3>3, <3>5 DEF HistoryInv
    <3>8. \A x \in 1..spawns :
            x \in popped' \union stolen \/ \E i \in 1..Len(stack)' : stack'[i] = x
      BY <3>2, <3>4 DEF HistoryInv
    <3>9. \A u \in Thieves : tpc[u] = "bump" => loot[u] = stack'[head + 1]
      BY <1>idle
    <3>. QED  BY <3>3, <3>6, <3>7, <3>8, <3>9 DEF HistoryInv
  <2>3. CASE vpc' # "run"
    BY <2>3 DEF HistoryInv
  <2>. QED  BY <2>2, <2>3
<1>. QED  BY <1>1, <1>2, <1>3, <1>4, <1>5, <1>6, <1>7, <1>8, <1>9

LEMMA HandlerUnwindStep ==
  ASSUME IInv, HandlerUnwind
  PROVE  IInv'
<1>. USE ThievesAssumption, DepthAssumption DEF IInv, HandlerUnwind, pointers, victimVars, thiefVars, LockSelf, Fenced, Leaving, InUserCode, InDekker, InMemory
<1>idle. \A t \in Thieves : tpc[t] = "idle"
  BY DEF TypeOK, LockInv
<1>1. TypeOK'
  BY DEF TypeOK, StackInv, PointerInv, ClosureInv, Continuation, Index, VictimPC, ThiefPC
<1>2. LockInv'
  BY DEF TypeOK, LockInv, VictimPC
<1>3. ClosureInv'
  BY DEF TypeOK, ClosureInv, LockInv
<1>4. StackInv'
  BY DEF TypeOK, StackInv, VictimPC, Index
<1>5. PointerInv'
  BY DEF TypeOK, PointerInv, StackInv, LockInv, ClosureInv, BufferInv, Index
<1>6. BufferInv'
  BY DEF TypeOK, BufferInv, StackInv, Index, TailStore, SlotStore
<1>7. VisibleInv'
  BY DEF TypeOK, VisibleInv, BufferInv, StackInv, PointerInv, ClosureInv, LockInv, Index, TailStore, SlotStore
<1>8. OrderInv'
  BY DEF TypeOK, OrderInv, Pending, Growing, BufferInv, StackInv, PointerInv, ClosureInv, LockInv, Index
<1>9. HistoryInv'
  <2>1. Len(stack) \in Nat /\ head = Len(stack) /\ stack' = <<>>
    BY DEF TypeOK, PointerInv
  <2>2. \A x \in 1..spawns : x \in popped \union stolen
    BY <2>1 DEF HistoryInv
  <2>. QED  BY <1>idle, <2>1, <2>2 DEF HistoryInv
<1>. QED  BY <1>1, <1>2, <1>3, <1>4, <1>5, <1>6, <1>7, <1>8, <1>9

LEMMA ExtractStep ==
  ASSUME IInv, Extract
  PROVE  IInv'
<1>. USE ThievesAssumption, DepthAssumption DEF IInv, Extract, pointers, victimVars, thiefVars, LockSelf, Fenced, Leaving, InUserCode, InDekker, InMemory
<1>1. TypeOK'
  BY DEF TypeOK, StackInv, PointerInv, ClosureInv, Continuation, Index, VictimPC, ThiefPC
<1>2. LockInv'
  BY DEF TypeOK, LockInv, VictimPC
<1>3. ClosureInv'
  BY DEF TypeOK, ClosureInv, LockInv
<1>4. StackInv'
  BY DEF TypeOK, StackInv, VictimPC, Index
<1>5. PointerInv'
  BY DEF TypeOK, PointerInv, StackInv, LockInv, ClosureInv, BufferInv, Index
<1>6. BufferInv'
  BY DEF TypeOK, BufferInv, StackInv, Index, TailStore, SlotStore
<1>7. VisibleInv'
  BY DEF TypeOK, VisibleInv, BufferInv, StackInv, PointerInv, ClosureInv, LockInv, Index, TailStore, SlotStore
<1>8. OrderInv'
  BY DEF TypeOK, OrderInv, Pending, Growing, BufferInv, StackInv, PointerInv, ClosureInv, LockInv, Index
<1>9. HistoryInv'
  BY DEF TypeOK, HistoryInv, StackInv, PointerInv, LockInv, ClosureInv, Continuation, Index
<1>. QED  BY <1>1, <1>2, <1>3, <1>4, <1>5, <1>6, <1>7, <1>8, <1>9

LEMMA BackToRuntimeStep ==
  ASSUME IInv, BackToRuntime
  PROVE  IInv'
<1>. USE ThievesAssumption, DepthAssumption DEF IInv, BackToRuntime, pointers, victimVars, thiefVars, LockSelf, Fenced, Leaving, InUserCode, InDekker, InMemory
<1>1. TypeOK'
  BY DEF TypeOK, StackInv, PointerInv, ClosureInv, Continuation, Index, VictimPC, ThiefPC
<1>2. LockInv'
  BY DEF TypeOK, LockInv, VictimPC
<1>3. ClosureInv'
  BY DEF TypeOK, ClosureInv, LockInv
<1>4. StackInv'
  BY DEF TypeOK, StackInv, VictimPC, Index
<1>5. PointerInv'
  BY DEF TypeOK, PointerInv, StackInv, LockInv, ClosureInv, BufferInv, Index
<1>6. BufferInv'
  BY DEF TypeOK, BufferInv, StackInv, Index, TailStore, SlotStore
<1>7. VisibleInv'
  BY DEF TypeOK, VisibleInv, BufferInv, StackInv, PointerInv, ClosureInv, LockInv, Index, TailStore, SlotStore
<1>8. OrderInv'
  BY DEF TypeOK, OrderInv, Pending, Growing, BufferInv, StackInv, PointerInv, ClosureInv, LockInv, Index
<1>9. HistoryInv'
  BY DEF TypeOK, HistoryInv, StackInv, PointerInv, LockInv, ClosureInv, Continuation, Index
<1>. QED  BY <1>1, <1>2, <1>3, <1>4, <1>5, <1>6, <1>7, <1>8, <1>9

LEMMA TryLockStep ==
  ASSUME NEW t \in Thieves, IInv, TryLock(t)
  PROVE  IInv'
<1>. USE ThievesAssumption, DepthAssumption DEF IInv, TryLock, pointers, victimVars, thiefVars, LockSelf, Fenced, Leaving, InUserCode, InDekker, InMemory
<1>1. TypeOK'
  BY DEF TypeOK, StackInv, PointerInv, ClosureInv, Continuation, Index, VictimPC, ThiefPC
<1>2. LockInv'
  BY DEF TypeOK, LockInv, VictimPC
<1>3. ClosureInv'
  BY DEF TypeOK, ClosureInv, LockInv
<1>4. StackInv'
  BY DEF TypeOK, StackInv, VictimPC, Index
<1>5. PointerInv'
  BY DEF TypeOK, PointerInv, StackInv, LockInv, ClosureInv, BufferInv, Index
<1>6. BufferInv'
  BY DEF TypeOK, BufferInv, StackInv, Index, TailStore, SlotStore
<1>7. VisibleInv'
  BY DEF TypeOK, VisibleInv, BufferInv, StackInv, PointerInv, ClosureInv, LockInv, Index, TailStore, SlotStore
<1>8. OrderInv'
  BY DEF TypeOK, OrderInv, Pending, Growing, BufferInv, StackInv, PointerInv, ClosureInv, LockInv, Index
<1>9. HistoryInv'
  BY DEF TypeOK, HistoryInv, StackInv, PointerInv, LockInv, ClosureInv, Continuation, Index
<1>. QED  BY <1>1, <1>2, <1>3, <1>4, <1>5, <1>6, <1>7, <1>8, <1>9

LEMMA RaiseExcStep ==
  ASSUME NEW t \in Thieves, IInv, RaiseExc(t)
  PROVE  IInv'
<1>. USE ThievesAssumption, DepthAssumption DEF IInv, RaiseExc, pointers, victimVars, thiefVars, LockSelf, Fenced, Leaving, InUserCode, InDekker, InMemory
<1>lone. \A u \in Thieves : u # t => tpc[u] = "idle"
  BY DEF TypeOK, LockInv
<1>exc. closure = "running" /\ exc = head
  BY <1>lone DEF TypeOK, ClosureInv, PointerInv
<1>1. TypeOK'
  BY <1>lone, <1>exc DEF TypeOK, StackInv, PointerInv, ClosureInv, Continuation, Index, VictimPC, ThiefPC
<1>2. LockInv'
  BY DEF TypeOK, LockInv, VictimPC
<1>3. ClosureInv'
  BY DEF TypeOK, ClosureInv, LockInv
<1>4. StackInv'
  BY DEF TypeOK, StackInv, VictimPC, Index
<1>5. PointerInv'
  BY <1>lone, <1>exc DEF TypeOK, PointerInv, StackInv, LockInv, ClosureInv, BufferInv, Index
<1>6. BufferInv'
  BY DEF TypeOK, BufferInv, StackInv, Index, TailStore, SlotStore
<1>7. VisibleInv'
  BY DEF TypeOK, VisibleInv, BufferInv, StackInv, PointerInv, ClosureInv, LockInv, Index, TailStore, SlotStore
<1>8. OrderInv'
  BY DEF TypeOK, OrderInv, Pending, Growing, BufferInv, StackInv, PointerInv, ClosureInv, LockInv, Index
<1>9. HistoryInv'
  BY DEF TypeOK, HistoryInv, StackInv, PointerInv, LockInv, ClosureInv, Continuation, Index
<1>. QED  BY <1>1, <1>2, <1>3, <1>4, <1>5, <1>6, <1>7, <1>8, <1>9

LEMMA DekkerStep ==
  ASSUME NEW t \in Thieves, IInv, Dekker(t)
  PROVE  IInv'
<1>. USE ThievesAssumption, DepthAssumption DEF IInv, Dekker, pointers, victimVars, thiefVars, LockSelf, Fenced, Leaving, InUserCode, InDekker, InMemory
<1>lone. \A u \in Thieves : u # t => tpc[u] = "idle"
  BY DEF TypeOK, LockInv
<1>exc. closure = "running" /\ exc = head + 1
  BY <1>lone DEF TypeOK, ClosureInv, PointerInv
<1>1. TypeOK'
  BY DEF TypeOK, StackInv, PointerInv, ClosureInv, Continuation, Index, VictimPC, ThiefPC
<1>2. LockInv'
  BY DEF TypeOK, LockInv, VictimPC
<1>3. ClosureInv'
  BY DEF TypeOK, ClosureInv, LockInv
<1>4. StackInv'
  BY DEF TypeOK, StackInv, VictimPC, Index
<1>5. PointerInv'
  <2>0. InUserCode
    BY <1>exc DEF ClosureInv, LockInv, TypeOK, VictimPC
  <2>1. head < tail => head < Len(stack)
    BY <2>0 DEF TypeOK, BufferInv, Index
  <2>2. tpc' = [tpc EXCEPT ![t] = tpc'[t]] /\ tpc'[t] \in {"retract", "read"}
    BY DEF TypeOK
  <2>3. tpc'[t] = "read" => head < tail
    BY DEF TypeOK
  <2>. QED  BY <1>lone, <1>exc, <2>1, <2>2, <2>3 DEF PointerInv, TypeOK, ThiefPC
<1>6. BufferInv'
  BY DEF TypeOK, BufferInv, StackInv, Index, TailStore, SlotStore
<1>7. VisibleInv'
  <2>1. tpc'[t] = "read" => head < tail
    BY DEF TypeOK
  <2>2. InUserCode
    BY <1>exc DEF ClosureInv, LockInv, TypeOK, VictimPC
  <2>3. tpc'[t] = "read" => InMemory(head)
    BY <2>1, <2>2 DEF VisibleInv, TypeOK, Index
  <2>4. \A u \in Thieves : tpc'[u] = "read" => InMemory(head)
    BY <1>lone, <2>3 DEF TypeOK
  <2>. QED  BY <2>4 DEF VisibleInv
<1>8. OrderInv'
  <2>1. tpc'[t] \in {"read", "bump"} => head < tail
    BY DEF TypeOK
  <2>2. /\ InUserCode /\ head \in Nat /\ tail \in Nat /\ tail <= Len(stack) /\ Len(stack) \in Nat
    <3>1. InUserCode
      BY <1>exc DEF ClosureInv, LockInv, TypeOK, VictimPC
    <3>. QED  BY <3>1 DEF BufferInv, TypeOK, Index
  <2>3. ASSUME head < tail, NEW k \in 1..Len(buffer), Pending(k)
        PROVE  head <= buffer[k].val
    <3>1. buffer[k].val \in Nat
      <4>1. buffer[k] \in Store
        BY DEF TypeOK
      <4>. QED  BY <4>1, StoreVal
    <3>2. CASE Growing(k)
      BY <2>2, <2>3, <3>1, <3>2 DEF OrderInv
    <3>3. CASE ~Growing(k)
      <4>1. vpc # "run" /\ k = Len(buffer) /\ buffer # <<>>
        BY <2>3, <3>3 DEF Growing
      <4>2. vpc = "fence" /\ buffer[k] = TailStore(ltail) /\ Len(stack) = ltail + 1 /\ ltail \in Nat
        BY <4>1 DEF BufferInv, StackInv, TypeOK, Index
      <4>. QED  BY <2>2, <2>3, <4>2 DEF TailStore
    <3>. QED  BY <3>2, <3>3
  <2>4. \A u \in Thieves : tpc'[u] \in {"read", "bump"} => u = t
    BY <1>lone DEF TypeOK
  <2>5. \A u \in Thieves : tpc'[u] \in {"read", "bump"} =>
          head <= tail /\ \A k \in 1..Len(buffer) : Pending(k) => head <= buffer[k].val
    BY <2>1, <2>2, <2>3, <2>4
  <2>. QED  BY <2>5 DEF OrderInv, Pending, Growing
<1>9. HistoryInv'
  BY DEF TypeOK, HistoryInv, StackInv, PointerInv, LockInv, ClosureInv, Continuation, Index
<1>. QED  BY <1>1, <1>2, <1>3, <1>4, <1>5, <1>6, <1>7, <1>8, <1>9

LEMMA RetractExcStep ==
  ASSUME NEW t \in Thieves, IInv, RetractExc(t)
  PROVE  IInv'
<1>. USE ThievesAssumption, DepthAssumption DEF IInv, RetractExc, pointers, victimVars, thiefVars, LockSelf, Fenced, Leaving, InUserCode, InDekker, InMemory
<1>lone. \A u \in Thieves : u # t => tpc[u] = "idle"
  BY DEF TypeOK, LockInv
<1>exc. closure = "running" /\ exc = head + 1
  BY <1>lone DEF TypeOK, ClosureInv, PointerInv
<1>1. TypeOK'
  BY <1>lone, <1>exc DEF TypeOK, StackInv, PointerInv, ClosureInv, Continuation, Index, VictimPC, ThiefPC
<1>2. LockInv'
  BY DEF TypeOK, LockInv, VictimPC
<1>3. ClosureInv'
  BY DEF TypeOK, ClosureInv, LockInv
<1>4. StackInv'
  BY DEF TypeOK, StackInv, VictimPC, Index
<1>5. PointerInv'
  BY <1>lone, <1>exc DEF TypeOK, PointerInv, StackInv, LockInv, ClosureInv, BufferInv, Index
<1>6. BufferInv'
  BY DEF TypeOK, BufferInv, StackInv, Index, TailStore, SlotStore
<1>7. VisibleInv'
  BY DEF TypeOK, VisibleInv, BufferInv, StackInv, PointerInv, ClosureInv, LockInv, Index, TailStore, SlotStore
<1>8. OrderInv'
  BY DEF TypeOK, OrderInv, Pending, Growing, BufferInv, StackInv, PointerInv, ClosureInv, LockInv, Index
<1>9. HistoryInv'
  BY DEF TypeOK, HistoryInv, StackInv, PointerInv, LockInv, ClosureInv, Continuation, Index
<1>. QED  BY <1>1, <1>2, <1>3, <1>4, <1>5, <1>6, <1>7, <1>8, <1>9

LEMMA ReadFrameStep ==
  ASSUME NEW t \in Thieves, IInv, ReadFrame(t)
  PROVE  IInv'
<1>. USE ThievesAssumption, DepthAssumption DEF IInv, ReadFrame, pointers, victimVars, thiefVars, LockSelf, Fenced, Leaving, InUserCode, InDekker, InMemory
<1>lone. \A u \in Thieves : u # t => tpc[u] = "idle"
  BY DEF TypeOK, LockInv
<1>exc. closure = "running" /\ exc = head + 1
  BY <1>lone DEF TypeOK, ClosureInv, PointerInv
<1>1. TypeOK'
  <2>1. head \in 0..Depth-1
    BY DEF TypeOK, PointerInv, StackInv, Index
  <2>2. slot[head] \in 0..MaxSpawn
    BY <2>1 DEF TypeOK
  <2>. QED  BY <2>2 DEF TypeOK, ThiefPC
<1>2. LockInv'
  BY DEF TypeOK, LockInv, VictimPC
<1>3. ClosureInv'
  BY DEF TypeOK, ClosureInv, LockInv
<1>4. StackInv'
  BY DEF TypeOK, StackInv, VictimPC, Index
<1>5. PointerInv'
  BY DEF TypeOK, PointerInv, StackInv, LockInv, ClosureInv, BufferInv, Index
<1>6. BufferInv'
  BY DEF TypeOK, BufferInv, StackInv, Index, TailStore, SlotStore
<1>7. VisibleInv'
  BY DEF TypeOK, VisibleInv, BufferInv, StackInv, PointerInv, ClosureInv, LockInv, Index, TailStore, SlotStore
<1>8. OrderInv'
  BY DEF TypeOK, OrderInv, Pending, Growing, BufferInv, StackInv, PointerInv, ClosureInv, LockInv, Index
<1>9. HistoryInv'
  <2>1. loot'[t] = stack[head + 1]
    BY DEF VisibleInv, TypeOK
  <2>2. \A u \in Thieves : tpc'[u] = "bump" => loot'[u] = stack[head + 1]
    BY <1>lone, <2>1 DEF TypeOK
  <2>. QED  BY <2>2 DEF HistoryInv
<1>. QED  BY <1>1, <1>2, <1>3, <1>4, <1>5, <1>6, <1>7, <1>8, <1>9

LEMMA BumpHeadStep ==
  ASSUME NEW t \in Thieves, IInv, BumpHead(t)
  PROVE  IInv'
<1>. USE ThievesAssumption, DepthAssumption DEF IInv, BumpHead, pointers, victimVars, thiefVars, LockSelf, Fenced, Leaving, InUserCode, InDekker, InMemory
<1>lone. \A u \in Thieves : u # t => tpc[u] = "idle"
  BY DEF TypeOK, LockInv
<1>exc. closure = "running" /\ exc = head + 1
  BY <1>lone DEF TypeOK, ClosureInv, PointerInv
<1>top. head \in Nat /\ Len(stack) \in Nat /\ head + 1 \in 1..Len(stack) /\ Len(stack) <= Depth
  BY DEF TypeOK, PointerInv, StackInv, Index
<1>loot. loot[t] = stack[head + 1] /\ loot[t] \in Continuation
  BY <1>top DEF HistoryInv, TypeOK
<1>user. InUserCode
  BY <1>exc, <1>top DEF ClosureInv, LockInv, StackInv, TypeOK, VictimPC
<1>pc. /\ \A u \in Thieves : tpc'[u] \in {"idle", "unlock"}
       /\ tpc' \in [Thieves -> ThiefPC]
  BY <1>lone DEF TypeOK, ThiefPC
<1>1. TypeOK'
  <2>1. head' \in Index /\ stolen' \subseteq Continuation
    BY <1>top, <1>loot DEF TypeOK, Index
  <2>. QED  BY <1>pc, <2>1 DEF TypeOK
<1>2. LockInv'
  BY DEF TypeOK, LockInv, VictimPC
<1>3. ClosureInv'
  BY DEF TypeOK, ClosureInv, LockInv
<1>4. StackInv'
  <2>1. vpc \notin {"add", "unlock_add"}
    BY <1>user
  <2>. QED  BY <2>1 DEF StackInv
<1>5. PointerInv'
  <2>1. vpc \notin {"add", "resume", "unwind"}
    BY <1>exc DEF ClosureInv, LockInv
  <2>. QED  BY <1>exc, <1>top, <1>pc, <2>1 DEF PointerInv
<1>6. BufferInv'
  BY DEF TypeOK, BufferInv, StackInv, Index, TailStore, SlotStore
<1>7. VisibleInv'
  BY <1>pc DEF VisibleInv
<1>8. OrderInv'
  BY DEF TypeOK, OrderInv, Pending, Growing, BufferInv, StackInv, PointerInv, ClosureInv, LockInv, Index
<1>9. HistoryInv'
  <2>1. stolen' = stolen \union {stack[head + 1]} /\ head' = head + 1
    BY <1>loot
  <2>2. stack[head + 1] \notin popped \union stolen /\ stack[head + 1] \in 1..spawns
    BY <1>top DEF HistoryInv
  <2>3. \A i \in 1..Len(stack) : i > head' => i > head /\ i # head + 1
    BY <1>top, <2>1
  <2>4. \A i \in 1..Len(stack) : i <= head' => i <= head \/ i = head + 1
    BY <1>top, <2>1
  <2>5. \A i \in 1..Len(stack) : i > head' => stack[i] \notin popped \union stolen'
    BY <1>top, <2>1, <2>3 DEF HistoryInv
  <2>6. \A i \in 1..Len(stack) : i <= head' => stack[i] \in stolen'
    BY <2>1, <2>4 DEF HistoryInv
  <2>. QED  BY <1>pc, <2>1, <2>2, <2>5, <2>6 DEF HistoryInv
<1>. QED  BY <1>1, <1>2, <1>3, <1>4, <1>5, <1>6, <1>7, <1>8, <1>9

LEMMA UnlockVictimStep ==
  ASSUME NEW t \in Thieves, IInv, UnlockVictim(t)
  PROVE  IInv'
<1>. USE ThievesAssumption, DepthAssumption DEF IInv, UnlockVictim, pointers, victimVars, thiefVars, LockSelf, Fenced, Leaving, InUserCode, InDekker, InMemory
<1>1. TypeOK'
  BY DEF TypeOK, StackInv, PointerInv, ClosureInv, Continuation, Index, VictimPC, ThiefPC
<1>2. LockInv'
  BY DEF TypeOK, LockInv, VictimPC
<1>3. ClosureInv'
  BY DEF TypeOK, ClosureInv, LockInv
<1>4. StackInv'
  BY DEF TypeOK, StackInv, VictimPC, Index
<1>5. PointerInv'
  BY DEF TypeOK, PointerInv, StackInv, LockInv, ClosureInv, BufferInv, Index
<1>6. BufferInv'
  BY DEF TypeOK, BufferInv, StackInv, Index, TailStore, SlotStore
<1>7. VisibleInv'
  BY DEF TypeOK, VisibleInv, BufferInv, StackInv, PointerInv, ClosureInv, LockInv, Index, TailStore, SlotStore
<1>8. OrderInv'
  BY DEF TypeOK, OrderInv, Pending, Growing, BufferInv, StackInv, PointerInv, ClosureInv, LockInv, Index
<1>9. HistoryInv'
  BY DEF TypeOK, HistoryInv, StackInv, PointerInv, LockInv, ClosureInv, Continuation, Index
<1>. QED  BY <1>1, <1>2, <1>3, <1>4, <1>5, <1>6, <1>7, <1>8, <1>9

-----------------------------------------------------------------------------
LEMMA Initial == Init => IInv
<1>. SUFFICES ASSUME Init PROVE IInv
  OBVIOUS
<1>. USE ThievesAssumption, DepthAssumption DEF Init, Leaving, InUserCode
<1>1. TypeOK
  BY EmptySeq DEF TypeOK, Index, VictimPC, ThiefPC
<1>2. LockInv /\ ClosureInv /\ StackInv /\ PointerInv
  BY DEF LockInv, ClosureInv, StackInv, PointerInv, InDekker
<1>3. BufferInv /\ VisibleInv /\ OrderInv
  BY DEF BufferInv, VisibleInv, OrderInv
<1>4. HistoryInv
  BY DEF HistoryInv
<1>. QED  BY <1>1, <1>2, <1>3, <1>4 DEF IInv

LEMMA Inductive == IInv /\ [Next]_vars => IInv'
<1>. SUFFICES ASSUME IInv, [Next]_vars PROVE IInv'
  OBVIOUS
<1>1. CASE Drain
  BY <1>1, DrainStep
<1>2. CASE VictimStep
  BY <1>2, SetupForExecutionStep, AddBottomStep, EnterUserCodeStep, DetachStep,
     LeaveStoreTailStep, LeaveFenceStep, LeaveCheckStep, HandlerLockStep,
     HandlerResumeStep, HandlerUnwindStep, ExtractStep, BackToRuntimeStep
     DEF VictimStep
<1>3. CASE \E t \in Thieves : ThiefStep(t)
  BY <1>3, TryLockStep, RaiseExcStep, DekkerStep, RetractExcStep, ReadFrameStep,
     BumpHeadStep, UnlockVictimStep
     DEF ThiefStep
<1>4. CASE UNCHANGED vars
  BY <1>4 DEF IInv, vars, pointers, victimVars, thiefVars, TypeOK, LockInv, ClosureInv,
     StackInv, PointerInv, BufferInv, VisibleInv, OrderInv, HistoryInv, Leaving,
     InUserCode, InMemory, Pending, Growing
<1>. QED  BY <1>1, <1>2, <1>3, <1>4 DEF Next

(* The invariant that all the results below rest on. *)
THEOREM Invariance == Spec => []IInv
BY Initial, Inductive, PTL DEF Spec

(* Type correctness of the protocol, for any number of thieves: every pointer *)
(* stays within one entry of the shadow stack.                                *)
THEOREM TypeCorrectness == Spec => []TypeOK
<1>1. IInv => TypeOK
  BY DEF IInv
<1>. QED  BY <1>1, Invariance, PTL

(* The victim's lock-free pop in __cilkrts_leave_frame and the thieves'       *)
(* promote_child never claim the same continuation.                           *)
THEOREM EachContinuationResumedOnce == Spec => []ResumedOnce
<1>1. IInv => ResumedOnce
  BY DEF IInv, HistoryInv, ResumedOnce
<1>. QED  BY <1>1, Invariance, PTL

(* No spawned continuation is dropped, whatever order H, T and E move in.     *)
THEOREM NoContinuationLost == Spec => []NothingLost
<1>1. IInv => NothingLost
  <2>. SUFFICES ASSUME IInv PROVE NothingLost
    OBVIOUS
  <2>1. /\ head \in Nat /\ Len(stack) \in Nat /\ stack \in Seq(Continuation)
        /\ popped \union stolen \subseteq 1..spawns
    BY DEF IInv, TypeOK, Index, HistoryInv
  <2>2. \A i \in head+1..Len(stack) : stack[i] \in Continuation
    BY <2>1
  <2>3. /\ Len(Outstanding) = IF head + 1 <= Len(stack) THEN Len(stack) - (head + 1) + 1 ELSE 0
        /\ \A i \in 1..Len(stack)-(head+1)+1 : Outstanding[i] = stack[(head + 1) + i - 1]
    BY <2>1, <2>2, SubSeqProperties DEF Outstanding
  <2>4. \A i \in 1..Len(Outstanding) : Outstanding[i] = stack[head + i] /\ head + i \in 1..Len(stack)
    BY <2>1, <2>3
  <2>5. \A i \in 1..Len(stack) : i > head =>
          i - head \in 1..Len(Outstanding) /\ Outstanding[i - head] = stack[i]
    BY <2>1, <2>3
  <2>6. \A i \in 1..Len(Outstanding) : Outstanding[i] \in 1..spawns
    BY <2>4 DEF IInv, HistoryInv
  <2>7. ASSUME NEW x \in 1..spawns, x \notin popped \union stolen
        PROVE  \E i \in 1..Len(Outstanding) : Outstanding[i] = x
    <3>1. PICK i \in 1..Len(stack) : stack[i] = x
      BY <2>7 DEF IInv, HistoryInv
    <3>2. i > head
      BY <2>1, <2>7, <3>1 DEF IInv, HistoryInv
    <3>. QED  BY <2>5, <3>1, <3>2
  <2>. QED  BY <2>1, <2>6, <2>7 DEF NothingLost
<1>. QED  BY <1>1, Invariance, PTL

(* Every critical section that moves E puts it back on H.                     *)
THEOREM ExceptionPointerRestored == Spec => []ExcAtHead
<1>1. IInv => ExcAtHead
  BY ThievesAssumption DEF IInv, TypeOK, LockInv, PointerInv, ExcAtHead, InDekker
<1>. QED  BY <1>1, Invariance, PTL

(* The assertions of promote_child hold even when the victim drops T to H     *)
(* after the thief has passed Dekker's test.                                  *)
THEOREM PromoteAssertions == Spec => []PromoteClaims
<1>1. IInv => PromoteClaims
  <2>. SUFFICES ASSUME IInv, NEW t \in Thieves, tpc[t] \in {"read", "bump"}
                PROVE  /\ head < exc /\ head <= tail
                       /\ head >= ltail => vpc \in {"fence", "check", "handler"}
    BY DEF PromoteClaims
  <2>1. head \in Nat /\ Len(stack) \in Nat /\ ltail \in Nat /\ head < Len(stack) /\ head <= tail
    BY DEF IInv, TypeOK, Index, PointerInv, OrderInv
  <2>2. lock = t /\ closure = "running" /\ exc = head + 1
    BY DEF IInv, LockInv, ClosureInv, PointerInv, InDekker
  <2>3. vpc \in {"run", "fence", "check", "handler"}
    BY <2>2, ThievesAssumption DEF IInv, TypeOK, VictimPC, LockInv, ClosureInv
  <2>4. vpc = "run" => head < ltail
    BY <2>1 DEF IInv, StackInv
  <2>. QED  BY <2>1, <2>2, <2>3, <2>4
<1>. QED  BY <1>1, Invariance, PTL

(* A thief reads the frame the victim pushed at H, although the victim's      *)
(* stores reach memory late.                                                  *)
THEOREM StolenFrameIsVisible == Spec => []VisibleFrame
<1>1. IInv => VisibleFrame
  BY DEF IInv, HistoryInv, VisibleFrame
<1>. QED  BY <1>1, Invariance, PTL

(* The handler's verdict is right: it unwinds to the runtime exactly when the *)
(* continuation it would return to was stolen.                                *)
THEOREM HandlerVerdictCorrect == Spec => HandlerVerdict
<1>1. ASSUME IInv, [Next]_vars, vpc = "handler", vpc' # "handler"
      PROVE  vpc' = "unwind" <=> stack[Len(stack)] \in stolen
  <2>1. HandlerLock
    BY <1>1 DEF Next, VictimStep, ThiefStep, vars, pointers, victimVars, thiefVars, Drain,
       SetupForExecution, AddBottom, EnterUserCode, Detach, LeaveStoreTail, LeaveFence,
       LeaveCheck, HandlerResume, HandlerUnwind, Extract, BackToRuntime,
       TryLock, RaiseExc, Dekker, RetractExc, ReadFrame, BumpHead, UnlockVictim
  <2>2. /\ Len(stack) = ltail + 1 /\ tail = ltail /\ ltail \in Nat /\ head \in Nat
        /\ head <= Len(stack)
    BY <1>1 DEF IInv, StackInv, BufferInv, PointerInv, TypeOK, Index, Leaving, InUserCode
  <2>3. Len(stack) \in 1..Len(stack)
    BY <2>2
  <2>4. stack[Len(stack)] \in stolen <=> head = Len(stack)
    BY <1>1, <2>2, <2>3 DEF IInv, HistoryInv
  <2>5. vpc' = "unwind" <=> head > tail
    BY <2>1, <2>2 DEF HandlerLock
  <2>. QED  BY <2>2, <2>4, <2>5
<1>2. IInv /\ [Next]_vars =>
        [vpc = "handler" /\ vpc' # "handler" =>
           (vpc' = "unwind" <=> stack[Len(stack)] \in stolen)]_vars
  BY <1>1
<1>. QED  BY <1>2, Invariance, PTL DEF Spec, HandlerVerdict
-----------------------------------------------------------------------------
(* What is left of a stack s above its h oldest entries, and how it changes   *)
(* when an entry is added at the top, or taken from the top or the bottom.    *)
LEMMA AboveFacts ==
  ASSUME NEW S, NEW s \in Seq(S), NEW h \in 0..Len(s)
  PROVE  LET a == SubSeq(s, h + 1, Len(s))
         IN a \in Seq(S) /\ Len(a) = Len(s) - h /\ \A i \in 1..Len(s) - h : a[i] = s[h + i]
<1>1. Len(s) \in Nat /\ h \in Nat /\ \A i \in h + 1..Len(s) : s[i] \in S
  BY LenProperties, ElementOfSeq
<1>. DEFINE a == SubSeq(s, h + 1, Len(s))
<1>2. /\ a \in Seq(S) /\ Len(a) = IF h + 1 <= Len(s) THEN Len(s) - (h + 1) + 1 ELSE 0
      /\ \A i \in 1..Len(s) - (h + 1) + 1 : a[i] = s[(h + 1) + i - 1]
  BY <1>1, SubSeqProperties
<1>3. Len(a) = Len(s) - h
  BY <1>1, <1>2
<1>4. \A i \in 1..Len(s) - h : a[i] = s[h + i]
  BY <1>1, <1>2
<1>. QED  BY <1>2, <1>3, <1>4

LEMMA AboveAppend ==
  ASSUME NEW S, NEW s \in Seq(S), NEW h \in 0..Len(s), NEW x \in S
  PROVE  SubSeq(Append(s, x), h + 1, Len(Append(s, x))) = Append(SubSeq(s, h + 1, Len(s)), x)
<1>. DEFINE t == Append(s, x)
            a == SubSeq(s, h + 1, Len(s))
            b == SubSeq(t, h + 1, Len(t))
<1>1. /\ t \in Seq(S) /\ Len(t) = Len(s) + 1 /\ Len(s) \in Nat
      /\ \A i \in 1..Len(s) : t[i] = s[i]
      /\ t[Len(s) + 1] = x
  BY AppendProperties, LenProperties
<1>2. a \in Seq(S) /\ Len(a) = Len(s) - h /\ \A i \in 1..Len(s) - h : a[i] = s[h + i]
  BY AboveFacts
<1>. HIDE DEF t
<1>3. b \in Seq(S) /\ Len(b) = Len(t) - h /\ \A i \in 1..Len(t) - h : b[i] = t[h + i]
  BY <1>1, AboveFacts
<1>. HIDE DEF a, b
<1>4. /\ Append(a, x) \in Seq(S) /\ Len(Append(a, x)) = Len(a) + 1
      /\ \A i \in 1..Len(a) : Append(a, x)[i] = a[i]
      /\ Append(a, x)[Len(a) + 1] = x
  BY <1>2, AppendProperties
<1>5. ASSUME NEW i \in 1..Len(b)  PROVE b[i] = Append(a, x)[i]
  <2>1. CASE i = Len(a) + 1
    <3>1. i = Len(t) - h /\ i \in 1..Len(t) - h /\ h + i = Len(s) + 1
      BY <1>1, <1>2, <1>3, <2>1
    <3>2. b[i] = t[h + i] /\ t[h + i] = x
      BY ONLY <1>1, <1>3, <3>1
    <3>. QED  BY ONLY <1>4, <2>1, <3>2
  <2>2. CASE i # Len(a) + 1
    <3>1. Len(b) = Len(a) + 1 /\ Len(a) \in Nat /\ i \in 1..Len(a) + 1
      BY <1>1, <1>2, <1>3
    <3>2. i \in 1..Len(a)
      BY <2>2, <3>1
    <3>4. i \in 1..Len(s) - h /\ i \in 1..Len(t) - h
      BY <1>2, <1>3, <3>2
    <3>3. h + i \in 1..Len(s)
      BY <1>1, <1>2, <3>2
    <3>5. b[i] = t[h + i] /\ t[h + i] = s[h + i]
      BY ONLY <1>1, <1>3, <3>3, <3>4
    <3>. QED  BY ONLY <1>2, <1>4, <3>2, <3>4, <3>5
  <2>. QED  BY <2>1, <2>2
<1>6. Len(b) = Len(Append(a, x))
  BY <1>1, <1>2, <1>3, <1>4
<1>7. b = Append(a, x)
  BY <1>3, <1>4, <1>5, <1>6, SeqEqual
<1>. QED  BY <1>7 DEF a, b, t

LEMMA AboveFront ==
  ASSUME NEW S, NEW s \in Seq(S), NEW h \in 0..Len(s) - 1
  PROVE  LET a == SubSeq(s, h + 1, Len(s))
             t == SubSeq(s, 1, Len(s) - 1)
         IN /\ a # <<>> /\ a[Len(a)] = s[Len(s)]
            /\ SubSeq(t, h + 1, Len(t)) = SubSeq(a, 1, Len(a) - 1)
<1>. DEFINE a == SubSeq(s, h + 1, Len(s))
            t == SubSeq(s, 1, Len(s) - 1)
            b == SubSeq(t, h + 1, Len(t))
            f == SubSeq(a, 1, Len(a) - 1)
<1>1. Len(s) \in Nat /\ Len(s) > 0 /\ h \in 0..Len(s)
  BY LenProperties
<1>2. /\ t \in Seq(S) /\ Len(t) = Len(s) - 1
      /\ \A i \in 1..Len(s) - 1 : t[i] = s[i]
  BY <1>1, FrontFacts
<1>3. a \in Seq(S) /\ Len(a) = Len(s) - h /\ \A i \in 1..Len(s) - h : a[i] = s[h + i]
  BY <1>1, AboveFacts
<1>. HIDE DEF a, t
<1>4. b \in Seq(S) /\ Len(b) = Len(t) - h /\ \A i \in 1..Len(t) - h : b[i] = t[h + i]
  BY <1>1, <1>2, AboveFacts
<1>5. Len(a) # 0
  BY <1>1, <1>3
<1>6. /\ f \in Seq(S) /\ Len(f) = Len(a) - 1
      /\ \A i \in 1..Len(a) - 1 : f[i] = a[i]
  BY <1>3, <1>5, FrontFacts
<1>. HIDE DEF b, f
<1>7. ASSUME NEW i \in 1..Len(b)  PROVE b[i] = f[i]
  <2>1. i \in 1..Len(a) - 1 /\ h + i \in 1..Len(s) - 1 /\ i \in 1..Len(t) - h /\ i \in 1..Len(s) - h
    BY <1>1, <1>2, <1>3, <1>4
  <2>. QED  BY <1>2, <1>3, <1>4, <1>6, <2>1
<1>8. Len(b) = Len(f)
  BY <1>1, <1>2, <1>3, <1>4, <1>6
<1>9. b = f
  BY <1>4, <1>6, <1>7, <1>8, SeqEqual
<1>10. a # <<>> /\ a[Len(a)] = s[Len(s)]
  BY <1>1, <1>3, <1>5
<1>. QED  BY <1>9, <1>10 DEF a, t, b, f

LEMMA AboveTail ==
  ASSUME NEW S, NEW s \in Seq(S), NEW h \in 0..Len(s) - 1
  PROVE  LET a == SubSeq(s, h + 1, Len(s))
         IN /\ a # <<>> /\ Head(a) = s[h + 1]
            /\ SubSeq(s, (h + 1) + 1, Len(s)) = Tail(a)
<1>. DEFINE a == SubSeq(s, h + 1, Len(s))
<1>1. Len(s) \in Nat /\ h + 1 \in 1..Len(s) /\ Len(s) \in h + 1..Len(s) /\ h \in 0..Len(s)
  BY LenProperties
<1>2. Len(a) # 0
  BY <1>1, AboveFacts
<1>3. ASSUME NEW m \in 1..Len(s)
      PROVE  Head(SubSeq(s, m, Len(s))) = s[m] /\ Tail(SubSeq(s, m, Len(s))) = SubSeq(s, m + 1, Len(s))
  <2>1. Len(s) \in m..Len(s) /\ m \in Nat
    BY <1>1
  <2>. QED  BY <2>1, HeadTailOfSubSeq
<1>4. Head(a) = s[h + 1] /\ Tail(a) = SubSeq(s, (h + 1) + 1, Len(s))
  BY <1>1, <1>3
<1>5. a # <<>>
  BY <1>2, EmptySeq
<1>. QED  BY <1>4, <1>5

-----------------------------------------------------------------------------
(* What the detailed protocol does to the deque that it implements.           *)
LEMMA StackFacts ==
  ASSUME IInv
  PROVE  /\ stack \in Seq(Continuation) /\ head \in Nat /\ Len(stack) \in Nat
         /\ InUserCode => head \in 0..Len(stack)
         /\ ~InUserCode => stack = <<>>
  BY DEF IInv, TypeOK, Index, PointerInv, StackInv

LEMMA NothingAbove ==
  ASSUME NEW h \in Nat
  PROVE  SubSeq(<<>>, h + 1, Len(<<>>)) = <<>>
  BY SubSeqEmpty, EmptySeq

(* Most steps leave it alone, and so do a return to the runtime, which leaves *)
(* nothing behind, and the reset of the pointers of an empty stack.           *)
LEMMA QuietSteps ==
  ASSUME IInv, UNCHANGED <<stack, head, popped, stolen>>
  PROVE  UNCHANGED Deque!vars
  BY DEF Deque!vars, Outstanding

LEMMA ResetPointers ==
  ASSUME IInv, SetupForExecution
  PROVE  UNCHANGED Deque!vars
<1>1. stack = <<>> /\ stack' = <<>> /\ head \in Nat /\ head' = 0
  BY StackFacts DEF SetupForExecution, InUserCode, Leaving
<1>2. Outstanding = <<>> /\ Outstanding' = <<>>
  BY <1>1, NothingAbove DEF Outstanding
<1>. QED  BY <1>2 DEF Deque!vars, SetupForExecution, thiefVars

LEMMA Unwinding ==
  ASSUME IInv, HandlerUnwind
  PROVE  UNCHANGED Deque!vars
<1>1. stack \in Seq(Continuation) /\ head = Len(stack) /\ stack' = <<>> /\ head' = head /\ head \in Nat
  BY StackFacts DEF HandlerUnwind, pointers, IInv, PointerInv
<1>2. Outstanding = <<>>
  BY <1>1, SubSeqEmpty DEF Outstanding
<1>3. Outstanding' = <<>>
  BY <1>1, NothingAbove DEF Outstanding
<1>. QED  BY <1>2, <1>3 DEF Deque!vars, HandlerUnwind, thiefVars

LEMMA NextContinuation ==
  ASSUME IInv, Detach
  PROVE  spawns' \in Continuation
<1>1. spawns \in 0..MaxSpawn /\ spawns < MaxSpawn /\ spawns' = spawns + 1
  BY DEF Detach, IInv, TypeOK
<1>. QED  BY <1>1, DepthAssumption DEF Continuation

LEMMA DetachPushes ==
  ASSUME IInv, Detach
  PROVE  Deque!Push(spawns')
<1>1. /\ stack \in Seq(Continuation) /\ head \in 0..Len(stack) /\ Len(stack) \in Nat
      /\ spawns' = spawns + 1 /\ stack' = Append(stack, spawns')
      /\ UNCHANGED <<head, popped, stolen>>
  BY StackFacts DEF Detach, pointers, thiefVars, InUserCode
<1>0. spawns' \in Continuation
  BY NextContinuation
<1>2. Outstanding' = Append(Outstanding, spawns')
  BY <1>0, <1>1, AboveAppend DEF Outstanding
<1>3. spawns' \notin popped \union stolen /\ \A i \in 1..Len(stack) : stack[i] # spawns'
  BY <1>1 DEF IInv, HistoryInv, TypeOK
<1>4. \A i \in 1..Len(Outstanding) : Outstanding[i] # spawns'
  <2>1. Len(Outstanding) = Len(stack) - head /\ \A i \in 1..Len(stack) - head : Outstanding[i] = stack[head + i]
    BY <1>1, AboveFacts DEF Outstanding
  <2>. QED  BY <1>1, <1>3, <2>1
<1>. QED  BY <1>1, <1>2, <1>3, <1>4 DEF Deque!Push

LEMMA PopTakesYoungest ==
  ASSUME IInv, PopStack, UNCHANGED <<head, stolen>>, InUserCode, head < Len(stack)
  PROVE  Deque!PopBottom
<1>1. stack \in Seq(Continuation) /\ head \in 0..Len(stack) - 1
  BY StackFacts
<1>2. /\ Outstanding # <<>> /\ Outstanding[Len(Outstanding)] = stack[Len(stack)]
      /\ Outstanding' = SubSeq(Outstanding, 1, Len(Outstanding) - 1)
  BY <1>1, AboveFront DEF Outstanding, PopStack
<1>. QED  BY <1>2 DEF Deque!PopBottom, PopStack

LEMMA CheckPops ==
  ASSUME IInv, LeaveCheck
  PROVE  Deque!PopBottom \/ UNCHANGED Deque!vars
<1>1. CASE exc > ltail /\ UNCHANGED <<stack, popped>>
  BY <1>1, QuietSteps DEF LeaveCheck, pointers, thiefVars
<1>2. CASE exc <= ltail /\ PopStack
  <2>1. head <= exc /\ Len(stack) = ltail + 1 /\ head \in Nat /\ ltail \in Nat /\ exc \in Nat
    BY DEF LeaveCheck, IInv, TypeOK, Index, StackInv, Leaving, PointerInv, ClosureInv
  <2>2. head < Len(stack)
    BY <1>2, <2>1
  <2>. QED  BY <1>2, <2>2, PopTakesYoungest DEF LeaveCheck, pointers, thiefVars, InUserCode, Leaving
<1>. QED  BY <1>1, <1>2 DEF LeaveCheck

LEMMA ResumePops ==
  ASSUME IInv, HandlerResume
  PROVE  Deque!PopBottom
  BY PopTakesYoungest DEF HandlerResume, pointers, thiefVars, InUserCode, Leaving, IInv, PointerInv

LEMMA BumpSteals ==
  ASSUME IInv, NEW t \in Thieves, BumpHead(t)
  PROVE  Deque!StealTop
<1>1. stack \in Seq(Continuation) /\ head \in Nat /\ head < Len(stack) /\ loot[t] = stack[head + 1]
  BY StackFacts DEF BumpHead, IInv, PointerInv, HistoryInv
<1>2. head \in 0..Len(stack) - 1
  BY <1>1
<1>3. /\ Outstanding # <<>> /\ Head(Outstanding) = stack[head + 1]
      /\ SubSeq(stack, (head + 1) + 1, Len(stack)) = Tail(Outstanding)
  BY <1>1, <1>2, AboveTail DEF Outstanding
<1>4. head' = head + 1 /\ stack' = stack /\ popped' = popped /\ stolen' = stolen \union {loot[t]}
  BY DEF BumpHead, victimVars
<1>5. Outstanding' = Tail(Outstanding)
  BY <1>3, <1>4 DEF Outstanding
<1>. QED  BY <1>1, <1>3, <1>4, <1>5 DEF Deque!StealTop

LEMMA EveryStepMaps ==
  ASSUME IInv, [Next]_vars
  PROVE  [Deque!Next]_Deque!vars
<1>1. CASE \/ Drain \/ AddBottom \/ EnterUserCode \/ LeaveStoreTail \/ LeaveFence \/ HandlerLock
           \/ Extract \/ BackToRuntime \/ UNCHANGED vars
  <2>1. UNCHANGED <<stack, head, popped, stolen>>
    BY <1>1 DEF Drain, AddBottom, EnterUserCode, LeaveStoreTail, LeaveFence, HandlerLock,
       Extract, BackToRuntime, vars, pointers, victimVars, thiefVars
  <2>. QED  BY <2>1, QuietSteps
<1>2. ASSUME NEW t \in Thieves,
             \/ TryLock(t) \/ RaiseExc(t) \/ Dekker(t) \/ RetractExc(t) \/ ReadFrame(t) \/ UnlockVictim(t)
      PROVE  UNCHANGED Deque!vars
  <2>1. UNCHANGED <<stack, head, popped, stolen>>
    BY <1>2 DEF TryLock, RaiseExc, Dekker, RetractExc, ReadFrame, UnlockVictim, pointers, victimVars
  <2>. QED  BY <2>1, QuietSteps
<1>3. CASE SetupForExecution \/ HandlerUnwind
  BY <1>3, ResetPointers, Unwinding
<1>4. CASE Detach
  <2>1. spawns' \in 1..MaxSpawn
    BY <1>4, NextContinuation DEF Continuation
  <2>. QED  BY <1>4, <2>1, DetachPushes DEF Deque!Next
<1>5. CASE LeaveCheck \/ HandlerResume
  BY <1>5, CheckPops, ResumePops DEF Deque!Next
<1>6. CASE \E t \in Thieves : BumpHead(t)
  BY <1>6, BumpSteals DEF Deque!Next
<1>. QED  BY <1>1, <1>2, <1>3, <1>4, <1>5, <1>6 DEF Next, VictimStep, ThiefStep

(* Seen through what is outstanding, the protocol is a deque whose operations *)
(* are single steps, for any number of thieves and any depth.                 *)
THEOREM ProtocolImplementsDeque == Spec => ImplementsDeque
<1>1. Init => Deque!Init
  <2>. SUFFICES ASSUME Init  PROVE Deque!Init
    OBVIOUS
  <2>1. Outstanding = <<>>
    BY NothingAbove DEF Init, Outstanding
  <2>. QED  BY <2>1 DEF Init, Deque!Init
<1>2. IInv /\ [Next]_vars => [Deque!Next]_Deque!vars
  BY EveryStepMaps
<1>. QED  BY <1>1, <1>2, Invariance, PTL DEF Spec, ImplementsDeque, Deque!Spec
=============================================================================
