------------------------------ MODULE CilkSort ------------------------------
(***************************************************************************)
(* cilk_sort: every call of the sort spawns one half and calls the other,  *)
(* and so does every merge of THRESHOLD elements or more.  The runtime may *)
(* run what is spawned, and what follows the spawn, in either order or at  *)
(* the same time.                                                          *)
(***************************************************************************)
EXTENDS SortTasks, TLC

Call(depth, first, size) == Sort(depth, first, size, 1, FALSE)
CallMerge(depth, out, left, right, l, r) == Merge(depth, out, left, right, l, r, 1, FALSE)

-----------------------------------------------------------------------------
SortOne(p) ==
  /\ At(p, "sort", "start") /\ tasks[p].size = 1
  /\ Set(tasks[p].at, Segment(tasks[p]), LAMBDA i : array[i])
  /\ tasks' = Return(p)
  /\ UNCHANGED array

(* malloc, the spawn of the first half and the call of the second. *)
SortSplit(p) ==
  /\ At(p, "sort", "start") /\ tasks[p].size > 1
  /\ LET t == tasks[p]
         half == t.size \div 2
     IN tasks' = (Append(p, 1) :> Call(t.at + 1, t.first, half)) @@
                 (Append(p, 2) :> Call(t.at + 1, t.first + half, t.size - half)) @@
                 Goto(p, "sync")
  /\ UNCHANGED <<array, mem>>

(* Behind cilk_sync. *)
SortMerge(p) ==
  /\ At(p, "sort", "sync") /\ Joined(p)
  /\ LET t == tasks[p]
         half == t.size \div 2
     IN tasks' = (Append(p, 3) :>
                    CallMerge(t.at, t.first, t.first, t.first + half, half, t.size - half)) @@
                 Goto(p, "free")
  /\ UNCHANGED <<array, mem>>

MergeSwap(p) ==
  /\ At(p, "merge", "start")
  /\ LET t == tasks[p]
     IN /\ NeedsSwap(t)
        /\ tasks' = [tasks EXCEPT ![p] = CallMerge(t.at, t.out, t.right, t.left, t.r, t.l)]
  /\ UNCHANGED <<array, mem>>

MergeSequential(p) ==
  /\ At(p, "merge", "start")
  /\ ~NeedsSwap(tasks[p]) /\ tasks[p].l < THRESHOLD
  /\ tasks' = Goto(p, "s_merge")
  /\ UNCHANGED <<array, mem>>

LeftPart(t) == CallMerge(t.at, t.out, t.left, t.right, NewLS(t), NewRS(t))
RightPart(t) ==
  CallMerge(t.at, PivotIndex(t) + 1, t.left + NewLS(t) + 1, t.right + NewRS(t),
            t.l - NewLS(t) - 1, t.r - NewRS(t))

MergeSplit(p) ==
  /\ At(p, "merge", "start")
  /\ ~NeedsSwap(tasks[p]) /\ tasks[p].l >= THRESHOLD
  /\ SetPivot(tasks[p])
  /\ tasks' = (Append(p, 1) :> LeftPart(tasks[p])) @@
              (Append(p, 2) :> RightPart(tasks[p])) @@
              Goto(p, "sync")
  /\ UNCHANGED array

-----------------------------------------------------------------------------
Step(p) ==
  \/ SortOne(p) \/ SortSplit(p) \/ SortMerge(p) \/ FreeTemp(p)
  \/ MergeSwap(p) \/ MergeSequential(p) \/ MergeSplit(p)
  \/ MergeOne(p) \/ MergedAll(p) \/ MergeJoined(p)
=============================================================================
