---------------------------- MODULE PthreadSort -----------------------------
(***************************************************************************)
(* pthread_sort: a call of the sort or of the merge hands one half to a    *)
(* new thread and does the other itself, down to a level that num_threads  *)
(* gives; below that it is sequential.  When no thread can be created the  *)
(* half is done on the spot.                                               *)
(***************************************************************************)
EXTENDS SortTasks, TLC

CONSTANT MAX_THREADS    \* num_threads

ASSUME ThreadsAssumption == MAX_THREADS \in Nat

-----------------------------------------------------------------------------
(* Slips: plausible mistakes in the definitions below.                        *)

(* The level is not counted. *)
NextLevel_Same(t) == t.level

(* The pivot's cell is not passed over. *)
RightBegin_Pivot(t) == PivotIndex(t)

-----------------------------------------------------------------------------
(* pow(2, level - 1) >= MAX_THREADS *)
Exhausted(level) == 2 ^ (level - 1) >= MAX_THREADS

NextLevel(t) == t.level + 1

(* A call of p_pthr_sort, and of p_pthr_merge: the sequential ones are told   *)
(* apart at once.                                                             *)
Call(depth, first, size, level, thread) ==
  [Sort(depth, first, size, level, thread) EXCEPT
    !.pc = IF Exhausted(level) \/ size < THRESHOLD THEN "leaf" ELSE "start"]
CallMerge(depth, out, left, right, l, r, level, thread) ==
  [Merge(depth, out, left, right, l, r, level, thread) EXCEPT
    !.pc = IF Exhausted(level) \/ l < THRESHOLD THEN "s_merge" ELSE "start"]

(* s_pthr_merge and sp_merge_sort as functions of the sequences they read.    *)
SMerge(a, b) ==
  LET from[i \in 0..Len(a), k \in 0..Len(b)] ==
        IF i = Len(a) \/ k = Len(b) THEN SubSeq(a, i + 1, Len(a)) \o SubSeq(b, k + 1, Len(b))
        ELSE IF a[i + 1] <= b[k + 1] THEN <<a[i + 1]>> \o from[i + 1, k]
        ELSE <<b[k + 1]>> \o from[i, k + 1]
  IN from[0, 0]
SMergeSort(s) ==
  LET sort[n \in 1..Len(s), i \in 1..Len(s)] ==
        IF n = 1 THEN <<s[i]>>
        ELSE SMerge(sort[n \div 2, i], sort[n - n \div 2, i + n \div 2])
  IN sort[Len(s), 1]

(* sp_merge_sort of size elements into the output of the given depth.         *)
SortInto(depth, first, size) ==
  LET sorted == SMergeSort([k \in 1..size |-> array[first + k - 1]])
  IN Set(depth, first .. first + size - 1, LAMBDA i : sorted[i - first + 1])

(* pthread_sort: the root is a thread; or, with num_threads = 0 or without a  *)
(* thread, a sequential sort.                                                 *)
Roots ==
  (IF MAX_THREADS > 0 THEN {Call(0, 0, N, 1, TRUE)} ELSE {})
    \union {[Call(0, 0, N, 1, FALSE) EXCEPT !.pc = "leaf"]}

Leaf(p) ==
  /\ At(p, "sort", "leaf")
  /\ SortInto(tasks[p].at, tasks[p].first, tasks[p].size)
  /\ tasks' = Return(p)
  /\ UNCHANGED array

SecondHalf(t) ==
  Call(t.at + 1, t.first + t.size \div 2, t.size - t.size \div 2, NextLevel(t), FALSE)

SortSplit(p) ==
  /\ At(p, "sort", "start")
  /\ LET t == tasks[p]
     IN tasks' = (Append(p, 1) :> Call(t.at + 1, t.first, t.size \div 2, NextLevel(t), TRUE)) @@
                 (Append(p, 2) :> SecondHalf(t)) @@ Goto(p, "sync")
  /\ UNCHANGED <<array, mem>>

(* pthread_create fails: the first half is sorted before the second. *)
SortNoThread(p) ==
  /\ At(p, "sort", "start")
  /\ LET t == tasks[p]
     IN /\ SortInto(t.at + 1, t.first, t.size \div 2)
        /\ tasks' = (Append(p, 2) :> SecondHalf(t)) @@ Goto(p, "sync")
  /\ UNCHANGED array

(* Behind pthread_join. *)
SortMerge(p) ==
  /\ At(p, "sort", "sync") /\ Joined(p)
  /\ LET t == tasks[p]
         half == t.size \div 2
     IN tasks' = (Append(p, 3) :> CallMerge(t.at, t.first, t.first, t.first + half, half,
                                            t.size - half, t.level, FALSE)) @@
                 Goto(p, "free")
  /\ UNCHANGED <<array, mem>>

MergeSwap(p) ==
  /\ At(p, "merge", "start")
  /\ LET t == tasks[p]
     IN /\ NeedsSwap(t)
        /\ tasks' = [tasks EXCEPT ![p] =
                       CallMerge(t.at, t.out, t.right, t.left, t.r, t.l, t.level, t.thread)]
  /\ UNCHANGED <<array, mem>>

(* What the new thread merges: everything, sizes are not those of the part.   *)
LeftPart(t) == CallMerge(t.at, t.out, t.left, t.right, t.l, t.r, NextLevel(t), TRUE)

(* Where the right part begins in the output. *)
RightBegin(t) == PivotIndex(t) + 1
RightPart(t) ==
  CallMerge(t.at, RightBegin(t), t.left + NewLS(t) + 1, t.right + NewRS(t),
            t.l - NewLS(t) - 1, t.r - NewRS(t), NextLevel(t), FALSE)

MergeSplit(p) ==
  /\ At(p, "merge", "start")
  /\ LET t == tasks[p]
     IN /\ ~NeedsSwap(t)
        /\ SetPivot(t)
        /\ tasks' = (Append(p, 1) :> LeftPart(t)) @@ (Append(p, 2) :> RightPart(t)) @@
                    Goto(p, "sync")
  /\ UNCHANGED array

(* pthread_create fails: the left part, and only that, is merged first.       *)
MergeNoThread(p) ==
  /\ At(p, "merge", "start")
  /\ LET t == tasks[p]
         cell == mem[t.at + 1]
         left == SMerge([k \in 1..NewLS(t) |-> cell[t.left + k - 1]],
                        [k \in 1..NewRS(t) |-> cell[t.right + k - 1]])
     IN /\ ~NeedsSwap(t)
        /\ mem' = [mem EXCEPT ![t.at] =
                     [i \in Index |-> IF i \in t.out .. PivotIndex(t) - 1 THEN left[i - t.out + 1]
                                      ELSE IF i = PivotIndex(t) THEN Pivot(t) ELSE @[i]]]
        /\ tasks' = (Append(p, 2) :> RightPart(t)) @@ Goto(p, "sync")
  /\ UNCHANGED array

-----------------------------------------------------------------------------
Step(p) ==
  \/ Leaf(p) \/ SortSplit(p) \/ SortNoThread(p) \/ SortMerge(p) \/ FreeTemp(p)
  \/ MergeSwap(p) \/ MergeSplit(p) \/ MergeNoThread(p)
  \/ MergeOne(p) \/ MergedAll(p) \/ MergeJoined(p)

-----------------------------------------------------------------------------
(* The threads that exist, beside the one in main, which waits.               *)
Threads == {p \in DOMAIN tasks : tasks[p].thread}

(* There are never more threads than the least power of two that is not less  *)
(* than num_threads, however sorts and merges of different levels overlap.    *)
ThreadsBounded ==
  \A k \in 0..N : 2 ^ k >= MAX_THREADS => Cardinality(Threads) <= 2 ^ k
=============================================================================
