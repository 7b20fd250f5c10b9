----------------------------- MODULE SortTasks ------------------------------
(***************************************************************************)
(* What the two parallel merge sorts share: their memory, their calls, the *)
(* sequential merge that both end in, and what it means for two calls to   *)
(* race.                                                                   *)
(*                                                                         *)
(* A call that splits its part of the array allocates a temporary of the   *)
(* same size, so all temporaries of one depth of the recursion lie side by *)
(* side: mem[d][i] is the cell for index i in the output array of the call *)
(* of depth d around it, mem[0] is the array that is returned.             *)
(***************************************************************************)
EXTENDS Integers, SequencesExt, FiniteSets

CONSTANTS
  N,            \* size of the array
  Key,          \* what is sorted, all different
  THRESHOLD,    \* a merge of fewer elements is sequential
  UNINIT        \* what malloc leaves in a cell, told apart from the keys

ASSUME SortAssumption ==
  /\ N \in Nat \ {0} /\ THRESHOLD \in Nat \ {0}
  /\ Key \subseteq Int /\ Cardinality(Key) = N /\ UNINIT \in Int \ Key

VARIABLES
  array,    \* the input
  mem,      \* the output and the temporaries
  tasks     \* the calls in progress, by their place in the tree of calls

vars == <<array, mem, tasks>>

Index == 0..N-1

(* fill_array: the keys in any order. *)
Input == {a \in [Index -> Key] : \A i, j \in Index : a[i] = a[j] => i = j}
Fresh == [d \in Index |-> [i \in Index |-> UNINIT]]

-----------------------------------------------------------------------------
(* Slips: plausible mistakes in the definitions below.                        *)

(* The call that runs on another thread is not waited for. *)
Joined_Called(p) == ~ \E q \in DOMAIN tasks, c \in {2, 3} : IsPrefix(Append(p, c), q)

(* Equal parts are swapped too, and again. *)
NeedsSwap_Equal(t) == t.l <= t.r

(* Of two heads the larger is taken. *)
TakesLeft_Larger(t) == t.l > 0 /\ (t.r > 0 => mem[t.at + 1][t.left] >= mem[t.at + 1][t.right])

-----------------------------------------------------------------------------
(* A call of the sort is known by the depth, first index and size of its      *)
(* output; one of the merge by its output and by its two inputs, whose        *)
(* temporary is one deeper.  "level" and "thread" matter to PthreadSort only. *)
Sort(depth, first, size, level, thread) ==
  [op |-> "sort", pc |-> "start", at |-> depth, first |-> first, size |-> size,
   level |-> level, thread |-> thread]
Merge(depth, out, left, right, l, r, level, thread) ==
  [op |-> "merge", pc |-> "start", at |-> depth, out |-> out, left |-> left, right |-> right,
   l |-> l, r |-> r, level |-> level, thread |-> thread]

At(p, op, label) == p \in DOMAIN tasks /\ tasks[p].op = op /\ tasks[p].pc = label
Goto(p, label) == [tasks EXCEPT ![p].pc = label]
Return(p) == [q \in DOMAIN tasks \ {p} |-> tasks[q]]

(* The calls that p made have returned: cilk_sync, or pthread_join and a      *)
(* return.                                                                    *)
Joined(p) == ~ \E q \in DOMAIN tasks : IsStrictPrefix(p, q)

(* temp, of a call of the sort. *)
Segment(t) == t.first .. t.first + t.size - 1
Set(d, cells, value(_)) ==
  mem' = [mem EXCEPT ![d] = [i \in Index |-> IF i \in cells THEN value(i) ELSE @[i]]]

(* C's division truncates towards zero. *)
Quotient(a, b) == IF a >= 0 THEN a \div b ELSE -((-a) \div b)

(* do_binary_search in the size cells from first on. *)
BinarySearch(key, cell, first, size) ==
  LET search[left \in 0..size, right \in -1..size - 1] ==
        LET mid == left + Quotient(right - left, 2)
        IN IF right < left \/ cell[first + mid] = key THEN mid
           ELSE IF cell[first + mid] > key THEN search[left, mid - 1]
           ELSE search[mid + 1, right]
  IN search[0, size - 1]

(* The larger part is to be on the left. *)
NeedsSwap(t) == t.l < t.r

(* How a merge is split. *)
NewLS(t) == t.l \div 2
Pivot(t) == mem[t.at + 1][t.left + NewLS(t)]
NewRS(t) == BinarySearch(Pivot(t), mem[t.at + 1], t.right, t.r)
PivotIndex(t) == t.out + NewLS(t) + NewRS(t)
SetPivot(t) == mem' = [mem EXCEPT ![t.at][PivotIndex(t)] = Pivot(t)]

-----------------------------------------------------------------------------
(* s_merge: one turn of its three loops.                                      *)
TakesLeft(t) == t.l > 0 /\ (t.r > 0 => mem[t.at + 1][t.left] <= mem[t.at + 1][t.right])

MergeOne(p) ==
  /\ At(p, "merge", "s_merge")
  /\ LET t == tasks[p]
     IN \/ /\ TakesLeft(t)
           /\ mem' = [mem EXCEPT ![t.at][t.out] = mem[t.at + 1][t.left]]
           /\ tasks' = [tasks EXCEPT ![p].out = @ + 1, ![p].left = @ + 1, ![p].l = @ - 1]
        \/ /\ ~TakesLeft(t) /\ t.r > 0
           /\ mem' = [mem EXCEPT ![t.at][t.out] = mem[t.at + 1][t.right]]
           /\ tasks' = [tasks EXCEPT ![p].out = @ + 1, ![p].right = @ + 1, ![p].r = @ - 1]
  /\ UNCHANGED array

MergedAll(p) ==
  /\ At(p, "merge", "s_merge")
  /\ tasks[p].l = 0 /\ tasks[p].r = 0
  /\ tasks' = Return(p)
  /\ UNCHANGED <<array, mem>>

(* A call whose last act was to wait. *)
MergeJoined(p) ==
  /\ At(p, "merge", "sync") /\ Joined(p)
  /\ tasks' = Return(p)
  /\ UNCHANGED <<array, mem>>

(* The merge has returned: free(temp). *)
FreeTemp(p) ==
  /\ At(p, "sort", "free") /\ Joined(p)
  /\ Set(tasks[p].at + 1, Segment(tasks[p]), LAMBDA i : UNINIT)
  /\ tasks' = Return(p)
  /\ UNCHANGED array

-----------------------------------------------------------------------------
(* The array that is returned holds the keys of the input, in order.          *)
Copies(f, k) == Cardinality({i \in Index : f[i] = k})
Sorted ==
  DOMAIN tasks = {} =>
    /\ \A k \in Key : Copies(mem[0], k) = Copies(array, k)
    /\ \A i, j \in Index : i < j => mem[0][i] <= mem[0][j]

(* The cells, by depth and index, that the next step of a call reads and      *)
(* writes.  The input is never written.                                       *)
Cells(d, S) == {d} \X S
Reads(p) ==
  LET t == tasks[p] IN
  IF t.op = "merge" /\ t.pc = "s_merge"
  THEN Cells(t.at + 1, {i \in {t.left} : t.l > 0} \union {i \in {t.right} : t.r > 0})
  ELSE IF t.op = "merge" /\ t.pc = "start" /\ ~NeedsSwap(t) /\ t.l >= THRESHOLD
  THEN Cells(t.at + 1, {t.left + NewLS(t)} \union t.right..t.right + t.r - 1)
  ELSE {}
Writes(p) ==
  LET t == tasks[p] IN
  IF t.op = "merge" /\ t.pc = "s_merge" /\ t.l + t.r > 0 THEN Cells(t.at, {t.out})
  ELSE IF t.op = "merge" /\ t.pc = "start" /\ ~NeedsSwap(t) /\ t.l >= THRESHOLD
  THEN Cells(t.at, {PivotIndex(t)})
  ELSE IF t.op = "sort" /\ (t.pc = "leaf" \/ (t.pc = "start" /\ t.size = 1))
  THEN Cells(t.at, Segment(t))
  ELSE IF t.op = "sort" /\ t.pc = "free" /\ Joined(p) THEN Cells(t.at + 1, Segment(t))
  ELSE {}

(* Calls in progress do not race: no cell that one is about to write is about *)
(* to be read or written by another.  Calls of two threads touch the same     *)
(* temporary all the time; what keeps them apart is how a merge is split and  *)
(* who waits for whom.                                                        *)
NoRace ==
  \A p, q \in DOMAIN tasks : p # q => Writes(p) \intersect (Reads(q) \union Writes(q)) = {}
=============================================================================
