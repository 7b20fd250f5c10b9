----------------------------- MODULE WorkDeque -----------------------------
(***************************************************************************)
(* What a worker's spawn deque promises the rest of the runtime: the owner *)
(* pushes and pops spawned continuations at the tail, thieves take them    *)
(* from the head, and every one of these operations is a single step.      *)
(***************************************************************************)
EXTENDS Naturals, Sequences

CONSTANT MaxSpawn       \* bound on the number of spawns of a behaviour

VARIABLES
  items,    \* continuations that are still up for grabs, oldest first
  popped,   \* continuations the owner resumed itself
  stolen    \* continuations a thief took

vars == <<items, popped, stolen>>

TypeOK ==
  /\ items \in Seq(1..MaxSpawn)
  /\ popped \subseteq 1..MaxSpawn
  /\ stolen \subseteq 1..MaxSpawn

Init == items = <<>> /\ popped = {} /\ stolen = {}

(* A spawn makes a continuation that nobody has resumed yet available. *)
Push(x) ==
  /\ x \notin popped \union stolen
  /\ \A i \in 1..Len(items) : items[i] # x
  /\ items' = Append(items, x)
  /\ UNCHANGED <<popped, stolen>>

(* The owner returns from a spawned child and resumes the youngest one. *)
PopBottom ==
  /\ items # <<>>
  /\ popped' = popped \union {items[Len(items)]}
  /\ items' = SubSeq(items, 1, Len(items) - 1)
  /\ UNCHANGED stolen

(* A thief takes the oldest one. *)
StealTop ==
  /\ items # <<>>
  /\ stolen' = stolen \union {Head(items)}
  /\ items' = Tail(items)
  /\ UNCHANGED popped

Next == (\E x \in 1..MaxSpawn : Push(x)) \/ PopBottom \/ StealTop

Spec == Init /\ [][Next]_vars
=============================================================================
