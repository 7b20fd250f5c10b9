------------------------------ MODULE SpawnSync ------------------------------
(***************************************************************************)
(* How the runtime runs a fork-join program: what is spawned, and what     *)
(* follows the spawn, may run in either order or at the same time, up to   *)
(* the next cilk_sync.  Every strand that could run next is a task's next  *)
(* item; two of them may run in parallel.                                  *)
(***************************************************************************)
EXTENDS Strands

CONSTANTS
  Program,                   \* the programs
  FirstCall(_), Found(_),    \* the first call of each, and what it finds in memory
  ItemsOf(_, _, _),          \* the items of a task
  AccessBy(_, _, _, _),      \* what a strand of a task accesses
  Accepts(_, _)              \* what the program's own check looks for in memory

VARIABLES
  program,
  mem,
  tasks      \* the calls in progress, by their place in the tree of calls

vars == <<program, mem, tasks>>

-----------------------------------------------------------------------------
Task(call, p) == call @@ [at |-> p, pc |-> 1]

Init ==
  /\ program \in Program
  /\ mem = Found(program)
  /\ tasks = (<<>> :> Task(FirstCall(program), <<>>))

Items(p) == ItemsOf(program, tasks[p], mem)
Accessed(p, item) == AccessBy(program, tasks[p], item.step, mem)

(* The calls that p spawned have returned. *)
Joined(p) == ~ \E q \in DOMAIN tasks : IsStrictPrefix(p, q)

(* Behind the last item the call returns, and its frame is popped. *)
Advanced(p, items) ==
  IF tasks[p].pc < Len(items) THEN [tasks EXCEPT ![p].pc = @ + 1]
  ELSE [q \in DOMAIN tasks \ {p} |-> tasks[q]]
Popped(p, items) ==
  IF tasks[p].pc < Len(items) THEN {} ELSE {c \in DOMAIN mem : c[1] = "frame" /\ c[2] = p}

RunStrand(p, items) ==
  /\ items[tasks[p].pc].op = "strand"
  /\ LET a == Accessed(p, items[tasks[p].pc])
         written == DOMAIN a.writes
     IN mem' = [c \in (DOMAIN mem \union written) \ (a.frees \union Popped(p, items)) |->
                  IF c \in written THEN a.writes[c] ELSE mem[c]]
  /\ tasks' = Advanced(p, items)
  /\ UNCHANGED program

(* The number of a child tells it apart from those of earlier spawns. *)
RunSpawn(p, items) ==
  /\ items[tasks[p].pc].op = "spawn"
  /\ LET calls == items[tasks[p].pc].calls
         Child(i) == Append(p, 100 * tasks[p].pc + i)
     IN tasks' = [q \in {Child(i) : i \in DOMAIN calls} |->
                    Task(calls[Last(q) - 100 * tasks[p].pc], q)] @@ Advanced(p, items)
  /\ UNCHANGED <<program, mem>>

RunSync(p, items) ==
  /\ items[tasks[p].pc].op = "sync" /\ Joined(p)
  /\ tasks' = Advanced(p, items)
  /\ mem' = [c \in DOMAIN mem \ Popped(p, items) |-> mem[c]]
  /\ UNCHANGED program

Terminated == DOMAIN tasks = {} /\ UNCHANGED vars

Next ==
  \/ \E p \in DOMAIN tasks :
       LET items == Items(p) IN RunStrand(p, items) \/ RunSpawn(p, items) \/ RunSync(p, items)
  \/ Terminated

Spec == Init /\ [][Next]_vars

-----------------------------------------------------------------------------
(* What each task is about to do. *)
Upcoming(p) ==
  LET item == Items(p)[tasks[p].pc]
      a == Accessed(p, item)
  IN IF item.op = "strand"
     THEN [at |-> p, reads |-> a.reads, writes |-> DOMAIN a.writes, frees |-> a.frees, new |-> a.new]
     ELSE [at |-> p, reads |-> IF item.op = "spawn" THEN item.reads ELSE {},
           writes |-> {}, frees |-> {}, new |-> {}]
AllUpcoming == {Upcoming(p) : p \in DOMAIN tasks}

(* Strands that may run in parallel do not race: no cell that one of them     *)
(* writes or frees is read, written or freed by another.  The parts that the  *)
(* programs spawn work side by side on one array, and are kept apart by index *)
(* arithmetic (halves, quarters, a binary search, stripes that read the rows  *)
(* next to them), by a cilk_sync, or by a board, temporary or node that each  *)
(* allocates for itself.                                                      *)
NoRace ==
  LET upcoming == AllUpcoming
  IN \A a, b \in upcoming :
       a.at # b.at => (a.writes \union a.frees) \intersect (b.reads \union b.writes \union b.frees) = {}

(* A cell of an array has been allocated, one of a frame belongs to a call in *)
(* progress.                                                                  *)
Exists(cell) == IF cell[1] = "frame" THEN cell[2] \in DOMAIN tasks ELSE cell \in DOMAIN mem

(* Strands stay within their arrays, odd and uneven sizes included, read no   *)
(* node or temporary that is not there, and use nothing that has been freed   *)
(* or was on the stack of a call that has returned.                           *)
InBounds ==
  \A a \in AllUpcoming :
    \A cell \in a.reads \union a.writes \union a.frees : Exists(cell) \/ cell \in a.new

(* However the tasks were interleaved, the result is what the program's own   *)
(* check accepts: fib(n) and the number of boards, the product of two         *)
(* matrices, factors whose product is the matrix, the transform as defined,   *)
(* the field of the last time step, the array in order.                       *)
Correct == DOMAIN tasks = {} => Accepts(program, mem)
=============================================================================
