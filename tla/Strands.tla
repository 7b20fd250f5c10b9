------------------------------- MODULE Strands -------------------------------
(***************************************************************************)
(* What the fork-join programs are written in.  A call is a record with    *)
(* the function, f, and its arguments; a task is a call in progress, with  *)
(* its place in the tree of calls, at, and the number of its next item,    *)
(* pc.  The body of a function is a sequence of items: strands, which      *)
(* access memory, spawns and syncs.                                        *)
(*                                                                         *)
(* Memory is a function on cells, tuples that begin with the name of an    *)
(* array.  Its numbers are integers modulo a prime, so that a quotient, a  *)
(* square root and a root of one exist, and results can be compared        *)
(* exactly.                                                                *)
(***************************************************************************)
EXTENDS Integers, SequencesExt, FiniteSetsExt

CONSTANT PRIME

ASSUME PrimeAssumption == PRIME \in Nat /\ PRIME > 1 /\ \A d \in 2..PRIME - 1 : PRIME % d # 0

Mod(x) == x % PRIME
Quotient(x, y) == Mod(x * CHOOSE z \in 1..PRIME - 1 : Mod(y * z) = 1)
Sum(S, value(_)) == MapThenSumSet(value, S)

Strand(step) == [op |-> "strand", step |-> step]
Spawn(calls) == [op |-> "spawn", calls |-> calls, spawned |-> Len(calls), reads |-> {}]
Sync == [op |-> "sync"]

(* All calls but the last are spawned, and a cilk_sync follows. *)
Fork(calls) == <<[Spawn(calls) EXCEPT !.spawned = Len(calls) - 1], Sync>>
SpawnAll(calls) == <<Spawn(calls), Sync>>

HasEffect(item) == item.op = "spawn" => item.calls # <<>>

(* A call of a function from a function that is spawned or called itself. *)
Call(f, arguments) == arguments @@ [f |-> f]

(* Compiled by hand: what is spawned is called by a helper, which detaches.   *)
Helped(call) == Call("spawn_helper", [inner |-> call])
spawn_helper(t) == Fork(<<t.inner>>)
Compiled(items) ==
  [i \in DOMAIN items |->
     IF items[i].op # "spawn" THEN items[i]
     ELSE [items[i] EXCEPT !.calls =
             [k \in DOMAIN @ |-> IF k <= items[i].spawned THEN Helped(@[k]) ELSE @[k]]]]

(* What a strand accesses: the cells it reads, the values it writes, and the  *)
(* cells it allocates and frees.                                              *)
Access(reads, writes) == [reads |-> reads, writes |-> writes, new |-> {}, frees |-> {}]
Allocating(access) == [access EXCEPT !.new = DOMAIN access.writes]
Freeing(cells) == [reads |-> {}, writes |-> <<>>, new |-> {}, frees |-> cells]

(* A variable of a task, its cell on the stack. *)
Local(t, name) == <<"frame", t.at, name>>

(* What is in a cell, whatever memory held before it was written. *)
Value(mem, cell) == IF cell \in DOMAIN mem THEN mem[cell] ELSE 0

(* A cell of a matrix is its array, the row and the column; a part of it is   *)
(* known by the cell it begins at.                                            *)
Part(M, i, j) == [M EXCEPT ![Len(M) - 1] = @ + i, ![Len(M)] = @ + j]
Cells(M, n) == {Part(M, i, j) : i \in 0..n - 1, j \in 0..n - 1}
Square(name, n, value(_, _)) ==
  [c \in Cells(<<name, 0, 0>>, n) |-> Mod(value(c[2], c[3]))]

(* A rand(): numbers without a pattern. *)
Random(i) == Mod(5 + 17 * i + 3 * i * i * i)
=============================================================================
