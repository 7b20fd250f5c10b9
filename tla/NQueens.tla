------------------------------- MODULE NQueens -------------------------------
(***************************************************************************)
(* nqueens: the boards b of the turns of a loop are allocated on the stack *)
(* one by one while the calls that earlier turns spawned use theirs.       *)
(***************************************************************************)
EXTENDS Strands

CONSTANTS
  N, HAND,
  Placed      \* the queens on the board to begin with, none in the code

(* Slips: plausible mistakes in the definitions below. *)

(* One b for all turns of the loop, allocated before it. *)
Board_Shared(t, i) == Local(t, <<"b", 0>>)

-----------------------------------------------------------------------------
Nqueens(j, a, ret) == Call("nqueens", [j |-> j, a |-> a, ret |-> ret])

Count(t, i) == Local(t, <<"count", i>>)
Board(t, i) == Local(t, <<"b", i>>)

ok(a) == \A i, j \in DOMAIN a : i < j => a[j] # a[i] /\ a[j] # a[i] - (j - i) /\ a[j] # a[i] + (j - i)

(* The board that turn i tries. *)
Tried(t, i, mem) == Append(Value(mem, t.a), i)

(* The first strand sets count to 0; each turn of the loop has one, and       *)
(* spawns if the board is ok.                                                 *)
Turn(t, i, mem) ==
  <<Strand(i),
    Spawn(IF ok(Tried(t, i, mem)) THEN <<Nqueens(t.j + 1, Board(t, i), Count(t, i))>> ELSE <<>>)>>
nqueens(t, mem) ==
  IF t.j = N THEN <<Strand(N)>>
  ELSE LET turns == [k \in 0..2 * N - 1 |-> Turn(t, k \div 2, mem)[(k % 2) + 1]]
       IN <<Strand(-1)>> \o SelectSeq([k \in 1..2 * N |-> turns[k - 1]], HasEffect)
          \o <<Sync, Strand(N)>>
hand_nqueens(t, mem) == Compiled(nqueens(t, mem))

Does(t, step, mem) ==
  LET counts == {Count(t, i) : i \in 0..N - 1}
  IN IF t.j = N THEN Access({}, t.ret :> 1)
     ELSE IF step = -1 THEN Access({}, [c \in counts |-> 0])
     ELSE IF step < N THEN Access({t.a}, Board(t, step) :> Tried(t, step, mem))
     ELSE Access(counts, t.ret :> Sum(counts, LAMBDA c : Value(mem, c)))

-----------------------------------------------------------------------------
Start == Nqueens(Len(Placed), <<"a">>, <<"res">>)
Memory == (<<"a">> :> Placed) @@ (<<"res">> :> 0)

Body(t, mem) ==
  CASE t.f = "spawn_helper" -> spawn_helper(t)
    [] t.f = "nqueens"      -> IF HAND THEN hand_nqueens(t, mem) ELSE nqueens(t, mem)

(* res is the number of boards with N queens none of which attacks another.   *)
Peaceful(b) == \A i, j \in 1..N : i < j => b[j] - b[i] \notin {0, j - i, i - j}
Right(mem) ==
  mem[<<"res">>] =
    Cardinality({b \in [1..N -> 0..N - 1] : Peaceful(b) /\ \A i \in DOMAIN Placed : b[i] = Placed[i]})
=============================================================================
