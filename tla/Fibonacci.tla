------------------------------ MODULE Fibonacci ------------------------------
(* fib, which the compiler translates, and the same translated by hand.       *)
EXTENDS Strands

CONSTANTS N, HAND

Fib(n, ret) == Call("fib", [n |-> n, ret |-> ret])
x(t) == Local(t, "x")
y(t) == Local(t, "y")

fib(t) ==
  IF t.n < 2 THEN <<Strand("return")>>
  ELSE Fork(<<Fib(t.n - 1, x(t)), Fib(t.n - 2, y(t))>>) \o <<Strand("return")>>
hand_fib(t) == Compiled(fib(t))

Does(t, step, mem) ==
  IF t.n < 2 THEN Access({}, t.ret :> t.n)
  ELSE Access({x(t), y(t)}, t.ret :> Value(mem, x(t)) + Value(mem, y(t)))

-----------------------------------------------------------------------------
Start == Fib(N, <<"res">>)
Memory == <<"res">> :> 0

Body(t, mem) ==
  CASE t.f = "spawn_helper" -> spawn_helper(t)
    [] t.f = "fib"          -> IF HAND THEN hand_fib(t) ELSE fib(t)

Right(mem) ==
  LET number[n \in 0..N] == IF n < 2 THEN n ELSE number[n - 1] + number[n - 2]
  IN mem[<<"res">>] = number[N]
=============================================================================
