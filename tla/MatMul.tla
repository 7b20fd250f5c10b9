------------------------------- MODULE MatMul --------------------------------
(***************************************************************************)
(* mm_dac: C += A * B by quarters, four products at a time; compiled, and  *)
(* translated by hand.                                                     *)
(***************************************************************************)
EXTENDS Strands

CONSTANTS N, THRESHOLD, TIMING_COUNT, HAND

Product(C, A, B, length) == Call("mm_dac", [C |-> C, A |-> A, B |-> B, length |-> length])

(* The four products of one round, one for each quarter of C. *)
Quarters(t, k) ==
  LET mid == t.length \div 2
      C(i, j) == Part(t.C, i * mid, j * mid)
      A(i, j) == Part(t.A, i * mid, j * mid)
      B(i, j) == Part(t.B, i * mid, j * mid)
  IN <<Product(C(0, 0), A(0, k), B(k, 0), mid), Product(C(0, 1), A(0, k), B(k, 1), mid),
       Product(C(1, 0), A(1, k), B(k, 0), mid), Product(C(1, 1), A(1, k), B(k, 1), mid)>>

mm_dac(t) ==
  IF t.length < THRESHOLD THEN <<Strand("loop")>> ELSE Fork(Quarters(t, 0)) \o Fork(Quarters(t, 1))
hand_mm_dac(t) == Compiled(mm_dac(t))

Loop(t, mem) ==
  LET row(c) == c[2] - t.C[2]
      column(c) == c[3] - t.C[3]
      Dot(c) == Sum(0..t.length - 1,
                    LAMBDA k : Value(mem, Part(t.A, row(c), k)) * Value(mem, Part(t.B, k, column(c))))
  IN Access(UNION {Cells(M, t.length) : M \in {t.A, t.B, t.C}},
            [c \in Cells(t.C, t.length) |-> Mod(Value(mem, c) + Dot(c))])

-----------------------------------------------------------------------------
(* test_mm: C is set to zero before every round. *)
Start == Call("test_mm", <<>>)
test_mm(t) ==
  FlattenSeq([i \in 1..TIMING_COUNT |->
    <<Strand("zero"), Spawn(<<Product(<<"C", 0, 0>>, <<"A", 0, 0>>, <<"B", 0, 0>>, N)>>), Sync>>])
rand_matrix(name, seed) == Square(name, N, LAMBDA i, j : Random(seed + i * N + j))
zero_matrix == Square("C", N, LAMBDA i, j : 0)
Memory == rand_matrix("A", 0) @@ rand_matrix("B", N * N) @@ Square("C", N, LAMBDA i, j : 9)

Body(t, mem) ==
  CASE t.f = "spawn_helper" -> spawn_helper(t)
    [] t.f = "mm_dac"       -> IF HAND THEN hand_mm_dac(t) ELSE mm_dac(t)
    [] t.f = "test_mm"      -> test_mm(t)

Does(t, step, mem) == IF step = "zero" THEN Access({}, zero_matrix) ELSE Loop(t, mem)

(* What mm_dac_serial computes. *)
Right(mem) ==
  \A i, j \in 0..N - 1 :
    mem[<<"C", i, j>>] = Mod(Sum(0..N - 1, LAMBDA k : mem[<<"A", i, k>>] * mem[<<"B", k, j>>]))
=============================================================================
