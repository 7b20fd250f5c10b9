------------------------------ MODULE Strassen -------------------------------
(***************************************************************************)
(* strassen: C = A * B by seven products of half the size.  Four of them   *)
(* are formed in the quarters of C, the others, and the sums and           *)
(* differences they need, in temporaries on the heap.                      *)
(***************************************************************************)
EXTENDS Strands

CONSTANTS
  N,
  SizeAtWhichDivideAndConquerIsMoreEfficient,
  SizeAtWhichNaiveAlgorithmIsMoreEfficient

OptimizedStrassenMultiply(C, A, B, n) ==
  Call("OptimizedStrassenMultiply", [C |-> C, A |-> A, B |-> B, n |-> n])

Temporaries == {"S1", "S2", "S3", "S4", "S5", "S6", "S7", "S8", "M2", "M5", "T1sMULT"}
Temp(t, name) == <<name, t.at, 0, 0>>
M2(t) == Temp(t, "M2")
M5(t) == Temp(t, "M5")
T1sMULT(t) == Temp(t, "T1sMULT")

QuadrantSize(t) == t.n \div 2
Quadrant(t, M, i, j) == Part(M, i * QuadrantSize(t), j * QuadrantSize(t))
IsSmall(t) == t.n <= SizeAtWhichDivideAndConquerIsMoreEfficient

Body(t, mem) ==
  IF IsSmall(t) THEN <<Strand("small")>>
  ELSE LET A(i, j) == Quadrant(t, t.A, i, j)
           B(i, j) == Quadrant(t, t.B, i, j)
           C(i, j) == Quadrant(t, t.C, i, j)
           S(name) == Temp(t, name)
           Multiply(P, Q, R) == OptimizedStrassenMultiply(P, Q, R, QuadrantSize(t))
       IN <<Strand("prepare")>>
          \o Fork(<<Multiply(M2(t), A(0, 0), B(0, 0)),
                    Multiply(M5(t), S("S1"), S("S5")),
                    Multiply(T1sMULT(t), S("S2"), S("S6")),
                    Multiply(C(1, 1), S("S3"), S("S7")),
                    Multiply(C(0, 0), A(0, 1), B(1, 0)),
                    Multiply(C(0, 1), S("S4"), B(1, 1)),
                    Multiply(C(1, 0), A(1, 1), S("S8"))>>)
          \o <<Strand("combine")>>

-----------------------------------------------------------------------------
(* Small products, one after the other, on C, which A and B lie apart from. *)
Dot(mem, A, B, i, j, n) == Sum(0..n - 1, LAMBDA k : Value(mem, Part(A, i, k)) * Value(mem, Part(B, k, j)))
Into(mem, d, C, A, B, n, value(_, _)) ==
  [c \in DOMAIN d |->
     LET i == c[Len(c) - 1] - C[Len(C) - 1]
         j == c[Len(c)] - C[Len(C)]
     IN IF i \in 0..n - 1 /\ j \in 0..n - 1 THEN Mod(value(d[c], Dot(mem, A, B, i, j, n))) ELSE d[c]]

FastNaiveMatrixMultiply(mem, d, C, A, B, n) == Into(mem, d, C, A, B, n, LAMBDA c, dot : dot)
FastAdditiveNaiveMatrixMultiply(mem, d, C, A, B, n) == Into(mem, d, C, A, B, n, LAMBDA c, dot : c + dot)

RECURSIVE MultiplyByDivideAndConquer(_, _, _, _, _, _, _)
MultiplyByDivideAndConquer(mem, d, C, A, B, n, additive) ==
  LET q == n \div 2
      Multiply(e, i, j, k) ==
        LET P == Part(C, i * q, j * q)
            Q == Part(A, i * q, k * q)
            R == Part(B, k * q, j * q)
            adds == additive \/ k = 1
        IN IF q > SizeAtWhichNaiveAlgorithmIsMoreEfficient
           THEN MultiplyByDivideAndConquer(mem, e, P, Q, R, q, adds)
           ELSE IF adds THEN FastAdditiveNaiveMatrixMultiply(mem, e, P, Q, R, q)
           ELSE FastNaiveMatrixMultiply(mem, e, P, Q, R, q)
  IN FoldLeft(LAMBDA e, s : Multiply(e, s[1], s[2], s[3]), d,
              <<<<0, 0, 0>>, <<0, 1, 0>>, <<1, 1, 0>>, <<1, 0, 0>>,
                <<0, 0, 1>>, <<0, 1, 1>>, <<1, 1, 1>>, <<1, 0, 1>>>>)

SmallProduct(t, mem) ==
  LET d == [c \in Cells(t.C, t.n) |-> Value(mem, c)]
  IN Access(Cells(t.A, t.n) \union Cells(t.B, t.n) \union Cells(t.C, t.n),
            MultiplyByDivideAndConquer(mem, d, t.C, t.A, t.B, t.n, FALSE))

(* malloc, and the sums and differences of quarters of A and B.               *)
Prepare(t, mem) ==
  LET Entry(name, p, q) ==
        LET A(i, j) == Value(mem, Part(Quadrant(t, t.A, i, j), p, q))
            B(i, j) == Value(mem, Part(Quadrant(t, t.B, i, j), p, q))
        IN CASE name = "S1" -> A(1, 0) + A(1, 1)
             [] name = "S2" -> A(1, 0) + A(1, 1) - A(0, 0)
             [] name = "S4" -> A(0, 1) - (A(1, 0) + A(1, 1) - A(0, 0))
             [] name = "S5" -> B(0, 1) - B(0, 0)
             [] name = "S6" -> B(1, 1) - (B(0, 1) - B(0, 0))
             [] name = "S8" -> B(1, 1) - (B(0, 1) - B(0, 0)) - B(1, 0)
             [] name = "S3" -> A(0, 0) - A(1, 0)
             [] name = "S7" -> B(1, 1) - B(0, 1)
             [] OTHER -> 0
      new == UNION {Cells(Temp(t, name), QuadrantSize(t)) : name \in Temporaries}
  IN Allocating(Access(Cells(t.A, t.n) \union Cells(t.B, t.n),
                       [c \in new |-> Mod(Entry(c[1], c[3], c[4]))]))

(* The quarters of C from the seven products, and free. *)
Combine(t, mem) ==
  LET C(i, j, p, q) == Value(mem, Part(Quadrant(t, t.C, i, j), p, q))
      Of(M, p, q) == Value(mem, Part(M, p, q))
      T1(p, q) == Of(T1sMULT(t), p, q) + Of(M2(t), p, q)
      T2(p, q) == C(1, 1, p, q) + T1(p, q)
      Entry(i, j, p, q) ==
        CASE <<i, j>> = <<0, 0>> -> C(0, 0, p, q) + Of(M2(t), p, q)
          [] <<i, j>> = <<0, 1>> -> C(0, 1, p, q) + Of(M5(t), p, q) + T1(p, q)
          [] <<i, j>> = <<1, 1>> -> Of(M5(t), p, q) + T2(p, q)
          [] <<i, j>> = <<1, 0>> -> -C(1, 0, p, q) + T2(p, q)
      row(c) == c[Len(c) - 1] - t.C[Len(t.C) - 1]
      column(c) == c[Len(c)] - t.C[Len(t.C)]
      size == QuadrantSize(t)
      heap == UNION {Cells(Temp(t, name), size) : name \in Temporaries}
      products == UNION {Cells(M, size) : M \in {M2(t), M5(t), T1sMULT(t)}}
  IN [Access(Cells(t.C, t.n) \union products,
             [c \in Cells(t.C, t.n) |->
                Mod(Entry(row(c) \div size, column(c) \div size, row(c) % size, column(c) % size))])
      EXCEPT !.frees = heap]

Does(t, step, mem) ==
  CASE step = "small"   -> SmallProduct(t, mem)
    [] step = "prepare" -> Prepare(t, mem)
    [] step = "combine" -> Combine(t, mem)

-----------------------------------------------------------------------------
Start == OptimizedStrassenMultiply(<<"C", 0, 0>>, <<"A", 0, 0>>, <<"B", 0, 0>>, N)
init_matrix(name, seed) == Square(name, N, LAMBDA i, j : Random(seed + i * N + j))
Memory == init_matrix("A", 0) @@ init_matrix("B", N * N) @@ Square("C", N, LAMBDA i, j : 9)

(* matrixmul. *)
matrixmul(mem, i, j) == Mod(Sum(0..N - 1, LAMBDA k : mem[<<"A", i, k>>] * mem[<<"B", k, j>>]))
Right(mem) == \A i, j \in 0..N - 1 : mem[<<"C", i, j>>] = matrixmul(mem, i, j)
=============================================================================
