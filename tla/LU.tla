--------------------------------- MODULE LU ----------------------------------
(***************************************************************************)
(* lu: M is decomposed in place, in blocks, by a divide and conquer whose  *)
(* parts are solved in parallel.                                           *)
(***************************************************************************)
EXTENDS Strands

CONSTANTS nBlocks, BLOCK_SIZE

N == nBlocks * BLOCK_SIZE

-----------------------------------------------------------------------------
(* MATRIX(M, I, J), in blocks. *)
MATRIX(M, I, J) == Part(M, I * BLOCK_SIZE, J * BLOCK_SIZE)
Quarter(M, nb, I, J) == MATRIX(M, I * (nb \div 2), J * (nb \div 2))

Lu(M, nb) == Call("lu", [M |-> M, nb |-> nb])
Schur(M, V, W, nb) == Call("schur", [M |-> M, V |-> V, W |-> W, nb |-> nb])
Lower(M, L, nb) == Call("lower_solve", [M |-> M, L |-> L, nb |-> nb])
AuxLower(Ma, Mb, L, nb) == Call("aux_lower_solve", [Ma |-> Ma, Mb |-> Mb, L |-> L, nb |-> nb])
Upper(M, U, nb) == Call("upper_solve", [M |-> M, U |-> U, nb |-> nb])
AuxUpper(Ma, Mb, U, nb) == Call("aux_upper_solve", [Ma |-> Ma, Mb |-> Mb, U |-> U, nb |-> nb])

schur(t) ==
  LET M(i, j) == Quarter(t.M, t.nb, i, j)
      V(i, j) == Quarter(t.V, t.nb, i, j)
      W(i, j) == Quarter(t.W, t.nb, i, j)
      Half(k) == Fork(<<Schur(M(0, 0), V(0, k), W(k, 0), t.nb \div 2),
                        Schur(M(0, 1), V(0, k), W(k, 1), t.nb \div 2),
                        Schur(M(1, 0), V(1, k), W(k, 0), t.nb \div 2),
                        Schur(M(1, 1), V(1, k), W(k, 1), t.nb \div 2)>>)
  IN IF t.nb = 1 THEN <<Strand("block")>> ELSE Half(0) \o Half(1)

(* L has twice nb blocks to a side, Ma and Mb have nb. *)
aux_lower_solve(t) ==
  LET L(i, j) == Quarter(t.L, 2 * t.nb, i, j)
  IN Fork(<<Lower(t.Ma, L(0, 0), t.nb)>>) \o Fork(<<Schur(t.Mb, L(1, 0), t.Ma, t.nb)>>)
       \o Fork(<<Lower(t.Mb, L(1, 1), t.nb)>>)

lower_solve(t) ==
  LET M(i, j) == Quarter(t.M, t.nb, i, j)
  IN IF t.nb = 1 THEN <<Strand("block")>>
     ELSE Fork(<<AuxLower(M(0, 0), M(1, 0), t.L, t.nb \div 2),
                 AuxLower(M(0, 1), M(1, 1), t.L, t.nb \div 2)>>)

aux_upper_solve(t) ==
  LET U(i, j) == Quarter(t.U, 2 * t.nb, i, j)
  IN Fork(<<Upper(t.Ma, U(0, 0), t.nb)>>) \o Fork(<<Schur(t.Mb, t.Ma, U(0, 1), t.nb)>>)
       \o Fork(<<Upper(t.Mb, U(1, 1), t.nb)>>)

upper_solve(t) ==
  LET M(i, j) == Quarter(t.M, t.nb, i, j)
  IN IF t.nb = 1 THEN <<Strand("block")>>
     ELSE Fork(<<AuxUpper(M(0, 0), M(0, 1), t.U, t.nb \div 2),
                 AuxUpper(M(1, 0), M(1, 1), t.U, t.nb \div 2)>>)

lu(t) ==
  LET M(i, j) == Quarter(t.M, t.nb, i, j)
      hnb == t.nb \div 2
  IN IF t.nb = 1 THEN <<Strand("block")>>
     ELSE Fork(<<Lu(M(0, 0), hnb)>>)
          \o Fork(<<Lower(M(0, 1), M(0, 0), hnb), Upper(M(1, 0), M(0, 0), hnb)>>)
          \o Fork(<<Schur(M(1, 1), M(1, 0), M(0, 1), hnb)>>)
          \o Fork(<<Lu(M(1, 1), hnb)>>)

-----------------------------------------------------------------------------
(* The operations on blocks.  One at B is a sequence of steps, each for a row *)
(* i and a column k: B[i][k] is divided by the pivot, if there is one, and a  *)
(* multiple of a row is subtracted from row i, from a column on.  The columns *)
(* k come one after the other, as each uses what the one before it left in    *)
(* its pivot's row; the rows i of one k do not depend on each other.          *)
Pairs(i0) ==        \* i from i0(k) on, for each k
  FlattenSeq([k \in 1..BLOCK_SIZE |->
    [i \in 1..BLOCK_SIZE - i0[k] |-> <<i0[k] + i - 1, k - 1>>]])

elem_daxmy(d, a, B, i, row, from) ==
  [c \in DOMAIN d |-> IF c[2] = B[2] + i /\ c[3] >= B[3] + from
                      THEN Mod(d[c] - a * row[c[3] - B[3]]) ELSE d[c]]

Block(mem, B) == [c \in Cells(B, BLOCK_SIZE) |-> Value(mem, c)]
RowOf(d, B, i) == [j \in 0..BLOCK_SIZE - 1 |-> d[Part(B, i, j)]]

block_lu(d, B) ==
  FoldLeft(LAMBDA e, s :
             LET factor == Quotient(e[Part(B, s[1], s[2])], e[Part(B, s[2], s[2])])
             IN elem_daxmy([e EXCEPT ![Part(B, s[1], s[2])] = factor], factor, B, s[1],
                           RowOf(e, B, s[2]), s[2] + 1),
           d, Pairs([k \in 1..BLOCK_SIZE |-> k]))

block_lower_solve(d, B, L) ==
  FoldLeft(LAMBDA e, s : elem_daxmy(e, L[s[1], s[2]], B, s[1], RowOf(e, B, s[2]), 0),
           d, Pairs([k \in 1..BLOCK_SIZE |-> k]))

block_upper_solve(d, B, U) ==
  FoldLeft(LAMBDA e, s :
             LET factor == Quotient(e[Part(B, s[1], s[2])], U[s[2], s[2]])
             IN elem_daxmy([e EXCEPT ![Part(B, s[1], s[2])] = factor], factor, B, s[1],
                           [j \in 0..BLOCK_SIZE - 1 |-> U[s[2], j]], s[2] + 1),
           d, Pairs([k \in 1..BLOCK_SIZE |-> 0]))

block_schur(d, B, A, C) ==
  FoldLeft(LAMBDA e, s : elem_daxmy(e, A[s[1], s[2]], B, s[1],
                                    [j \in 0..BLOCK_SIZE - 1 |-> C[s[2], j]], 0),
           d, Pairs([k \in 1..BLOCK_SIZE |-> 0]))

Operand(mem, B) == [i, j \in 0..BLOCK_SIZE - 1 |-> Value(mem, Part(B, i, j))]

Does(t, step, mem) ==
  LET d == Block(mem, t.M)
      Area(S) == UNION {Cells(B, BLOCK_SIZE) : B \in S}
  IN CASE t.f = "lu" -> Access(Area({t.M}), block_lu(d, t.M))
       [] t.f = "lower_solve" ->
            Access(Area({t.M, t.L}), block_lower_solve(d, t.M, Operand(mem, t.L)))
       [] t.f = "upper_solve" ->
            Access(Area({t.M, t.U}), block_upper_solve(d, t.M, Operand(mem, t.U)))
       [] t.f = "schur" ->
            Access(Area({t.M, t.V, t.W}), block_schur(d, t.M, Operand(mem, t.V), Operand(mem, t.W)))

-----------------------------------------------------------------------------
Start == Lu(<<"M", 0, 0>>, nBlocks)
Entry(i, j) == Random(i * N + j) * (IF i = j THEN 10 ELSE 1)
Memory == Square("M", N, Entry)

Body(t, mem) ==
  CASE t.f = "lu"              -> lu(t)
    [] t.f = "schur"           -> schur(t)
    [] t.f = "lower_solve"     -> lower_solve(t)
    [] t.f = "aux_lower_solve" -> aux_lower_solve(t)
    [] t.f = "upper_solve"     -> upper_solve(t)
    [] t.f = "aux_upper_solve" -> aux_upper_solve(t)

(* test_result: L times U is what M was. *)
Right(mem) ==
  \A i, j \in 0..N - 1 :
    LET product == Sum({k \in 0..N - 1 : k < i /\ k <= j},
                       LAMBDA k : mem[<<"M", i, k>>] * mem[<<"M", k, j>>])
    IN Mod(product + IF i <= j THEN mem[<<"M", i, j>>] ELSE 0) = Mod(Entry(i, j))
=============================================================================
