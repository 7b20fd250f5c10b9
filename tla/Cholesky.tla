------------------------------ MODULE Cholesky -------------------------------
(***************************************************************************)
(* cholesky: a sparse matrix is a tree of quadrants in which whatever is   *)
(* zero is NULL; nodes are added where the factor has entries that the     *)
(* matrix has not.                                                         *)
(*                                                                         *)
(* A node stays where it is in its matrix, so it is known by the matrix    *)
(* and the path to it from the root.  A leaf holds a block, an internal    *)
(* node the set of its children that are not NULL.  A pointer is a pair    *)
(* of the node it may point to and whether it does.                        *)
(***************************************************************************)
EXTENDS Strands

CONSTANTS
  Depth, BLOCK_DEPTH,
  Entries,          \* where the matrix has entries below the diagonal
  OffDiagonal,      \* their value
  WHOLE             \* all of main, or the call of cholesky alone

BLOCK_SIZE == 2^BLOCK_DEPTH
Line == 0..BLOCK_SIZE - 1

(* The children of a node, and those of its transpose. *)
c00 == 0
c01 == 1
c10 == 2
c11 == 3
Child(node, k) == <<node[1], Append(node[2], k)>>
IsLeaf(node) == Len(node[2]) = Depth - BLOCK_DEPTH
Has(mem, node, k) == node \in DOMAIN mem /\ k \in mem[node]

-----------------------------------------------------------------------------
(* Linear algebra on blocks. *)
block_zero == [i, j \in Line |-> 0]
Inner(A, C, i, j) == Sum(Line, LAMBDA k : A[i, k] * C[j, k])
block_schur_full(B, A, C) == [i, j \in Line |-> Mod(B[i, j] - Inner(A, C, i, j))]
block_schur_half(B, A, C) ==
  [i, j \in Line |-> IF j <= i THEN Mod(B[i, j] - Inner(A, C, i, j)) ELSE B[i, j]]

block_backsub(B, U) ==       \* column by column
  FoldLeft(LAMBDA b, i :
             [j, k \in Line |->
                IF k # i THEN b[j, k]
                ELSE Quotient(b[j, i] - Sum(0..i - 1, LAMBDA m : U[i, m] * b[j, m]), U[i, i])],
           B, [i \in 1..BLOCK_SIZE |-> i - 1])

sqrt(v) == CHOOSE r \in 1..PRIME - 1 : Mod(r * r) = v
block_cholesky(B) ==
  FoldLeft(LAMBDA b, k :
             LET column(i) == Quotient(b[i, k], sqrt(b[k, k]))
             IN [i, j \in Line |->
                   IF j = k /\ i >= k THEN column(i)
                   ELSE IF j > k /\ i >= j THEN Mod(b[i, j] - column(i) * column(j))
                   ELSE b[i, j]],
           B, [k \in 1..BLOCK_SIZE |-> k - 1])

-----------------------------------------------------------------------------
(* The calls.  A pointer that is returned goes to a variable of the caller.   *)
Copy(a, to, ret) == Call("copy_matrix", [a |-> a, r |-> to, ret |-> ret])
Mul(lower, a, b, r, given, ret) ==
  Call("mul_and_subT", [lower |-> lower, a |-> a, b |-> b, r |-> r, given |-> given, ret |-> ret])
Back(a, l, ret) == Call("backsub", [a |-> a, l |-> l, ret |-> ret])
Factor(a, ret) == Call("cholesky", [a |-> a, ret |-> ret])

Pointer(t, k) == Local(t, <<"child", k>>)
Pointers(t) == {Pointer(t, k) : k \in 0..3}
Set(t, mem, k) == Pointer(t, k) \in DOMAIN mem /\ mem[Pointer(t, k)]
If(condition, call) == IF condition THEN <<call>> ELSE <<>>

(* A call for a NULL returns NULL, and is left out. *)
copy_matrix(t, mem) ==
  LET Quadrant(k) == If(Has(mem, t.a, k), Copy(Child(t.a, k), Child(t.r, k), Pointer(t, k)))
  IN IF IsLeaf(t.a) THEN <<Strand("copy")>>
     ELSE <<Strand("children")>>
          \o Fork(Quadrant(c00) \o Quadrant(c01) \o Quadrant(c10) \o Quadrant(c11)) \o <<Strand("link")>>

(* One product for each child of r that is needed, by the k-th columns. *)
Products(t, mem, k) ==
  LET Term(row, column) ==
        LET i == 2 * row + column
            p == 2 * row + k
            q == 2 * column + k            \* b is transposed
        IN If(Has(mem, t.a, p) /\ Has(mem, t.b, q) /\ ~(t.lower /\ i = c01),
              Mul(t.lower /\ row = column, Child(t.a, p), Child(t.b, q), Child(t.r, i), Set(t, mem, i),
                  Pointer(t, i)))
  IN Term(0, 0) \o Term(0, 1) \o Term(1, 0) \o Term(1, 1)

mul_and_subT(t, mem) ==
  IF IsLeaf(t.r) THEN <<Strand("schur")>>
  ELSE <<Strand("children")>> \o SpawnAll(Products(t, mem, 0)) \o SpawnAll(Products(t, mem, 1))
       \o <<Strand("link")>>

backsub(t, mem) ==
  LET a(k) == Child(t.a, k)
      l(k) == Child(t.l, k)
      Fill(i, k) == If(Set(t, mem, k) /\ Has(mem, t.l, c10),
                       Mul(FALSE, a(k), l(c10), a(i), Set(t, mem, i), Pointer(t, i)))
      Solve(k, d) == If(Set(t, mem, k), Back(a(k), l(d), Pointer(t, k)))
  IN IF IsLeaf(t.a) THEN <<Strand("backsub")>>
     ELSE <<Strand("children")>> \o SpawnAll(Solve(c00, c00) \o Solve(c10, c00))
          \o SpawnAll(Fill(c01, c00) \o Fill(c11, c10))
          \o SpawnAll(Solve(c01, c11) \o Solve(c11, c11)) \o <<Strand("link")>>

cholesky(t, mem) ==
  LET a(k) == Child(t.a, k)
      Half(k) == Factor(a(k), Pointer(t, k))
  IN IF IsLeaf(t.a) THEN <<Strand("cholesky")>>
     ELSE <<Strand("children")>>
          \o (IF ~Has(mem, t.a, c10) THEN Fork(<<Half(c00), Half(c11)>>)
              ELSE Fork(<<Half(c00)>>) \o Fork(<<Back(a(c10), a(c00), Pointer(t, c10))>>)
                   \o Fork(<<Mul(TRUE, a(c10), a(c10), a(c11), Set(t, mem, c11), Pointer(t, c11))>>)
                   \o Fork(<<Half(c11)>>))
          \o <<Strand("link")>>

-----------------------------------------------------------------------------
(* What the strands do.  The parent of a leaf's block has been read by then.  *)
Block(mem, node) == IF node \in DOMAIN mem THEN mem[node] ELSE block_zero

copy_leaf(t, mem) == Allocating(Access({t.a}, (t.r :> Block(mem, t.a)) @@ (t.ret :> TRUE)))

Schur(t, mem) ==
  LET B == IF t.given THEN Block(mem, t.r) ELSE block_zero
      schur == IF t.lower THEN block_schur_half(B, Block(mem, t.a), Block(mem, t.b))
               ELSE block_schur_full(B, Block(mem, t.a), Block(mem, t.b))
      access == Access({t.a, t.b} \union IF t.given THEN {t.r} ELSE {}, (t.r :> schur) @@ (t.ret :> TRUE))
  IN IF t.given THEN access ELSE Allocating(access)

(* The node whose children a call works on, and whether there is one. *)
Result(t) == IF t.f \in {"copy_matrix", "mul_and_subT"} THEN t.r ELSE t.a
Given(t) == t.f \in {"backsub", "cholesky"} \/ (t.f = "mul_and_subT" /\ t.given)

Children(t, mem) ==
  LET operands == CASE t.f = "copy_matrix"  -> {t.a}
                    [] t.f = "mul_and_subT" -> {t.a, t.b}
                    [] t.f = "backsub"      -> {t.l}
                    [] t.f = "cholesky"     -> {}
  IN Access(operands \union IF Given(t) THEN {Result(t)} ELSE {},
            [c \in Pointers(t) |-> Given(t) /\ Has(mem, Result(t), c[3][2])])

(* A new node only if it has a child. *)
Link(t, mem) ==
  LET children == {k \in 0..3 : Set(t, mem, k)}
      node == IF Given(t) \/ children # {} \/ t.f = "copy_matrix" THEN Result(t) :> children ELSE <<>>
      access == Access(Pointers(t), (t.ret :> (DOMAIN node # {})) @@ node)
  IN IF Given(t) THEN access ELSE Allocating(access)

Does(t, step, mem) ==
  CASE step = "copy"         -> copy_leaf(t, mem)
    [] step = "schur"        -> Schur(t, mem)
    [] step = "backsub"      -> Access({t.a, t.l}, (t.a :> block_backsub(Block(mem, t.a), Block(mem, t.l)))
                                                   @@ (t.ret :> TRUE))
    [] step = "cholesky"     -> Access({t.a}, (t.a :> block_cholesky(Block(mem, t.a))) @@ (t.ret :> TRUE))
    [] step = "children"     -> Children(t, mem)
    [] step = "link"         -> Link(t, mem)

-----------------------------------------------------------------------------
(* main: a matrix with ones on the diagonal, made entry by entry; its copy is *)
(* factored, and the product of the factor with its transpose subtracted.     *)
Root(name) == <<name, <<>>>>
entry(r, c) == IF r = c THEN 1 ELSE IF <<r, c>> \in Entries THEN OffDiagonal ELSE 0

(* The rows and columns of a node, from the first on. *)
Corner(path) ==
  FoldLeft(LAMBDA at, i : LET half == 2^(Depth - i)
                          IN <<at[1] + half * (path[i] \div 2), at[2] + half * (path[i] % 2)>>,
           <<0, 0>>, [i \in DOMAIN path |-> i])
Covered(path) ==
  LET at == Corner(path)
      side == 2^(Depth - Len(path))
  IN (at[1]..at[1] + side - 1) \X (at[2]..at[2] + side - 1)
Nonzero(path) == \E rc \in Covered(path) : entry(rc[1], rc[2]) # 0

Paths(n) == {p \in [1..n -> 0..3] : Nonzero(p)}
set_matrix ==
  [node \in {<<"A", p>> : p \in UNION {Paths(n) : n \in 0..Depth - BLOCK_DEPTH}} |->
     IF IsLeaf(node)
     THEN [i, j \in Line |-> entry(Corner(node[2])[1] + i, Corner(node[2])[2] + j)]
     ELSE {k \in 0..3 : Nonzero(Append(node[2], k))}]

main ==
  Fork(<<Copy(Root("A"), Root("R"), <<"pointer", "R">>)>>)
  \o Fork(<<Factor(Root("R"), <<"pointer", "R">>)>>)
  \o Fork(<<Mul(TRUE, Root("R"), Root("R"), Root("A"), TRUE, <<"pointer", "A">>)>>)

Start == IF WHOLE THEN Call("main", <<>>) ELSE Factor(Root("R"), <<"pointer", "R">>)
Memory ==
  (<<"pointer", "R">> :> ~WHOLE) @@ (<<"pointer", "A">> :> TRUE) @@ set_matrix
  @@ IF WHOLE THEN <<>>
     ELSE [node \in {[n EXCEPT ![1] = "R"] : n \in DOMAIN set_matrix} |-> set_matrix[[node EXCEPT ![1] = "A"]]]

Body(t, mem) ==
  CASE t.f = "main"         -> main
    [] t.f = "copy_matrix"  -> copy_matrix(t, mem)
    [] t.f = "mul_and_subT" -> mul_and_subT(t, mem)
    [] t.f = "backsub"      -> backsub(t, mem)
    [] t.f = "cholesky"     -> cholesky(t, mem)

(* The factor times its transpose is the matrix, and mag, the sum of the      *)
(* squares of what main leaves of it, is zero.                                *)
Number(mem, name, r, c) ==
  LET leaf == <<name, CHOOSE p \in [1..Depth - BLOCK_DEPTH -> 0..3] : <<r, c>> \in Covered(p)>>
  IN IF leaf \in DOMAIN mem THEN mem[leaf][r % BLOCK_SIZE, c % BLOCK_SIZE] ELSE 0
mag(mem) == Sum({node \in DOMAIN mem : node[1] = "A" /\ IsLeaf(node)},
                LAMBDA node : Sum(Line \X Line, LAMBDA ij : mem[node][ij[1], ij[2]] * mem[node][ij[1], ij[2]]))
Right(mem) ==
  /\ WHOLE => mag(mem) = 0
  /\ \A r \in 0..2^Depth - 1 : \A c \in 0..r :
       Mod(Sum(0..c, LAMBDA k : Number(mem, "R", r, k) * Number(mem, "R", c, k))) = entry(r, c)
=============================================================================
