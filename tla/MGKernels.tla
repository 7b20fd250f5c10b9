------------------------------ MODULE MGKernels ------------------------------
(***************************************************************************)
(* The grids of the multigrid benchmark and its loops.  The four versions  *)
(* of the program (modules MGSerial, MGCilk, MGOpenMP, MGFastFlow) have    *)
(* the same loops over the planes of a grid, with the same bodies, and run *)
(* them differently; here is what one turn of each loop reads and writes.  *)
(*                                                                         *)
(* A grid is cubic.  Planes (i3) and rows (i2) are kept; of a row, the     *)
(* inner cells are one number, "in", and its two ghost cells another,      *)
(* "gh".  Numbers are integers modulo a prime, the coefficients of a       *)
(* stencil different numbers, so that a stale, missing or doubled          *)
(* neighbour changes the result.                                           *)
(***************************************************************************)
EXTENDS Integers, SequencesExt, FiniteSetsExt

CONSTANTS
  NX,          \* nx[lt] = ny[lt] = nz[lt]
  LT,          \* lt, the finest level; lb is 1
  MODULUS,     \* numbers are taken modulo this
  HALF,        \* a random number has two halves of so many bits, 23
  A, X,        \* multiplier and seed of the random numbers
  MM,          \* charges of either sign
  W            \* number of workers or threads

ASSUME GridAssumption ==
  /\ NX \in Nat /\ LT \in Nat /\ LT > 1 /\ W \in Nat /\ W > 0
  /\ HALF \in Nat /\ MODULUS \in Nat /\ MODULUS > 2^(2 * HALF)
  /\ A \in 1..2^(2 * HALF) - 1 /\ X \in 1..2^(2 * HALF) - 1 /\ MM \in Nat

Level == 1..LT
Worker == 0..W-1
Number == 0..MODULUS-1
Mod(x) == x % MODULUS

(* ind: 1 for the largest numbers, 0 for the smallest. *)
Worse(ind, x, y) == IF ind = 1 THEN x < y ELSE x > y

-----------------------------------------------------------------------------
(* Slips: plausible mistakes in the definitions below.                        *)

(* The last of the candidates is never looked at. *)
Bubble_Short(s, ind) ==
  LET passed == {k \in 2..MM - 1 : \A i \in 2..k : Worse(ind, s[i].value, s[1].value)} \union {1}
      last == Max(passed)
  IN SubSeq(s, 2, last) \o <<s[1]>> \o SubSeq(s, last + 1, MM)

-----------------------------------------------------------------------------
(* setup: every level has half the cells of the next, and ghosts around them. *)
nx[k \in Level] == IF k = LT THEN NX ELSE nx[k + 1] \div 2
m == [k \in Level |-> nx[k] + 2]

(* The grids: u and r of every level, v of the finest.                        *)
U(k) == <<"u", k>>
R(k) == <<"r", k>>
V == <<"v", LT>>
Grid == ({"u", "r"} \X Level) \union {V}

Row == [gh : Number, in : Number]
Rows(k) == (0..m[k] - 1) \X (0..m[k] - 1)

-----------------------------------------------------------------------------
(* A loop: its body, who may run its turns, the level that its bounds come    *)
(* from, the grids that it reads and writes, and its first and last turn.     *)
Planewise == {"zero3", "psinv", "resid", "rprj3", "interp", "interp_d", "interp_t", "axis1", "axis2"}
Kernel == Planewise \union {"axis3", "norm", "clear", "add", "finish", "fill", "select", "charge"}
Share == {"any", "static", "own", "critical", "single", "serial"}
Loops == [kernel : Kernel, share : Share, k : Level, from : Grid, arg : Grid, to : Grid,
          first : Nat, last : Int]

Loop(kernel, share, k, from, to, first, last) ==
  [kernel |-> kernel, share |-> share, k |-> k, from |-> from, arg |-> to, to |-> to,
   first |-> first, last |-> last]

-----------------------------------------------------------------------------
(* The four neighbours of row p across a face, and across an edge.            *)
Faces(g, p, c) ==
  g[<<p[1], p[2] - 1>>][c] + g[<<p[1], p[2] + 1>>][c]
    + g[<<p[1] - 1, p[2]>>][c] + g[<<p[1] + 1, p[2]>>][c]
Edges(g, p, c) ==
  g[<<p[1] - 1, p[2] - 1>>][c] + g[<<p[1] - 1, p[2] + 1>>][c]
    + g[<<p[1] + 1, p[2] - 1>>][c] + g[<<p[1] + 1, p[2] + 1>>][c]

Interior(n, i3) == {i3} \X (1..n - 2)

(* u = u + Cr, with different numbers for c[0], c[1], c[2]. *)
Psinv(r, u, n, i3) ==
  [p \in Interior(n, i3) |->
     [u[p] EXCEPT !.in = Mod(@ + 5 * r[p].in + 3 * (r[p].gh + r[p].in + Faces(r, p, "in"))
                              + 2 * (Edges(r, p, "in") + Faces(r, p, "gh") + Faces(r, p, "in")))]]

(* r = v - Au, with different numbers for a[0], a[2], a[3]. *)
Resid(u, v, r, n, i3) ==
  [p \in Interior(n, i3) |->
     [r[p] EXCEPT !.in = Mod(v[p].in - 7 * u[p].in
                              - 2 * (Edges(u, p, "in") + Faces(u, p, "gh") + Faces(u, p, "in"))
                              - (Edges(u, p, "gh") + Edges(u, p, "in")))]]

(* s = Pr, sixteen-fold.  Row (j3, j2) of s lies under row (i3+1, i2+1) of r. *)
Rprj3(r, s, mk, n, j3) ==
  LET d == IF mk = 3 THEN 2 ELSE 1
  IN [p \in Interior(n, j3) |->
        LET q == <<2 * p[1] - d + 1, 2 * p[2] - d + 1>>
        IN [s[p] EXCEPT !.in = Mod(8 * r[q].in + 4 * (r[q].gh + r[q].in + Faces(r, q, "in"))
                                    + 2 * (Faces(r, q, "gh") + Faces(r, q, "in") + Edges(r, q, "in"))
                                    + Edges(r, q, "gh") + Edges(r, q, "in"))]]

(* interp: the planes of the fine grid that turn i adds to, each with the     *)
(* planes of the coarse grid whose average it adds.  The two loops for a fine *)
(* grid of one cell per side have d3 = 2 and t3 = 1.                          *)
InterpPlanes(kernel, i) ==
  CASE kernel = "interp"   -> {<<2 * i, {i}>>, <<2 * i + 1, {i, i + 1}>>}
    [] kernel = "interp_d" -> {<<2 * i - 3, {i - 1}>>}
    [] kernel = "interp_t" -> {<<2 * i - 2, {i - 1, i}>>}

(* And the rows, of all turns of the loops over i2. *)
InterpRows(n, mm) ==
  IF n # 3
  THEN UNION {{<<2 * i, {i}>>, <<2 * i + 1, {i, i + 1}>>} : i \in 0..mm - 2}
  ELSE {<<2 * i - 3, {i - 1}>> : i \in 2..mm - 1} \union {<<2 * i - 2, {i - 1, i}>> : i \in 1..mm - 1}

(* u = u + Qz, four-fold. *)
Interp(kernel, z, u, n, mm, i) ==
  LET into == InterpPlanes(kernel, i) \X InterpRows(n, mm)
      Mean(t, c) == (4 \div (Cardinality(t[1][2]) * Cardinality(t[2][2])))
                      * MapThenSumSet(LAMBDA q : z[q][c], t[1][2] \X t[2][2])
  IN [p \in {<<t[1][1], t[2][1]>> : t \in into} |->
        LET t == CHOOSE s \in into : p = <<s[1][1], s[2][1]>>
        IN [gh |-> Mod(u[p].gh + Mean(t, "gh")),
            in |-> IF n = 3 THEN u[p].in ELSE Mod(u[p].in + Mean(t, "in"))]]

(* comm3, one axis after the other: the ghosts get what lies opposite.        *)
Axis1(u, n, i3) == [p \in Interior(n, i3) |-> [gh |-> u[p].in, in |-> u[p].in]]
Axis2(u, n, i3) ==
  [p \in {<<i3, 0>>, <<i3, n - 1>>} |-> u[<<i3, IF p[2] = 0 THEN n - 2 ELSE 1>>]]
Axis3(u, n, i2) ==
  LET last == [p \in {<<n - 1, i2>>} |-> u[<<1, i2>>]]
  IN [p \in {<<0, i2>>} |-> (last @@ u)[<<n - 2, i2>>]] @@ last

Zero3(n, i3) == [p \in {i3} \X (0..n - 1) |-> [gh |-> 0, in |-> 0]]

-----------------------------------------------------------------------------
(* randlc: a * x modulo 2^46, from products of halves, none of which exceeds  *)
(* what a double holds exactly.                                               *)
t23 == 2^HALF
t46 == t23 * t23
randlc(x, a) ==
  LET a1 == a \div t23
      a2 == a - t23 * a1
      x1 == x \div t23
      x2 == x - t23 * x1
      t1 == a1 * x2 + a2 * x1
      z == t1 - t23 * (t1 \div t23)
      t3 == t23 * z + a2 * x2
  IN t3 - t46 * (t3 \div t46)

(* The first number that vranlc puts into a row. *)
vranlc(seed) == randlc(seed, A)

(* zran3.  power: square and multiply.                                        *)
power[a \in 0..t46 - 1, n \in 0..NX * NX] ==
  IF n = 0 THEN 1
  ELSE LET rest == power[randlc(a, a), n \div 2] IN IF n % 2 = 1 THEN randlc(rest, a) ELSE rest

(* The seed is multiplied once per plane and once per row before.             *)
Fill(n) ==
  LET a1 == power[A, NX]
      a2 == power[A, NX * NX]
      x0[i3 \in 1..n - 2] == IF i3 = 1 THEN X ELSE randlc(x0[i3 - 1], a2)
      x1[i3 \in 1..n - 2, i2 \in 1..n - 2] == IF i2 = 1 THEN x0[i3] ELSE randlc(x1[i3, i2 - 1], a1)
  IN [p \in (1..n - 2) \X (1..n - 2) |-> [gh |-> 0, in |-> vranlc(x1[p[1], p[2]])]]

(* bubble: the first moves up, behind the run of those worse than it. *)
Bubble(s, ind) ==
  LET passed == {k \in 2..MM : \A i \in 2..k : Worse(ind, s[i].value, s[1].value)} \union {1}
      last == Max(passed)
  IN SubSeq(s, 2, last) \o <<s[1]>> \o SubSeq(s, last + 1, MM)

(* The candidates, in the order of the loops.  1.0 is above all numbers. *)
Select(z, n) ==
  LET rows == [i \in 1..(n - 2) * (n - 2) |-> <<1 + (i - 1) \div (n - 2), 1 + ((i - 1) % (n - 2))>>]
      none == [i \in 1..MM |-> [value |-> 0, at |-> <<0, 0>>]]
      Better(s, p, ind) ==
        IF MM > 0 /\ Worse(ind, s[1].value, z[p].in)
        THEN Bubble([s EXCEPT ![1] = [value |-> z[p].in, at |-> p]], ind) ELSE s
      Try(ten, p) == [pos |-> Better(ten.pos, p, 1), neg |-> Better(ten.neg, p, 0)]
  IN FoldLeft(Try, [pos |-> none, neg |-> [i \in 1..MM |-> [value |-> MODULUS, at |-> <<0, 0>>]]], rows)

Charges(z, ten) ==
  LET At(s) == {s[i].at : i \in 1..MM}
  IN [p \in At(ten.pos) \union At(ten.neg) |->
        [z[p] EXCEPT !.in = IF p \in At(ten.pos) THEN 1 ELSE MODULUS - 1]]

-----------------------------------------------------------------------------
(* The data of the program: its grids, the partial norms of the workers, what *)
(* the norms share, and the ten candidates of either sign.                    *)
Unset == [value |-> 0, at |-> <<0, 0>>]
Loaded(junk) ==
  [grid |-> [g \in Grid |-> [p \in Rows(g[2]) |-> [gh |-> junk, in |-> junk]]],
   acc  |-> [w \in Worker |-> [s |-> junk, a |-> junk]],
   norm |-> [s |-> 0, rnm2 |-> junk, rnmu |-> junk],
   ten  |-> [pos |-> [i \in 1..MM |-> Unset], neg |-> [i \in 1..MM |-> Unset]]]

(* norm2u3, one plane: sum of squares and maximum. *)
Partial(acc, g, n, i3) ==
  [s |-> Mod(acc.s + MapThenSumSet(LAMBDA p : g[p].in * g[p].in, Interior(n, i3))),
   a |-> Max({acc.a} \union {g[p].in : p \in Interior(n, i3)})]

Added(norm, acc) ==
  [norm EXCEPT !.s = Mod(@ + acc.s), !.rnmu = IF acc.a > @ THEN acc.a ELSE @]
Finished(norm) == [norm EXCEPT !.rnm2 = norm.s, !.s = 0]

(* What turn i of loop l computes, with the accumulator of worker w. *)
Value(d, l, i, w) ==
  LET from == d.grid[l.from]
      arg == d.grid[l.arg]
      to == d.grid[l.to]
      n == m[l.k]
  IN CASE l.kernel = "psinv"  -> Psinv(from, to, n, i)
       [] l.kernel = "resid"  -> Resid(from, arg, to, n, i)
       [] l.kernel = "rprj3"  -> Rprj3(from, to, m[l.k + 1], n, i)
       [] l.kernel \in {"interp", "interp_d", "interp_t"} ->
            Interp(l.kernel, from, to, n, m[l.k - 1], i)
       [] l.kernel = "axis1"  -> Axis1(to, n, i)
       [] l.kernel = "axis2"  -> Axis2(to, n, i)
       [] l.kernel = "axis3"  -> Axis3(to, n, i)
       [] l.kernel = "zero3"  -> Zero3(n, i)
       [] l.kernel = "fill"   -> Fill(n)
       [] l.kernel = "select" -> Select(to, n)
       [] l.kernel = "charge" -> Charges(to, d.ten)
       [] l.kernel = "clear"  -> [s |-> 0, a |-> 0]
       [] l.kernel = "norm"   -> Partial(d.acc[w], from, n, i)
       [] l.kernel = "add"    -> Added(d.norm, d.acc[i])
       [] l.kernel = "finish" -> Finished(d.norm)

(* Where it goes. *)
Store(d, l, i, w, value) ==
  CASE l.kernel = "select" -> [d EXCEPT !.ten = value]
    [] l.kernel = "clear"  -> [d EXCEPT !.acc[i] = value]
    [] l.kernel = "norm"   -> [d EXCEPT !.acc[w] = value]
    [] l.kernel \in {"add", "finish"} -> [d EXCEPT !.norm = value]
    [] OTHER -> [d EXCEPT !.grid[l.to] = value @@ @]
=============================================================================
