-------------------------------- MODULE Heat ---------------------------------
(***************************************************************************)
(* heat: Jacobi iteration on a grid that is divided into stripes.  The     *)
(* grids old and neww change roles from one time step to the next.  What   *)
(* divide returns, the number of stripes, nobody uses and is left out.     *)
(***************************************************************************)
EXTENDS Strands

CONSTANTS nx, ny, nt, leafmaxcol, TIMING_COUNT

Row == 0..nx - 1
Column == 0..ny - 1

(* Some values for the boundary at the c-th point in time, and for the inner  *)
(* nodes at the start.                                                        *)
randa(a, c) == 0
randb(a, c) == Random(a + nx * c)
randc(b, c) == 0
randd(b, c) == Random(40 + b + ny * c)
f(a, b) == Random(80 + ny * a + b)
dtdxsq == 2
dtdysq == 3

(* Rows 0 and nx - 1 belong to the boundary, and the ends of all the others.  *)
Boundary(a, b) == a \in {0, nx - 1} \/ b \in {0, ny - 1}
AtBoundary(a, b, c) ==
  CASE a = 0                     -> randc(b, c)
    [] a = nx - 1                -> randd(b, c)
    [] a \in 1..nx - 2 /\ b = 0      -> randa(a, c)
    [] a \in 1..nx - 2 /\ b = ny - 1 -> randb(a, c)

Stencil(value(_, _), a, b) ==
  Mod(dtdxsq * (value(a + 1, b) - 2 * value(a, b) + value(a - 1, b))
      + dtdysq * (value(a, b + 1) - 2 * value(a, b) + value(a, b - 1)) + value(a, b))

Stripe(name, lb, ub) == {<<name, a, b>> : a \in lb..ub - 1, b \in Column}

-----------------------------------------------------------------------------
(* The operations on a stripe. *)
allcgrid(lb, ub) ==
  Allocating(Access({}, [c \in Stripe("old", lb, ub) \union Stripe("neww", lb, ub) |-> Random(c[3])]))

initgrid(lb, ub) ==
  Access({}, [c \in Stripe("old", lb, ub) |->
                IF Boundary(c[2], c[3]) THEN AtBoundary(c[2], c[3], 0) ELSE f(c[2], c[3])])

compstripe(new, old, lb, ub, mem) ==
  LET inner == {c \in Stripe(old, lb, ub) : ~Boundary(c[2], c[3])}
      around == UNION {{c, [c EXCEPT ![2] = @ + 1], [c EXCEPT ![2] = @ - 1],
                        [c EXCEPT ![3] = @ + 1], [c EXCEPT ![3] = @ - 1]} : c \in inner}
      value(a, b) == Value(mem, <<old, a, b>>)
  IN Access(around \union {<<"t">>},
            [c \in Stripe(new, lb, ub) |->
               IF Boundary(c[2], c[3]) THEN AtBoundary(c[2], c[3], Value(mem, <<"t">>))
               ELSE Stencil(value, c[2], c[3])])

-----------------------------------------------------------------------------
Divide(lb, ub, mode, timestep) ==
  Call("divide", [lb |-> lb, ub |-> ub, mode |-> mode, timestep |-> timestep])

divide(t) ==
  LET middle == (t.ub + t.lb) \div 2
  IN IF t.ub - t.lb > leafmaxcol
     THEN Fork(<<Divide(t.lb, middle, t.mode, t.timestep), Divide(middle, t.ub, t.mode, t.timestep)>>)
     ELSE <<Strand(t.mode)>>

(* The time t is a global variable. *)
heat ==
  LET Steps == FlattenSeq([c \in 1..nt |-> <<Strand(c)>> \o Fork(<<Divide(0, nx, "COMP", c)>>)])
      Round == Fork(<<Divide(0, nx, "INIT", 0)>>) \o Steps
  IN Fork(<<Divide(0, nx, "ALLC", 0)>>) \o FlattenSeq([i \in 1..TIMING_COUNT |-> Round])

Start == Call("heat", <<>>)
Memory == <<"t">> :> 0
Body(t, mem) == IF t.f = "heat" THEN heat ELSE divide(t)
Does(t, step, mem) ==
  IF t.f = "heat" THEN Access({}, <<"t">> :> step)
  ELSE CASE step = "ALLC" -> allcgrid(t.lb, t.ub)
         [] step = "INIT" -> initgrid(t.lb, t.ub)
         [] step = "COMP" -> IF t.timestep % 2 = 1 THEN compstripe("neww", "old", t.lb, t.ub, mem)
                             ELSE compstripe("old", "neww", t.lb, t.ub, mem)

(* What the iteration is to compute, looked for where ERROR_SUMMARY looks.    *)
Right(mem) ==
  LET field[c \in 0..nt, a \in Row, b \in Column] ==
        IF Boundary(a, b) THEN AtBoundary(a, b, c)
        ELSE IF c = 0 THEN f(a, b)
        ELSE Stencil(LAMBDA i, j : field[c - 1, i, j], a, b)
      result == IF (nt + 1) % 2 = 1 THEN "old" ELSE "neww"
  IN \A a \in Row, b \in Column : mem[<<result, a, b>>] = field[nt, a, b]
=============================================================================
