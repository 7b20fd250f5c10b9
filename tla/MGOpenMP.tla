------------------------------ MODULE MGOpenMP ------------------------------
(***************************************************************************)
(* The OpenMP version: all threads of a parallel region go through the     *)
(* same loops, each doing the turns of its own chunk of an omp for and     *)
(* waiting behind it for the others.  What main and zran3 do outside of    *)
(* their parallel regions is done by the master alone.                     *)
(***************************************************************************)
EXTENDS MGKernels

omp_for(kernel, k, from, to, first, last) == Loop(kernel, "static", k, from, to, first, last)
construct(kernel, share, g, last) == Loop(kernel, share, LT, g, g, 0, last)

comm3(g, k) ==
  <<omp_for("axis1", k, g, g, 1, m[k] - 2), omp_for("axis2", k, g, g, 1, m[k] - 2),
    omp_for("axis3", k, g, g, 0, m[k] - 1)>>

zero3(g, k) == <<omp_for("zero3", k, g, g, 0, m[k] - 1)>>

psinv(k) == <<omp_for("psinv", k, R(k), U(k), 1, m[k] - 2)>> \o comm3(U(k), k)

resid(k, v) == <<[omp_for("resid", k, U(k), R(k), 1, m[k] - 2) EXCEPT !.arg = v]>> \o comm3(R(k), k)

(* From level k to the coarser one. *)
rprj3(k) == <<omp_for("rprj3", k - 1, R(k), R(k - 1), 1, m[k - 1] - 2)>> \o comm3(R(k - 1), k - 1)

(* From the level below k to level k. *)
interp(k) ==
  IF m[k] # 3 THEN <<omp_for("interp", k, U(k - 1), U(k), 0, m[k - 1] - 2)>>
  ELSE <<omp_for("interp_d", k, U(k - 1), U(k), 2, m[k - 1] - 1),
         omp_for("interp_t", k, U(k - 1), U(k), 1, m[k - 1] - 1)>>

(* p_s and p_a are private to each thread, which adds them to the shared s and
   rnmu in a critical section; behind a barrier one thread finishes.         *)
norm2u3(g) ==
  <<construct("clear", "own", g, W - 1), omp_for("norm", LT, g, g, 1, m[LT] - 2),
    construct("add", "critical", g, W - 1), construct("finish", "single", g, 0)>>

zran3 ==
  zero3(V, LT)
    \o <<construct("fill", "serial", V, 0), construct("select", "serial", V, 0)>>
    \o <<omp_for("zero3", LT, V, V, 0, m[LT] - 1), construct("charge", "serial", V, 0)>>
    \o comm3(V, LT)

(* One V-cycle: down, the coarsest level, up. *)
mg3P ==
  FlattenSeq([i \in 1..LT - 1 |-> rprj3(LT + 1 - i)])
    \o zero3(U(1), 1) \o psinv(1)
    \o FlattenSeq([i \in 1..LT - 2 |->
         zero3(U(i + 1), i + 1) \o interp(i + 1) \o resid(i + 1, R(i + 1)) \o psinv(i + 1)])
    \o interp(LT) \o resid(LT, V) \o psinv(LT)

(* Initialization, with one iteration for startup. *)
initialization ==
  zero3(U(LT), LT) \o zran3 \o norm2u3(V)
    \o resid(LT, V) \o norm2u3(R(LT))
    \o mg3P \o resid(LT, V)
    \o zero3(U(LT), LT) \o zran3

(* What is timed. *)
benchmark(nit) ==
  resid(LT, V) \o norm2u3(R(LT))
    \o FlattenSeq([it \in 1..nit |-> mg3P \o resid(LT, V)])
    \o norm2u3(R(LT))

main(nit) == initialization \o benchmark(nit)
=============================================================================
