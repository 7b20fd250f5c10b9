----------------------------- MODULE MGFastFlow -----------------------------
(***************************************************************************)
(* The FastFlow version: a loop over planes is a parallel_for over the     *)
(* num_workers threads of pf, which returns when all its turns are done;   *)
(* the rest is done between the loops, by the thread of main.              *)
(***************************************************************************)
EXTENDS MGKernels

parallel_for(kernel, k, from, to, first, last) == Loop(kernel, "any", k, from, to, first, last)
alone(kernel, g, last) == Loop(kernel, "serial", LT, g, g, 0, last)

comm3(g, k) ==
  <<parallel_for("axis1", k, g, g, 1, m[k] - 2), parallel_for("axis2", k, g, g, 1, m[k] - 2),
    parallel_for("axis3", k, g, g, 0, m[k] - 1)>>

zero3(g, k) == <<parallel_for("zero3", k, g, g, 0, m[k] - 1)>>

psinv(k) == <<parallel_for("psinv", k, R(k), U(k), 1, m[k] - 2)>> \o comm3(U(k), k)

resid(k, v) == <<[parallel_for("resid", k, U(k), R(k), 1, m[k] - 2) EXCEPT !.arg = v]>> \o comm3(R(k), k)

(* From level k to the coarser one. *)
rprj3(k) == <<parallel_for("rprj3", k - 1, R(k), R(k - 1), 1, m[k - 1] - 2)>> \o comm3(R(k - 1), k - 1)

(* From the level below k to level k. *)
interp(k) ==
  IF m[k] # 3 THEN <<parallel_for("interp", k, U(k - 1), U(k), 0, m[k - 1] - 2)>>
  ELSE <<parallel_for("interp_d", k, U(k - 1), U(k), 2, m[k - 1] - 1),
         parallel_for("interp_t", k, U(k - 1), U(k), 1, m[k - 1] - 1)>>

(* parallel_for_thid: one p_s_ff and p_a_ff for every thread. *)
norm2u3(g) ==
  <<alone("clear", g, W - 1), parallel_for("norm", LT, g, g, 1, m[LT] - 2),
    alone("add", g, W - 1), alone("finish", g, 0)>>

zran3 ==
  zero3(V, LT)
    \o <<alone("fill", V, 0), alone("select", V, 0)>>
    \o <<parallel_for("zero3", LT, V, V, 0, m[LT] - 1), alone("charge", V, 0)>>
    \o comm3(V, LT)

(* One V-cycle: down, the coarsest level, up. *)
mg3P ==
  FlattenSeq([i \in 1..LT - 1 |-> rprj3(LT + 1 - i)])
    \o zero3(U(1), 1) \o psinv(1)
    \o FlattenSeq([i \in 1..LT - 2 |->
         zero3(U(i + 1), i + 1) \o interp(i + 1) \o resid(i + 1, R(i + 1)) \o psinv(i + 1)])
    \o interp(LT) \o resid(LT, V) \o psinv(LT)

(* Initialization, with one iteration for startup. *)
initialization ==
  zero3(U(LT), LT) \o zran3 \o norm2u3(V)
    \o resid(LT, V) \o norm2u3(R(LT))
    \o mg3P \o resid(LT, V)
    \o zero3(U(LT), LT) \o zran3

(* What is timed. *)
benchmark(nit) ==
  resid(LT, V) \o norm2u3(R(LT))
    \o FlattenSeq([it \in 1..nit |-> mg3P \o resid(LT, V)])
    \o norm2u3(R(LT))

main(nit) == initialization \o benchmark(nit)
=============================================================================
