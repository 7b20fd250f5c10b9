------------------------------ MODULE MGSerial ------------------------------
(***************************************************************************)
(* The serial program, as the sequence of its loops.                       *)
(***************************************************************************)
EXTENDS MGKernels

for(kernel, k, from, to, first, last) == Loop(kernel, "serial", k, from, to, first, last)

comm3(g, k) ==
  <<for("axis1", k, g, g, 1, m[k] - 2), for("axis2", k, g, g, 1, m[k] - 2),
    for("axis3", k, g, g, 0, m[k] - 1)>>

zero3(g, k) == <<for("zero3", k, g, g, 0, m[k] - 1)>>

psinv(k) == <<for("psinv", k, R(k), U(k), 1, m[k] - 2)>> \o comm3(U(k), k)

resid(k, v) == <<[for("resid", k, U(k), R(k), 1, m[k] - 2) EXCEPT !.arg = v]>> \o comm3(R(k), k)

(* From level k to the coarser one. *)
rprj3(k) == <<for("rprj3", k - 1, R(k), R(k - 1), 1, m[k - 1] - 2)>> \o comm3(R(k - 1), k - 1)

(* From the level below k to level k. *)
interp(k) ==
  IF m[k] # 3 THEN <<for("interp", k, U(k - 1), U(k), 0, m[k - 1] - 2)>>
  ELSE <<for("interp_d", k, U(k - 1), U(k), 2, m[k - 1] - 1),
         for("interp_t", k, U(k - 1), U(k), 1, m[k - 1] - 1)>>

(* p_s and p_a are local. *)
norm2u3(g) ==
  <<for("clear", LT, g, g, 0, 0), for("norm", LT, g, g, 1, m[LT] - 2),
    for("add", LT, g, g, 0, 0), for("finish", LT, g, g, 0, 0)>>

zran3 ==
  zero3(V, LT)
    \o <<for("fill", LT, V, V, 0, 0), for("select", LT, V, V, 0, 0)>>
    \o <<for("zero3", LT, V, V, 0, m[LT] - 1), for("charge", LT, V, V, 0, 0)>>
    \o comm3(V, LT)

(* One V-cycle: down, the coarsest level, up. *)
mg3P ==
  FlattenSeq([i \in 1..LT - 1 |-> rprj3(LT + 1 - i)])
    \o zero3(U(1), 1) \o psinv(1)
    \o FlattenSeq([i \in 1..LT - 2 |->
         zero3(U(i + 1), i + 1) \o interp(i + 1) \o resid(i + 1, R(i + 1)) \o psinv(i + 1)])
    \o interp(LT) \o resid(LT, V) \o psinv(LT)

(* Initialization, with one iteration for startup. *)
initialization ==
  zero3(U(LT), LT) \o zran3 \o norm2u3(V)
    \o resid(LT, V) \o norm2u3(R(LT))
    \o mg3P \o resid(LT, V)
    \o zero3(U(LT), LT) \o zran3

(* What is timed. *)
benchmark(nit) ==
  resid(LT, V) \o norm2u3(R(LT))
    \o FlattenSeq([it \in 1..nit |-> mg3P \o resid(LT, V)])
    \o norm2u3(R(LT))

main(nit) == initialization \o benchmark(nit)
=============================================================================
