--------------------------------- MODULE FFT ---------------------------------
(***************************************************************************)
(* fft: a transform of length n = r * m is r transforms of length m, from  *)
(* the shuffled input in out back to in, and m of length r, with twiddle   *)
(* factors, from in to out.  The coefficients W are computed while n is    *)
(* factored.                                                               *)
(*                                                                         *)
(* A complex number is one modulo PRIME, and the root of 1 is a power of   *)
(* Generator, which generates them all.  Straight-line code for lengths    *)
(* 2 to 32, machine-generated, is modelled by the transform it computes.   *)
(***************************************************************************)
EXTENDS Strands

CONSTANTS
  N,                \* length of the transform, which divides PRIME - 1
  Generator,
  CUTOFF,           \* more than this many coefficients or lines are divided, 128
  CUTOFF_UNSHUFFLE, \* ... 16
  CORRECTNESS       \* compare with the definition of the transform

(* Slips: plausible mistakes in the definitions below. *)

(* W has no place for its last coefficient, which equals the first. *)
CoefficientCells_Short(n) == {<<"W", k>> : k \in 0..n - 1}

-----------------------------------------------------------------------------
power[g, i \in Nat] ==
  IF i = 0 THEN 1 ELSE Mod(power[Mod(g * g), i \div 2] * IF i % 2 = 1 THEN g ELSE 1)
Omega(n, i) == power[Generator, ((PRIME - 1) \div n) * (i % n)]
Line(name, first, length) == {<<name, i>> : i \in first..first + length - 1}

(* factor *)
factor(n) ==
  IF n < 2 THEN 1
  ELSE IF n \in {64, 128, 256, 1024, 2048, 4096} THEN 8
  ELSE IF \E r \in {16, 8, 4, 2} : n % r = 0 THEN Max({r \in {16, 8, 4, 2} : n % r = 0})
  ELSE Min({r \in 3..n : r % 2 = 1 /\ n % r = 0})
factors[n \in Nat] == LET r == factor(n) IN <<r>> \o IF n \div r > 1 THEN factors[n \div r] ELSE <<>>

Compute(n, a, b) == Call("compute_w_coefficients", [n |-> n, a |-> a, b |-> b])
Unshuffle(t, a, b, r) ==
  Call("unshuffle", [a |-> a, b |-> b, in |-> t.in, out |-> t.out, o |-> t.o, r |-> r, m |-> t.n \div r])
Twiddle(t, a, b, r) ==
  Call("fft_twiddle", [a |-> a, b |-> b, in |-> t.in, out |-> t.out, o |-> t.o, n |-> t.n, r |-> r,
                       m |-> t.n \div r])
Aux(n, in, out, o, factors_, level) ==
  Call("fft_aux", [n |-> n, in |-> in, out |-> out, o |-> o, factors |-> factors_, level |-> level])

(* The calls that divide the lines from a to b. *)
Halves(t, middle, next) == Fork(<<[t EXCEPT !.b = middle], [t EXCEPT !.a = next]>>)
Middle(t) == (t.a + t.b) \div 2

compute_w_coefficients(t) ==
  IF t.b - t.a < CUTOFF THEN <<Strand("coefficients")>> ELSE Halves(t, Middle(t), Middle(t) + 1)

Generated == {2, 4, 8, 16, 32}
unshuffle(t) ==
  IF t.b - t.a < (IF t.r \in Generated THEN CUTOFF ELSE CUTOFF_UNSHUFFLE) THEN <<Strand("unshuffle")>>
  ELSE Halves(t, Middle(t), Middle(t))

(* fft_twiddle_2 to fft_twiddle_16, and fft_twiddle_gen, which ends with one. *)
fft_twiddle(t) ==
  IF IF t.r \in Generated THEN t.b - t.a < CUTOFF ELSE t.a = t.b - 1 THEN <<Strand("twiddle")>>
  ELSE Halves(t, Middle(t), Middle(t))

fft_aux(t, mem) ==
  LET r == Value(mem, t.factors)[t.level]
      m == t.n \div r
  IN IF t.n \in Generated THEN <<Strand("base")>>
     ELSE (IF r < t.n
           THEN Fork(<<Unshuffle(t, 0, m, r)>>)
                \o SpawnAll([k \in 1..r |-> Aux(m, t.out, t.in, t.o + (k - 1) * m, t.factors, t.level + 1)])
           ELSE <<>>)
          \o Fork(<<Twiddle(t, 0, m, r)>>)

cilk_fft(t) ==
  <<Strand("malloc"), Spawn(<<Compute(t.n, 0, t.n \div 2)>>), Strand("factor"), Sync>>
  \o Fork(<<Aux(t.n, "in", "out", 0, Local(t, "factors"), 1)>>) \o <<Strand("free")>>

-----------------------------------------------------------------------------
CoefficientCells(n) == {<<"W", k>> : k \in 0..n}

(* W[k] and W[n - k], at once. *)
Coefficients(t) ==
  Access({}, [c \in {<<"W", k>> : k \in t.a..t.b \union t.n - t.b..t.n - t.a} |-> Omega(t.n, c[2])])

(* Element i of the r-th part goes to line r: out[i + m * j] is in[r * i + j]. *)
Unshuffled(t, mem) ==
  LET cells == {<<t.out, t.o + i + t.m * j>> : i \in t.a..t.b - 1, j \in 0..t.r - 1}
      From(c) == LET k == c[2] - t.o IN <<t.in, t.o + t.r * (k % t.m) + k \div t.m>>
  IN Access({From(c) : c \in cells}, [c \in cells |-> Value(mem, From(c))])

Base(t, mem) ==
  Access(Line(t.in, t.o, t.n),
         [c \in Line(t.out, t.o, t.n) |->
            Mod(Sum(0..t.n - 1, LAMBDA j : Value(mem, <<t.in, t.o + j>>) * Omega(t.n, j * (c[2] - t.o))))])

(* Input j's coefficient for output k of line i, a cell of W and a root of 1: *)
(* of the generated code for a length r, and of the loop for any other, which *)
(* goes through W in steps of l and wraps around.                             *)
fft_twiddle_r(t, i, j, k) == [w |-> <<"W", j * (N \div t.n) * i>>, root |-> Omega(t.r, j * k)]
fft_twiddle_gen1(t, i, j, k) ==
  LET nWdn == N \div t.n
      l == nWdn * i + nWdn * t.m * k
      l0[n \in 0..j] == IF n = 0 THEN 0
                        ELSE LET next == l0[n - 1] + l IN IF next > N THEN next - N ELSE next
  IN [w |-> <<"W", l0[j]>>, root |-> 1]

Twiddled(t, mem) ==
  LET parts == 0..t.r - 1
      lines == t.a..t.b - 1
      In(i, j) == <<t.in, t.o + i + t.m * j>>
      Out(i, k) == <<t.out, t.o + i + t.m * k>>
      By(i, j, k) == IF t.r \in Generated THEN fft_twiddle_r(t, i, j, k) ELSE fft_twiddle_gen1(t, i, j, k)
      Term(i, j, k) ==
        LET by == By(i, j, k) IN Mod(Value(mem, In(i, j)) * Value(mem, by.w)) * by.root
      line(c) == (c[2] - t.o) % t.m
  IN Access({In(i, j) : i \in lines, j \in parts}
              \union {By(i, j, k).w : i \in lines, j \in parts, k \in parts},
            [c \in {Out(i, k) : i \in lines, k \in parts} |->
               Mod(Sum(parts, LAMBDA j : Term(line(c), j, (c[2] - t.o) \div t.m)))])

(* The transform as defined. *)
Transform(n, j, value(_)) == Mod(Sum(0..n - 1, LAMBDA i : value(i) * Omega(n, i * j)))
test_fft_elem(t, mem) ==
  Access(Line("in2", 0, N),
         <<"out2", t.j>> :> Transform(N, t.j, LAMBDA i : Value(mem, <<"in2", i>>)))

Does(t, step, mem) ==
  CASE step = "malloc"       -> Allocating(Access({}, [c \in CoefficientCells(t.n) |-> 0]))
    [] step = "coefficients" -> Coefficients(t)
    [] step = "factor"       -> Access({}, Local(t, "factors") :> factors[t.n])
    [] step = "unshuffle"    -> Unshuffled(t, mem)
    [] step = "base"         -> Base(t, mem)
    [] step = "twiddle"      -> Twiddled(t, mem)
    [] step = "free"         -> Freeing({c \in DOMAIN mem : c[1] = "W"})
    [] step = "elem"         -> test_fft_elem(t, mem)

-----------------------------------------------------------------------------
(* test_correctness, for one length, or test_speed.                           *)
input(i) == Random(i)
Start == Call("main", <<>>)
main ==
  Fork(<<Call("cilk_fft", [n |-> N])>>)
  \o IF CORRECTNESS THEN Fork(<<Call("test_fft", <<>>)>>) ELSE <<>>
test_fft == SpawnAll([j \in 1..N |-> Call("test_fft_elem", [j |-> j - 1])])
Arrays == {"in", "out"} \union IF CORRECTNESS THEN {"in2", "out2"} ELSE {}
Memory == [c \in UNION {Line(name, 0, N) : name \in Arrays} |->
             IF c[1] \in {"in", "in2"} THEN input(c[2]) ELSE 0]

Body(t, mem) ==
  CASE t.f = "main"                   -> main
    [] t.f = "cilk_fft"               -> cilk_fft(t)
    [] t.f = "compute_w_coefficients" -> compute_w_coefficients(t)
    [] t.f = "fft_aux"                -> fft_aux(t, mem)
    [] t.f = "unshuffle"              -> unshuffle(t)
    [] t.f = "fft_twiddle"            -> fft_twiddle(t)
    [] t.f = "test_fft"               -> test_fft
    [] t.f = "test_fft_elem"          -> <<Strand("elem")>>

Right(mem) ==
  \A j \in 0..N - 1 :
    /\ mem[<<"out", j>>] = Transform(N, j, input)
    /\ CORRECTNESS => mem[<<"out2", j>>] = mem[<<"out", j>>]
=============================================================================
