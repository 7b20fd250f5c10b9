------------------------------ MODULE LoopTeam ------------------------------
(***************************************************************************)
(* A team of workers runs a program of loops, one loop after the other.  A *)
(* turn of a loop takes two steps: what it reads goes into the temporaries *)
(* of the worker, and from there into a grid.                              *)
(***************************************************************************)
EXTENDS MGKernels

CONSTANTS
  Version,      \* the versions of the program
  Program,      \* the loops of each
  SERIAL,       \* the version that the others are compared with
  Junk          \* what memory may hold before it is written

(* What a loop must be like for its turns not to meet: a kernel that reads    *)
(* next to a cell does not write the grid that it reads there, and of what    *)
(* adds to the norms one turn runs at a time.                                 *)
Independent(l) ==
  /\ l.kernel \in {"psinv", "resid", "rprj3", "interp", "interp_d", "interp_t"} => l.from # l.to
  /\ l.kernel \in {"add", "finish"} => l.share \in {"critical", "serial"} \/ l.first = l.last

ASSUME ProgramAssumption ==
  /\ Program \in [Version -> Seq(Loops)] /\ SERIAL \in Version
  /\ \A p \in {Program[v] : v \in Version} : \A n \in DOMAIN p : Independent(p[n])
  /\ Junk \subseteq Number /\ Junk # {}

VARIABLES
  version,
  at, loop,    \* how far the program is, and the loop that is run
  todo,        \* its turns that nobody has begun
  doing,       \* the turn of each worker
  temp,        \* the temporaries
  data,
  serial       \* the data of the serial program, for comparison

vars == <<version, at, loop, todo, doing, temp, data, serial>>

NONE == -1                        \* no turn
EMPTY == <<>>                     \* no value

-----------------------------------------------------------------------------
(* Slips: plausible mistakes in the definitions below.                        *)

(* All turns share one set of temporaries. *)
Temp_Shared(w) == 0

-----------------------------------------------------------------------------
END == Loop("end", "serial", 1, V, V, 1, 0)     \* behind the last loop
LoopAt(v, n) == IF n > Len(Program[v]) THEN END ELSE Program[v][n]
Turns(l) == l.first .. l.last
Over == loop = END

(* worker_tmp1[w], worker_tmp2[w], p_s_ff[w]: by the number of the worker.    *)
Temp(w) == w

(* schedule(static): the turns in chunks, the first ones longer by one.       *)
Chunk(l, w) ==
  LET count == l.last - l.first + 1
      size == count \div W
      longer == count % W
      first == l.first + w * size + IF w < longer THEN w ELSE longer
  IN first .. first + size - (IF w < longer THEN 0 ELSE 1)

Alone == \A w \in Worker : doing[w] = NONE
InOrder(i, S) == \A j \in S : i <= j

(* A plausible slip: the critical section is left out. *)
MayBegin_Uncritical(l, w, i) ==
  CASE l.share \in {"any", "single"}   -> TRUE
    [] l.share = "static"             -> i \in Chunk(l, w) /\ InOrder(i, todo \intersect Chunk(l, w))
    [] l.share \in {"own", "critical"} -> i = w
    [] l.share = "serial"             -> w = 0 /\ Alone /\ InOrder(i, todo)

(* Which worker may begin which turn. *)
MayBegin(l, w, i) ==
  CASE l.share = "any"      -> TRUE
    [] l.share = "static"   -> i \in Chunk(l, w) /\ InOrder(i, todo \intersect Chunk(l, w))
    [] l.share = "own"      -> i = w
    [] l.share = "critical" -> i = w /\ Alone
    [] l.share = "single"   -> TRUE
    [] l.share = "serial"   -> w = 0 /\ Alone /\ InOrder(i, todo)

-----------------------------------------------------------------------------
Init ==
  /\ version \in Version
  /\ at = 1 /\ loop = LoopAt(version, 1) /\ todo = Turns(loop)
  /\ doing = [w \in Worker |-> NONE]
  /\ temp = [w \in Worker |-> EMPTY]
  /\ \E junk \in Junk : data = Loaded(junk)
  /\ serial = Loaded(0)

Begin(w) ==
  /\ ~Over /\ doing[w] = NONE
  /\ \E i \in todo :
       /\ MayBegin(loop, w, i)
       /\ todo' = todo \ {i}
       /\ doing' = [doing EXCEPT ![w] = i]
       /\ temp' = [temp EXCEPT ![Temp(w)] = Value(data, loop, i, w)]
  /\ UNCHANGED <<version, at, loop, data, serial>>

Finish(w) ==
  /\ doing[w] # NONE
  /\ data' = Store(data, loop, doing[w], w, temp[Temp(w)])
  /\ doing' = [doing EXCEPT ![w] = NONE]
  /\ temp' = [temp EXCEPT ![w] = EMPTY]
  /\ UNCHANGED <<version, at, loop, todo, serial>>

(* A loop in one go, its turns in order. *)
Run(d, l) ==
  FoldLeft(LAMBDA e, i : Store(e, l, i, 0, Value(e, l, i, 0)), d,
           [i \in 1..l.last - l.first + 1 |-> l.first + i - 1])

(* The end of a cilk_for or of a parallel_for, the barrier behind an omp for. *)
NextLoop ==
  /\ ~Over /\ todo = {} /\ Alone
  /\ at' = at + 1
  /\ loop' = LoopAt(version, at + 1)
  /\ todo' = Turns(loop')
  /\ serial' = Run(serial, LoopAt(SERIAL, at))
  /\ UNCHANGED <<version, doing, temp, data>>

Terminated == Over /\ UNCHANGED vars

Next == (\E w \in Worker : Begin(w) \/ Finish(w)) \/ NextLoop \/ Terminated

Spec == Init /\ [][Next]_vars

-----------------------------------------------------------------------------
(* The rows that turn i of loop l reads and writes.                           *)
Cells(g, planes, rows) == {g} \X planes \X rows
All(k) == 0..m[k] - 1
Inner(k) == 1..m[k] - 2

Reads(l, i) ==
  CASE l.kernel = "psinv" -> Cells(l.from, i - 1..i + 1, All(l.k)) \union Cells(l.to, {i}, Inner(l.k))
    [] l.kernel = "resid" -> Cells(l.from, i - 1..i + 1, All(l.k)) \union Cells(l.arg, {i}, Inner(l.k))
    [] l.kernel = "rprj3" ->
         LET d == IF m[l.k + 1] = 3 THEN 2 ELSE 1
         IN Cells(l.from, 2 * i - d .. 2 * i - d + 2, All(l.k + 1))
    [] l.kernel \in {"interp", "interp_d", "interp_t"} ->
         UNION {Cells(l.from, t[2], All(l.k - 1)) \union Cells(l.to, {t[1]}, All(l.k))
                 : t \in InterpPlanes(l.kernel, i)}
    [] l.kernel = "norm" -> Cells(l.from, {i}, Inner(l.k))
    [] l.kernel \in {"axis1", "axis2"} -> Cells(l.to, {i}, All(l.k))
    [] l.kernel = "axis3" -> Cells(l.to, {1, m[l.k] - 2}, {i})
    [] OTHER -> {}

Writes(l, i) ==
  CASE l.kernel \in {"psinv", "resid", "rprj3", "axis1"} -> Cells(l.to, {i}, Inner(l.k))
    [] l.kernel \in {"interp", "interp_d", "interp_t"} ->
         UNION {Cells(l.to, {t[1]}, All(l.k)) : t \in InterpPlanes(l.kernel, i)}
    [] l.kernel = "axis2" -> Cells(l.to, {i}, {0, m[l.k] - 1})
    [] l.kernel = "axis3" -> Cells(l.to, {0, m[l.k] - 1}, {i})
    [] l.kernel = "zero3" -> Cells(l.to, {i}, All(l.k))
    [] OTHER -> {}

(* Two turns of one loop conflict in a row, or in what the norms share.       *)
Conflict(l, i, j) ==
  \/ Writes(l, i) \intersect (Reads(l, j) \union Writes(l, j)) # {}
  \/ l.kernel \in {"add", "finish"}

(* Workers race neither in a grid nor in the temporaries and partial norms    *)
(* that a version keeps per worker, nor in the norms: the turns of every      *)
(* parallel loop write planes, or rows, that no other turn of it touches,     *)
(* with the loops of comm3 over axes kept apart by their ends, and interp     *)
(* adding to two planes of the finer grid per turn.                           *)
NoRace ==
  \A v, w \in Worker :
    v # w /\ doing[v] # NONE /\ doing[w] # NONE =>
      ~Conflict(loop, doing[v], doing[w]) /\ Temp(v) # Temp(w)

(* The ghosts of a grid hold what lies opposite.                              *)
Periodic(g, n) ==
  /\ \A i \in 0..n - 1 : /\ g[<<0, i>>] = g[<<n - 2, i>>] /\ g[<<n - 1, i>>] = g[<<1, i>>]
                         /\ g[<<i, 0>>] = g[<<i, n - 2>>] /\ g[<<i, n - 1>>] = g[<<i, 1>>]
  /\ \A p \in DOMAIN g : g[p].gh = g[p].in

(* A kernel that reads a grid with its ghosts finds in them what lies         *)
(* opposite: every version calls comm3 wherever the grid has changed since,   *)
(* and interp, which is not followed by one, leaves them right by itself.     *)
HalosFresh ==
  ~Over /\ loop.kernel \in {"psinv", "resid", "rprj3", "interp", "interp_d"} =>
    LET g == loop.from IN nx[g[2]] > 0 => Periodic(data.grid[g], m[g[2]])

(* The solution, the residual and every norm are those of the serial program, *)
(* in whatever order the turns of the loops ran, from memory that holds junk, *)
(* and however the norm's planes were divided among the workers.              *)
SameAsSerial ==
  /\ Over => /\ \A g \in {U(LT), R(LT), V} : data.grid[g] = serial.grid[g]
             /\ data.norm.rnm2 = serial.norm.rnm2
  /\ loop.kernel = "finish" /\ todo # {} => data.norm.s = serial.norm.s

(* The random numbers, one after the other. *)
Random[n \in 0..NX * NX * NX] == IF n = 0 THEN X ELSE (A * Random[n - 1]) % 2^(2 * HALF)
RandomAt(p) == Random[1 + NX * (p[2] - 1) + NX * NX * (p[1] - 1)]

(* zran3 gives the right-hand side its charges: +1 where the MM largest       *)
(* random numbers were, -1 where the MM smallest were, 0 elsewhere; found in  *)
(* one pass by two lists that bubble keeps in order, with each row's numbers  *)
(* generated from a seed that power takes there, by products of halves.       *)
ChargesAtExtremes ==
  ~Over /\ loop.kernel \in {"resid", "norm"} =>
    LET rows == (1..NX) \X (1..NX)
        Above(p) == Cardinality({q \in rows : RandomAt(q) > RandomAt(p)})
        Below(p) == Cardinality({q \in rows : RandomAt(q) < RandomAt(p)})
    IN \A p \in rows :
         data.grid[V][p].in = IF Above(p) < MM THEN 1 ELSE IF Below(p) < MM THEN MODULUS - 1 ELSE 0
=============================================================================
