--------------------------- MODULE LoopTeam_proof ---------------------------
(***************************************************************************)
(* The workers of a team do not race, for grids of any size, any number of *)
(* workers, and any program whose loops are like those of the four         *)
(* versions: the turns of a loop touch different planes, or rows, and two  *)
(* workers never have the same turn.                                       *)
(***************************************************************************)
EXTENDS LoopTeam, TLAPS

-----------------------------------------------------------------------------
(* Two different turns of a loop do not conflict, unless they add to the      *)
(* norms: what a turn writes is in planes (axis3: rows) that are its own, and *)
(* what another reads of the same grid is in planes that are not.             *)

(* The planes of the finer grid that turn i of a loop of interp adds to.      *)
Targets(l, i) ==
  CASE l.kernel = "interp"   -> {2 * i, 2 * i + 1}
    [] l.kernel = "interp_d" -> {2 * i - 3}
    [] l.kernel = "interp_t" -> {2 * i - 2}

LEMMA PlanesAreTargets ==
  ASSUME NEW l, l.kernel \in {"interp", "interp_d", "interp_t"},
         NEW i \in Nat, NEW t \in InterpPlanes(l.kernel, i)
  PROVE  t[1] \in Targets(l, i)
<1>1. CASE l.kernel = "interp"
  <2>1. t = <<2 * i, {i}>> \/ t = <<2 * i + 1, {i, i + 1}>>
    BY <1>1 DEF InterpPlanes
  <2>2. t[1] = 2 * i \/ t[1] = 2 * i + 1
    BY <2>1
  <2> QED BY <1>1, <2>2 DEF Targets
<1>2. CASE l.kernel = "interp_d"
  <2>1. t = <<2 * i - 3, {i - 1}>>
    BY <1>2 DEF InterpPlanes
  <2>2. t[1] = 2 * i - 3
    BY <2>1
  <2> QED BY <1>2, <2>2 DEF Targets
<1>3. CASE l.kernel = "interp_t"
  <2>1. t = <<2 * i - 2, {i - 1, i}>>
    BY <1>3 DEF InterpPlanes
  <2>2. t[1] = 2 * i - 2
    BY <2>1
  <2> QED BY <1>3, <2>2 DEF Targets
<1> QED BY <1>1, <1>2, <1>3

LEMMA CellParts ==
  ASSUME NEW g, NEW planes, NEW rows, NEW c \in Cells(g, planes, rows)
  PROVE  c[1] = g /\ c[2] \in planes /\ c[3] \in rows
  BY DEF Cells

LEMMA TargetsDiffer ==
  ASSUME NEW l, l.kernel \in {"interp", "interp_d", "interp_t"},
         NEW i \in Nat, NEW j \in Nat, i # j
  PROVE  Targets(l, i) \intersect Targets(l, j) = {}
  BY DEF Targets

LEMMA InterpCells ==
  ASSUME NEW l, l.kernel \in {"interp", "interp_d", "interp_t"}, NEW i \in Nat, NEW c
  PROVE  /\ c \in Writes(l, i) => c[1] = l.to /\ c[2] \in Targets(l, i)
         /\ c \in Reads(l, i) => c[1] = l.from \/ (c[1] = l.to /\ c[2] \in Targets(l, i))
<1>1. Writes(l, i) = UNION {Cells(l.to, {t[1]}, All(l.k)) : t \in InterpPlanes(l.kernel, i)}
  BY DEF Writes
<1>2. Reads(l, i) = UNION {Cells(l.from, t[2], All(l.k - 1)) \union Cells(l.to, {t[1]}, All(l.k))
                            : t \in InterpPlanes(l.kernel, i)}
  BY DEF Reads
<1>3. ASSUME c \in Writes(l, i) PROVE c[1] = l.to /\ c[2] \in Targets(l, i)
  <2>1. PICK t \in InterpPlanes(l.kernel, i) : c \in Cells(l.to, {t[1]}, All(l.k))
    BY <1>1, <1>3
  <2>2. c[1] = l.to /\ c[2] = t[1]
    BY <2>1, CellParts
  <2> QED BY <2>2, PlanesAreTargets
<1>4. ASSUME c \in Reads(l, i) PROVE c[1] = l.from \/ (c[1] = l.to /\ c[2] \in Targets(l, i))
  <2>1. PICK t \in InterpPlanes(l.kernel, i) :
          c \in Cells(l.from, t[2], All(l.k - 1)) \union Cells(l.to, {t[1]}, All(l.k))
    BY <1>2, <1>4
  <2>2. c[1] = l.from \/ (c[1] = l.to /\ c[2] = t[1])
    BY <2>1, CellParts
  <2> QED BY <2>2, PlanesAreTargets
<1> QED BY <1>3, <1>4

(* The other kernels that read next to a cell, and write one plane.           *)
LEMMA StencilCells ==
  ASSUME NEW l, l.kernel \in {"psinv", "resid", "rprj3"}, NEW i \in Nat, NEW c
  PROVE  /\ c \in Writes(l, i) => c[1] = l.to /\ c[2] = i
         /\ c \in Reads(l, i) => c[1] = l.from \/ c[2] = i
<1>1. c \in Writes(l, i) => c[1] = l.to /\ c[2] = i
  <2>1. Writes(l, i) = Cells(l.to, {i}, Inner(l.k))
    BY DEF Writes
  <2> QED BY <2>1, CellParts
<1>2. CASE l.kernel = "psinv"
  <2>1. Reads(l, i) = Cells(l.from, i - 1..i + 1, All(l.k)) \union Cells(l.to, {i}, Inner(l.k))
    BY <1>2 DEF Reads
  <2>2. c \in Reads(l, i) => c[1] = l.from \/ c[2] = i
    BY <2>1, CellParts
  <2> QED BY <1>1, <2>2
<1>3. CASE l.kernel = "resid"
  <2>1. Reads(l, i) = Cells(l.from, i - 1..i + 1, All(l.k)) \union Cells(l.arg, {i}, Inner(l.k))
    BY <1>3 DEF Reads
  <2>2. c \in Reads(l, i) => c[1] = l.from \/ c[2] = i
    BY <2>1, CellParts
  <2> QED BY <1>1, <2>2
<1>4. CASE l.kernel = "rprj3"
  <2> DEFINE d == IF m[l.k + 1] = 3 THEN 2 ELSE 1
  <2>1. Reads(l, i) = Cells(l.from, 2 * i - d .. 2 * i - d + 2, All(l.k + 1))
    BY <1>4 DEF Reads
  <2>2. c \in Reads(l, i) => c[1] = l.from
    BY <2>1, CellParts
  <2> QED BY <1>1, <2>2
<1> QED BY <1>2, <1>3, <1>4

(* And those that stay within a plane, or a row.                              *)
LEMMA PlaneCells ==
  ASSUME NEW l, l.kernel \notin {"psinv", "resid", "rprj3", "interp", "interp_d", "interp_t"},
         NEW i \in Nat, NEW c
  PROVE  /\ c \in Writes(l, i) => IF l.kernel = "axis3" THEN c[3] = i ELSE c[2] = i
         /\ c \in Reads(l, i) => IF l.kernel = "axis3" THEN c[3] = i ELSE c[2] = i
<1>1. c \in Writes(l, i) => IF l.kernel = "axis3" THEN c[3] = i ELSE c[2] = i
  <2>1. \/ Writes(l, i) = {}
        \/ l.kernel # "axis3" /\ \E rows : Writes(l, i) = Cells(l.to, {i}, rows)
        \/ l.kernel = "axis3" /\ \E planes : Writes(l, i) = Cells(l.to, planes, {i})
    BY DEF Writes
  <2> QED BY <2>1, CellParts
<1>2. c \in Reads(l, i) => IF l.kernel = "axis3" THEN c[3] = i ELSE c[2] = i
  <2>1. \/ Reads(l, i) = {}
        \/ l.kernel # "axis3" /\ \E g, rows : Reads(l, i) = Cells(g, {i}, rows)
        \/ l.kernel = "axis3" /\ \E planes : Reads(l, i) = Cells(l.to, planes, {i})
    BY DEF Reads
  <2> QED BY <2>1, CellParts
<1> QED BY <1>1, <1>2

LEMMA TurnsApart ==
  ASSUME NEW l, Independent(l), l.kernel \notin {"add", "finish"},
         NEW i \in Nat, NEW j \in Nat, i # j
  PROVE  ~Conflict(l, i, j)
<1> SUFFICES ASSUME NEW c \in Writes(l, i), c \in Reads(l, j) \union Writes(l, j)
             PROVE  FALSE
  BY DEF Conflict
<1>1. CASE l.kernel \in {"interp", "interp_d", "interp_t"}
  <2>1. c[1] = l.to /\ c[2] \in Targets(l, i) /\ (c[1] = l.from \/ c[2] \in Targets(l, j))
    BY <1>1, InterpCells
  <2>2. l.from # l.to
    BY <1>1 DEF Independent
  <2> QED BY <1>1, <2>1, <2>2, TargetsDiffer
<1>2. CASE l.kernel \in {"psinv", "resid", "rprj3"}
  <2>1. c[1] = l.to /\ c[2] = i /\ (c[1] = l.from \/ c[2] = j)
    BY <1>2, StencilCells
  <2>2. l.from # l.to
    BY <1>2 DEF Independent
  <2> QED BY <2>1, <2>2
<1>3. CASE l.kernel \notin {"psinv", "resid", "rprj3", "interp", "interp_d", "interp_t"}
  <2>1. /\ IF l.kernel = "axis3" THEN c[3] = i ELSE c[2] = i
        /\ IF l.kernel = "axis3" THEN c[3] = j ELSE c[2] = j
    BY <1>3, PlaneCells
  <2> QED BY <2>1
<1> QED BY <1>1, <1>2, <1>3

-----------------------------------------------------------------------------
(* The invariant.  The loop is one of the program's; *)
Shape(l) == l.first \in Nat /\ l.last \in Int /\ Independent(l)
LoopInv ==
  /\ version \in Version /\ at \in Nat \ {0}
  /\ Shape(loop)
(* a turn is to come, or begun, or over, and begun by one worker; *)
TurnInv ==
  /\ todo \subseteq Turns(loop)
  /\ doing \in [Worker -> Turns(loop) \union {NONE}]
  /\ \A w \in Worker : doing[w] \notin todo
  /\ \A v, w \in Worker : v # w /\ doing[v] # NONE => doing[v] # doing[w]
(* and the turns that have to run alone do. *)
AloneInv ==
  loop.share \in {"critical", "serial"} =>
    \A v, w \in Worker : v # w => doing[v] = NONE \/ doing[w] = NONE

IInv == LoopInv /\ TurnInv /\ AloneInv

LEMMA LoopShape ==
  ASSUME NEW v \in Version, NEW n \in Nat \ {0}
  PROVE  Shape(LoopAt(v, n))
<1>1. CASE n > Len(Program[v])
  <2>1. LoopAt(v, n) = END
    BY <1>1 DEF LoopAt
  <2>2. END.kernel = "end" /\ END.first = 1 /\ END.last = 0
    BY DEF END, Loop
  <2> QED BY <2>1, <2>2 DEF Shape, Independent
<1>2. CASE ~(n > Len(Program[v]))
  <2>1. Program[v] \in Seq(Loops)
    BY ProgramAssumption
  <2>2. n \in DOMAIN Program[v]
    BY <1>2, <2>1
  <2>3. LoopAt(v, n) = Program[v][n]
    BY <1>2 DEF LoopAt
  <2>4. Program[v][n] \in Loops
    BY <2>1, <2>2
  <2>5. Independent(Program[v][n])
    BY <2>2, ProgramAssumption
  <2>6. Program[v][n].first \in Nat /\ Program[v][n].last \in Int
    BY <2>4 DEF Loops
  <2> QED BY <2>3, <2>5, <2>6 DEF Shape
<1> QED BY <1>1, <1>2

LEMMA NoTurn ==
  ASSUME NEW l, Shape(l)
  PROVE  NONE \notin Turns(l) /\ Turns(l) \subseteq Nat
  BY DEF Shape, Turns, NONE

LEMMA Initially == Init => IInv
<1> SUFFICES ASSUME Init PROVE IInv
  OBVIOUS
<1>1. LoopInv
  BY LoopShape DEF Init, LoopInv
<1>2. TurnInv
  <2>1. todo = Turns(loop) /\ doing = [w \in Worker |-> NONE]
    BY DEF Init
  <2>2. NONE \notin Turns(loop)
    BY <1>1, NoTurn DEF LoopInv
  <2> QED BY <2>1, <2>2 DEF TurnInv
<1>3. AloneInv
  BY DEF Init, AloneInv
<1> QED BY <1>1, <1>2, <1>3 DEF IInv

LEMMA BeginKeeps ==
  ASSUME IInv, NEW w \in Worker, Begin(w)
  PROVE  IInv'
<1> USE DEF IInv
<1>1. PICK i \in todo : /\ MayBegin(loop, w, i)
                        /\ todo' = todo \ {i}
                        /\ doing' = [doing EXCEPT ![w] = i]
  BY DEF Begin
<1>2. UNCHANGED <<version, at, loop>> /\ doing[w] = NONE
  BY DEF Begin
<1>3. LoopInv'
  BY <1>2 DEF LoopInv
<1>4. i \in Turns(loop) /\ i # NONE
  BY NoTurn DEF LoopInv, TurnInv
<1>5. TurnInv'
  <2>1. \A v \in Worker : doing'[v] = IF v = w THEN i ELSE doing[v]
    BY <1>1 DEF TurnInv
  <2>2. doing' \in [Worker -> Turns(loop) \union {NONE}]
    BY <1>1, <1>4 DEF TurnInv
  <2>3. \A v \in Worker : doing'[v] \notin todo'
    BY <1>1, <2>1 DEF TurnInv
  <2>4. ASSUME NEW u \in Worker, NEW v \in Worker, u # v, doing'[u] # NONE
        PROVE  doing'[u] # doing'[v]
    <3>1. doing[u] # i /\ doing[v] # i
      BY DEF TurnInv
    <3>2. CASE u = w
      BY <2>1, <2>4, <3>1, <3>2
    <3>3. CASE u # w
      BY <2>1, <2>4, <3>1, <3>3 DEF TurnInv
    <3> QED BY <3>2, <3>3
  <2>5. Turns(loop)' = Turns(loop) /\ todo' \subseteq Turns(loop)
    BY <1>1, <1>2 DEF TurnInv, Turns
  <2> QED BY <2>2, <2>3, <2>4, <2>5 DEF TurnInv
<1>6. AloneInv'
  <2> SUFFICES ASSUME loop.share \in {"critical", "serial"},
                      NEW u \in Worker, NEW v \in Worker, u # v
               PROVE  doing'[u] = NONE \/ doing'[v] = NONE
    BY <1>2 DEF AloneInv
  <2>1. Alone
    BY <1>1 DEF MayBegin
  <2>2. \A x \in Worker : x # w => doing'[x] = NONE
    BY <1>1, <2>1 DEF Alone, TurnInv
  <2> QED BY <2>2
<1> QED BY <1>3, <1>5, <1>6

LEMMA FinishKeeps ==
  ASSUME IInv, NEW w \in Worker, Finish(w)
  PROVE  IInv'
<1> USE DEF IInv
<1>1. doing' = [doing EXCEPT ![w] = NONE] /\ UNCHANGED <<version, at, loop, todo>>
  BY DEF Finish
<1>2. \A v \in Worker : doing'[v] = IF v = w THEN NONE ELSE doing[v]
  BY <1>1 DEF TurnInv
<1>3. LoopInv'
  BY <1>1 DEF LoopInv
<1>4. TurnInv'
  <2>1. NONE \notin todo
    BY NoTurn DEF LoopInv, TurnInv
  <2>2. doing' \in [Worker -> Turns(loop) \union {NONE}]
    BY <1>1 DEF TurnInv
  <2>3. \A v \in Worker : doing'[v] \notin todo'
    BY <1>1, <1>2, <2>1 DEF TurnInv
  <2>4. ASSUME NEW u \in Worker, NEW v \in Worker, u # v, doing'[u] # NONE
        PROVE  doing'[u] # doing'[v]
    BY <1>2, <2>4 DEF TurnInv
  <2>5. Turns(loop)' = Turns(loop) /\ todo' \subseteq Turns(loop)
    BY <1>1 DEF TurnInv, Turns
  <2> QED BY <2>2, <2>3, <2>4, <2>5 DEF TurnInv
<1>5. AloneInv'
  BY <1>1, <1>2 DEF AloneInv
<1> QED BY <1>3, <1>4, <1>5

LEMMA NextLoopKeeps ==
  ASSUME IInv, NextLoop
  PROVE  IInv'
<1> USE DEF IInv
<1>1. /\ Alone /\ at' = at + 1 /\ loop' = LoopAt(version, at + 1)
      /\ todo' = Turns(loop') /\ UNCHANGED <<version, doing>>
  BY DEF NextLoop
<1>2. at + 1 \in Nat \ {0}
  BY DEF LoopInv
<1>3. LoopInv'
  <2>1. Shape(loop')
    BY <1>1, <1>2, LoopShape DEF LoopInv
  <2>2. Shape(loop)'
    BY <2>1 DEF Shape, Independent
  <2> QED BY <1>1, <1>2, <2>2 DEF LoopInv
<1>4. TurnInv'
  <2>1. Turns(loop)' = Turns(loop')
    BY DEF Turns
  <2>2. NONE \notin Turns(loop')
    BY <1>1, <1>2, LoopShape, NoTurn DEF LoopInv
  <2>3. \A w \in Worker : doing'[w] = NONE
    BY <1>1 DEF Alone
  <2>4. doing' \in [Worker -> Turns(loop') \union {NONE}]
    BY <1>1, <2>3 DEF TurnInv
  <2> QED BY <1>1, <2>1, <2>2, <2>3, <2>4 DEF TurnInv
<1>5. AloneInv'
  BY <1>1 DEF AloneInv, Alone
<1> QED BY <1>3, <1>4, <1>5

LEMMA Inductive == IInv /\ [Next]_vars => IInv'
<1> SUFFICES ASSUME IInv, [Next]_vars PROVE IInv'
  OBVIOUS
<1>1. CASE \E w \in Worker : Begin(w)
  BY <1>1, BeginKeeps
<1>2. CASE \E w \in Worker : Finish(w)
  BY <1>2, FinishKeeps
<1>3. CASE NextLoop
  BY <1>3, NextLoopKeeps
<1>4. CASE UNCHANGED vars
  BY <1>4 DEF IInv, LoopInv, TurnInv, AloneInv, vars, Shape, Independent, Turns
<1> QED BY <1>1, <1>2, <1>3, <1>4 DEF Next, Terminated

LEMMA Sufficient == IInv => NoRace
<1> SUFFICES ASSUME IInv, NEW v \in Worker, NEW w \in Worker, v # w,
                    doing[v] # NONE, doing[w] # NONE
             PROVE  ~Conflict(loop, doing[v], doing[w]) /\ Temp(v) # Temp(w)
  BY DEF NoRace
<1>1. doing[v] \in Turns(loop) /\ doing[w] \in Turns(loop) /\ doing[v] # doing[w]
  BY DEF IInv, TurnInv
<1>2. Independent(loop) /\ loop.first \in Nat /\ loop.last \in Int
  BY DEF IInv, LoopInv, Shape
<1>3. loop.kernel \notin {"add", "finish"}
  <2> SUFFICES ASSUME loop.kernel \in {"add", "finish"} PROVE FALSE
    OBVIOUS
  <2>1. loop.share \notin {"critical", "serial"}
    BY DEF IInv, AloneInv
  <2>2. loop.first = loop.last
    BY <1>2, <2>1 DEF Independent
  <2> QED BY <1>1, <1>2, <2>2 DEF Turns
<1>4. doing[v] \in Nat /\ doing[w] \in Nat
  BY <1>1, <1>2 DEF Turns
<1>5. ~Conflict(loop, doing[v], doing[w])
  BY <1>1, <1>2, <1>3, <1>4, TurnsApart
<1>6. Temp(v) # Temp(w)
  BY DEF Temp
<1> QED BY <1>5, <1>6

(* No two workers race, in a grid, in a temporary, or in the norms: what      *)
(* NoRace says of the turns that the workers run is true for every size of    *)
(* grid, every number of workers and every order of turns.                    *)
THEOREM TurnsDoNotRace == Spec => []NoRace
<1>1. Init => IInv
  BY Initially
<1>2. IInv /\ [Next]_vars => IInv'
  BY Inductive
<1>3. IInv => NoRace
  BY Sufficient
<1> QED BY <1>1, <1>2, <1>3, PTL DEF Spec
=============================================================================
