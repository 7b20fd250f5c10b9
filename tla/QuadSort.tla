------------------------------ MODULE QuadSort -------------------------------
(***************************************************************************)
(* The benchmark cilksort, compiled, and translated by hand: the quarters  *)
(* of an array are sorted in place, merged in pairs into tmp, and from     *)
(* there back into the array.  A merge of two long parts is split where    *)
(* the middle element of the longer would be in the other.                 *)
(***************************************************************************)
EXTENDS Strands

CONSTANTS size, MERGESIZE, QUICKSIZE, INSERTIONSIZE, TIMING_COUNT, HAND

(* Slips: plausible mistakes in the definitions below. *)

(* The shorter part may be the first. *)
LongerFirst_Not(t) == t

-----------------------------------------------------------------------------
(* What an array holds, and the cells of a part of it. *)
Row(mem, name) == [i \in 0..size - 1 |-> Value(mem, <<name, i>>)]
Segment(name, low, high) == {<<name, i>> : i \in low..high}

med3(a, b, c) == CHOOSE m \in {a, b, c} :
  \E x, y \in {a, b, c} : {m, x, y} = {a, b, c} /\ x <= m /\ m <= y

(* seqpart: elements to exchange are looked for from l up and from h down.    *)
(* Nothing stops the search at the ends of the part that is sorted but that d *)
(* is not defined beyond.  p is where the lower part ends.                    *)
RECURSIVE Partitioned(_, _, _, _, _)
Partitioned(d, pivot, l, h, high) ==
  LET up == Min({i \in DOMAIN d : i >= l /\ d[i] >= pivot})
      down == Max({i \in DOMAIN d : i <= h /\ d[i] <= pivot})
  IN IF up >= down THEN [d |-> d, p |-> IF down < high THEN down ELSE down - 1]
     ELSE Partitioned([d EXCEPT ![up] = d[down], ![down] = d[up]], pivot, up + 1, down - 1, high)
seqpart(d, low, high) ==
  Partitioned(d, med3(d[low], d[high], d[low + (high - low) \div 2]), low, high, high)

insertion_sort(d, low, high) ==
  LET sorted == SortSeq([i \in 1..high - low + 1 |-> d[low + i - 1]], <)
  IN [i \in DOMAIN d |-> IF i \in low..high THEN sorted[i - low + 1] ELSE d[i]]

RECURSIVE seqquick(_, _, _)
seqquick(d, low, high) ==
  IF high - low >= INSERTIONSIZE
  THEN LET part == seqpart(d, low, high)
       IN seqquick(seqquick(part.d, low, part.p), part.p + 1, high)
  ELSE insertion_sort(d, low, high)

(* seqmerge: the heads are i and j. *)
RECURSIVE Merged(_, _, _, _, _)
Merged(d, i, high1, j, high2) ==
  IF i > high1 THEN [k \in 1..high2 - j + 1 |-> d[j + k - 1]]
  ELSE IF j > high2 THEN [k \in 1..high1 - i + 1 |-> d[i + k - 1]]
  ELSE IF d[i] < d[j] THEN <<d[i]>> \o Merged(d, i + 1, high1, j, high2)
  ELSE <<d[j]>> \o Merged(d, i, high1, j + 1, high2)

(* The elements that binsplit looks at on its way to the place of val.        *)
RECURSIVE Probes(_, _, _, _)
Probes(d, val, low, high) ==
  LET mid == low + (high - low + 1) \div 2
  IN IF low = high THEN <<low>>
     ELSE <<mid>> \o IF val <= d[mid] THEN Probes(d, val, low, mid - 1) ELSE Probes(d, val, mid, high)
binsplit(d, val, low, high) ==
  LET i == Last(Probes(d, val, low, high)) IN IF d[i] > val THEN i - 1 ELSE i

-----------------------------------------------------------------------------
Merge(src, low1, high1, low2, high2, dest, at) ==
  Call("cilkmerge", [src |-> src, low1 |-> low1, high1 |-> high1, low2 |-> low2, high2 |-> high2,
                     dest |-> dest, to |-> at])
Sort(low, length) == Call("cilksort", [low |-> low, length |-> length])

LongerFirst(t) ==
  IF t.high2 - t.low2 > t.high1 - t.low1
  THEN [t EXCEPT !.low1 = t.low2, !.high1 = t.high2, !.low2 = t.low1, !.high2 = t.high1]
  ELSE t

split1(u) == (u.high1 - u.low1 + 1) \div 2 + u.low1
split2(u, mem) == binsplit(Row(mem, u.src), Value(mem, <<u.src, split1(u)>>), u.low2, u.high2)
lowsize(u, mem) == split1(u) - u.low1 + split2(u, mem) - u.low2

cilkmerge(t, mem) ==
  LET u == LongerFirst(t)
      s1 == split1(u)
      s2 == split2(u, mem)
  IN IF u.high1 < u.low1 THEN <<Strand("memcpy")>>
     ELSE IF u.high2 - u.low2 < MERGESIZE THEN <<Strand("seqmerge")>>
     ELSE <<Strand("split")>>
          \o Fork(<<Merge(u.src, u.low1, s1 - 1, u.low2, s2, u.dest, u.to),
                    Merge(u.src, s1 + 1, u.high1, s2 + 1, u.high2, u.dest, u.to + lowsize(u, mem) + 2)>>)

(* The parts of tmp lie as those of the array do. *)
cilksort(t) ==
  LET quarter == t.length \div 4
      A == t.low
      B == A + quarter
      C == B + quarter
      D == C + quarter
      end == t.low + t.length - 1
  IN IF t.length < QUICKSIZE THEN <<Strand("seqquick")>>
     ELSE Fork(<<Sort(A, quarter), Sort(B, quarter), Sort(C, quarter), Sort(D, t.length - 3 * quarter)>>)
          \o Fork(<<Merge("array", A, B - 1, B, C - 1, "tmp", A),
                    Merge("array", C, D - 1, D, end, "tmp", C)>>)
          \o Fork(<<Merge("tmp", A, C - 1, C, end, "array", A)>>)

Does(t, step, mem) ==
  LET u == LongerFirst(t)
      d == Row(mem, t.src)
      Inputs == Segment(u.src, u.low1, u.high1) \union Segment(u.src, u.low2, u.high2)
      Into(s) == [c \in Segment(u.dest, u.to, u.to + Len(s) - 1) |-> s[c[2] - u.to + 1]]
  IN CASE step = "memcpy" ->      \* a negative count is a very large one
            IF u.high2 < u.low2 THEN Access({<<u.src, size>>}, <<>>)
            ELSE Access(Segment(u.src, u.low2, u.high2 - 1),
                        Into([k \in 1..u.high2 - u.low2 |-> d[u.low2 + k - 1]]))
       [] step = "seqmerge" -> Access(Inputs, Into(Merged(d, u.low1, u.high1, u.low2, u.high2)))
       [] step = "split" ->
            LET val == d[split1(u)]
            IN Access({<<u.src, i>> : i \in {split1(u)} \union ToSet(Probes(d, val, u.low2, u.high2))},
                      <<u.dest, u.to + lowsize(u, mem) + 1>> :> val)
       [] step = "seqquick" ->
            LET cells == Segment("array", t.low, t.low + t.length - 1)
                sorted == seqquick([i \in t.low..t.low + t.length - 1 |-> Value(mem, <<"array", i>>)],
                                   t.low, t.low + t.length - 1)
            IN Access(cells, [c \in cells |-> sorted[c[2]]])
       [] step = "fill_array" ->
            LET scrambled == FoldLeft(LAMBDA a, i : [a EXCEPT ![i] = a[Random(i) % size],
                                                              ![Random(i) % size] = a[i]],
                                      [i \in 0..size - 1 |-> i], [i \in 1..size |-> i - 1])
            IN Access({}, [c \in Segment("array", 0, size - 1) |-> scrambled[c[2]]])

-----------------------------------------------------------------------------
Start == Call("main", <<>>)
main == FlattenSeq([i \in 1..TIMING_COUNT |-> <<Strand("fill_array")>> \o Fork(<<Sort(0, size)>>)])
Memory == [c \in Segment("array", 0, size - 1) \union Segment("tmp", 0, size - 1) |-> size - c[2]]

Translated(items) == IF HAND THEN Compiled(items) ELSE items
Body(t, mem) ==
  CASE t.f = "main"         -> main
    [] t.f = "cilksort"     -> Translated(cilksort(t))
    [] t.f = "cilkmerge"    -> Translated(cilkmerge(t, mem))
    [] t.f = "spawn_helper" -> spawn_helper(t)

(* The check of main. *)
Right(mem) == \A i \in 0..size - 1 : mem[<<"array", i>>] = i
=============================================================================
