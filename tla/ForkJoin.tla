------------------------------ MODULE ForkJoin ------------------------------
(***************************************************************************)
(* What a Cilk program may expect of any scheduler: the order in which the *)
(* instructions of its frames take effect.                                 *)
(***************************************************************************)
EXTENDS CilkProgram

VARIABLE at     \* the next instruction of each frame; 0 before it is entered

Over(f) == End(f) + 1
Returned(f) == at[f] = Over(f)

TypeOK == at \in [Frame -> Nat] /\ \A f \in Frame : at[f] <= Over(f)

Init == at = [f \in Frame |-> IF f = Root THEN 1 ELSE 0]

(* A body does not go past a call before the called frame has returned. *)
Active(f) ==
  /\ at[f] \in 1..End(f)
  /\ at[f] > 1 => \/ Body[f][at[f] - 1] \in Helper \union {SYNC}
                  \/ Returned(Body[f][at[f] - 1])

Spawned(f) == {Body[f][i] : i \in 1..at[f] - 1} \intersect Helper

Enter(f) ==
  /\ Active(f) /\ at[f] < End(f)
  /\ Body[f][at[f]] \in Frame
  /\ at' = [at EXCEPT ![f] = @ + 1, ![Body[f][at[f]]] = 1]

(* A sync waits for every frame spawned so far. *)
Sync(f) ==
  /\ Active(f) /\ at[f] < End(f)
  /\ Body[f][at[f]] = SYNC
  /\ \A g \in Spawned(f) : Returned(g)
  /\ at' = [at EXCEPT ![f] = @ + 1]

Return(f) ==
  /\ Active(f) /\ at[f] = End(f)
  /\ at' = [at EXCEPT ![f] = @ + 1]

Next == \E f \in Frame : Enter(f) \/ Sync(f) \/ Return(f)

Spec == Init /\ [][Next]_at
=============================================================================
