---------------------------- MODULE CilkProgram ----------------------------
(***************************************************************************)
(* A run of a Cilk program, as the scheduler sees it.  A frame is one      *)
(* activation of a function.  Its body is a sequence of frames to enter    *)
(* and of SYNCs: a member of Helper is a spawn helper, spawned (the body   *)
(* goes on beside it), any other frame is called (the body goes on after   *)
(* it).                                                                    *)
(***************************************************************************)
EXTENDS Naturals, Sequences

CONSTANTS Frame, Helper, Root, Body, SYNC

Instr == Frame \union {SYNC}

(* Every frame but the root is entered at one place; a body ends with no     *)
(* spawn left unsynced (the compiler syncs before a function returns); a     *)
(* spawn helper only calls.                                                  *)
ASSUME ProgramAssumption ==
  /\ Root \in Frame \ Helper /\ Helper \subseteq Frame /\ SYNC \notin Frame
  /\ Body \in [Frame -> Seq(Instr)]
  /\ \A f \in Frame \ {Root} :
       \E g \in Frame : \E i \in 1..Len(Body[g]) :
          /\ Body[g][i] = f
          /\ \A h \in Frame : \A j \in 1..Len(Body[h]) : Body[h][j] = f => h = g /\ j = i
  /\ \A g \in Frame : \A i \in 1..Len(Body[g]) :
       /\ Body[g][i] # Root
       /\ Body[g][i] \in Helper => \E j \in i+1..Len(Body[g]) : Body[g][j] = SYNC
  /\ \A h \in Helper : \A i \in 1..Len(Body[h]) : Body[h][i] \in Frame \ Helper

End(f) == Len(Body[f]) + 1      \* the return, behind the last instruction
Caller(f) == CHOOSE g \in Frame : \E i \in 1..Len(Body[g]) : Body[g][i] = f

(* A frame and its callers, up to the spawn helper (or root) that began them. *)
Stacklet[f \in Frame] ==
  IF f \in Helper \union {Root} THEN <<f>> ELSE <<f>> \o Stacklet[Caller(f)]
(* Callers lead to a spawn helper or the root, so that there is such a list.  *)
ASSUME StackletAssumption ==
  \A f \in Frame :
    /\ Stacklet[f] \in Seq(Frame)
    /\ Stacklet[f] = IF f \in Helper \union {Root} THEN <<f>> ELSE <<f>> \o Stacklet[Caller(f)]
=============================================================================
