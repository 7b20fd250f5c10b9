------------------------------- MODULE PSort --------------------------------
(***************************************************************************)
(* The driver of the two parallel sorts: main fills an array, and sorts it *)
(* TIMING_COUNT times with each of the sorts that the command line asks    *)
(* for, with a new array every time.  A step of the sort in progress is a  *)
(* step of CilkSort or of PthreadSort.                                     *)
(***************************************************************************)
EXTENDS PthreadSort

CONSTANT TIMING_COUNT

C == INSTANCE CilkSort

VARIABLES
  todo,       \* the sorts to come, the one in progress first
  sorting     \* call_cilk_sort or call_pthread_sort waits for its sort

driver == <<todo, sorting>>

Rounds(sort) == [i \in 1..TIMING_COUNT |-> sort]
None == <<>>

(* run_cilk and run_pthread. *)
MainInit ==
  /\ array \in Input /\ mem = Fresh /\ tasks = None
  /\ \E run_cilk, run_pthread \in BOOLEAN :
       todo = (IF run_cilk THEN Rounds("cilk") ELSE None) \o
              (IF run_pthread THEN Rounds("pthread") ELSE None)
  /\ sorting = FALSE

Begin ==
  /\ ~sorting /\ todo # None
  /\ \E root \in IF Head(todo) = "cilk" THEN {C!Call(0, 0, N)} ELSE Roots : tasks' = (<<>> :> root)
  /\ sorting' = TRUE
  /\ UNCHANGED <<array, mem, todo>>

CilkStep ==
  /\ sorting /\ Head(todo) = "cilk"
  /\ \E p \in DOMAIN tasks : C!Step(p)
  /\ UNCHANGED driver

PthreadStep ==
  /\ sorting /\ Head(todo) = "pthread"
  /\ \E p \in DOMAIN tasks : Step(p)
  /\ UNCHANGED driver

(* The result is checked and freed, and the array is filled again.            *)
Finish ==
  /\ sorting /\ DOMAIN tasks = {}
  /\ array' \in Input /\ mem' = Fresh
  /\ todo' = Tail(todo) /\ sorting' = FALSE
  /\ UNCHANGED tasks

Exited == todo = None /\ UNCHANGED <<vars, driver>>

MainNext == Begin \/ CilkStep \/ PthreadStep \/ Finish \/ Exited

(* The runtime's workers, the threads and main run what there is to run.      *)
MainSpec ==
  MainInit /\ [][MainNext]_<<vars, driver>>
    /\ WF_<<vars, driver>>(Begin \/ CilkStep \/ PthreadStep \/ Finish)

-----------------------------------------------------------------------------
(* What check_result finds is always a success: either sort returns the keys  *)
(* of its input in order, whatever runs in parallel, and in spite of the two  *)
(* threads of pthread_sort that merge the same elements into the same cells.  *)
ResultSorted == sorting => Sorted

(* In cilk_sort no call is about to write a cell that another is about to     *)
(* read or write: a merge's parts are disjoint, cilk_sync waits for the       *)
(* spawned half, and no temporary is freed while a merge reads it.            *)
CilkNoRace == sorting /\ Head(todo) = "cilk" => NoRace

(* The same of pthread_sort, whose parallel merge gives the new thread a part *)
(* of its own, says the comment on it.                                        *)
PthreadNoRace == sorting /\ Head(todo) = "pthread" => NoRace

(* The program ends: neither the merges that swap their parts and call        *)
(* themselves, nor empty parts, make a sort recur for ever.                   *)
Terminates == <>(todo = None)
=============================================================================
