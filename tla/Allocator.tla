----------------------------- MODULE Allocator ------------------------------
(***************************************************************************)
(* What an allocator promises its callers: an item is not handed out again *)
(* before it was given back.                                               *)
(***************************************************************************)
EXTENDS Naturals

CONSTANT Item
VARIABLE held    \* how many callers have each item

Init == held = [x \in Item |-> 0]

Take(x) == held[x] = 0 /\ held' = [held EXCEPT ![x] = 1]
Give(x) == held[x] = 1 /\ held' = [held EXCEPT ![x] = 0]

Next == \E x \in Item : Take(x) \/ Give(x)

Spec == Init /\ [][Next]_held
=============================================================================
