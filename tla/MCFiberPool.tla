----------------------------- MODULE MCFiberPool -----------------------------
(* Two instances side by side: pools whose batches are split between the      *)
(* global pool and the system, and smaller ones with more in use at a time.   *)
EXTENDS FiberPool

CONSTANTS SmallCapacity, SmallMaxInUse

VARIABLE small    \* which of the two this is

Small == INSTANCE FiberPool WITH Capacity <- SmallCapacity, MaxInUse <- SmallMaxInUse

MCInit == small \in BOOLEAN /\ IF small THEN Small!Init ELSE Init
MCNext == UNCHANGED small /\ IF small THEN Small!Next ELSE Next
MCSpec == MCInit /\ [][MCNext]_<<vars, small>>

(* BatchesApart of either instance: however its operations alternate, a       *)
(* worker does half a pool of them between two batches.                       *)
HalfAPoolApart == [][IF small THEN Small!Apart ELSE Apart]_<<vars, small>>
=============================================================================
