---------------------------- MODULE MCScheduler ----------------------------
(* Instances of Scheduler.  A program is a finite tree of frames; the ones    *)
(* here are the smallest with the shapes the closure tree can take.           *)
EXTENDS Scheduler, TLC

CONSTANTS main, fa, fb, fc, h1, h2, h3, h4

(* A spawned function that spawns, then calls its way to a function that      *)
(* spawns: stealing the continuation of fb makes full frames of h1, fa, fc    *)
(* and fb, and fa syncs twice.                                                *)
NestedFrame == {main, h1, fa, h2, fc, fb, h3, h4}
NestedHelper == {h1, h2, h3, h4}
NestedBody == (main :> <<h1, SYNC>>) @@ (h1 :> <<fa>>) @@ (fa :> <<h2, fc, SYNC, h4, SYNC>>)
           @@ (h2 :> <<>>) @@ (fc :> <<fb>>) @@ (fb :> <<h3, SYNC>>) @@ (h3 :> <<>>)
           @@ (h4 :> <<>>)

(* Three spawns before a sync, so that a frame is stolen several times and    *)
(* its children return in any order, one of them after stealing and syncing   *)
(* of its own; then a second sync that must find everything reset.            *)
WideFrame == {main, h1, fa, h2, fb, h3, h4}
WideHelper == {h1, h2, h3, h4}
WideBody == (main :> <<h1, h2, SYNC, h3, SYNC>>) @@ (h1 :> <<fa>>) @@ (fa :> <<h4, fb, SYNC>>)
         @@ (fb :> <<>>) @@ (h2 :> <<>>) @@ (h3 :> <<>>) @@ (h4 :> <<>>)
=============================================================================
