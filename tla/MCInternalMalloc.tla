-------------------------- MODULE MCInternalMalloc --------------------------
(* Instances of InternalMalloc for TLC. *)
EXTENDS InternalMalloc

(* One block size, contended for.                                             *)
OneBucket == {1}
OneSize == <<2>>
OneCapacity == <<4>>
=============================================================================
