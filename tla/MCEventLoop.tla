---------------------------- MODULE MCEventLoop ----------------------------
(***************************************************************************)
(* Instances of EventLoop for TLC: two journals are enough for merging and  *)
(* for a ready list longer than MaxEvents.                                  *)
(***************************************************************************)
EXTENDS EventLoopInv, TLC

Symmetric == Permutations(Journals)
============================================================================
