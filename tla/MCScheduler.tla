---------------------------- MODULE MCScheduler ----------------------------
(***************************************************************************)
(* The scheduler on a small instance.  A table of five entries is full     *)
(* after five registrations, so one more rebuilds it under the iterator.   *)
(***************************************************************************)
EXTENDS Scheduler, TLC

CONSTANTS a, b, c

MCSymmetry == Permutations({a, b, c})

=============================================================================
