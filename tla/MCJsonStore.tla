---------------------------- MODULE MCJsonStore ----------------------------
(***************************************************************************)
(* JsonRepository on a small instance: one or two processes on one file.   *)
(***************************************************************************)
EXTENDS JsonStore, TLC

CONSTANTS t1, t2, r1, r2, k1, k2, v1, v2

MCThread == {t1, t2}
MCOneProcess == [t \in MCThread |-> r1]
MCTwoProcesses == (t1 :> r1 @@ t2 :> r2)
MCKey == {k1, k2}
MCSymmetry == Permutations(MCKey)

=============================================================================
