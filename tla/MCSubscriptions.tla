--------------------------- MODULE MCSubscriptions ---------------------------
(***************************************************************************)
(* Subscriptions on a small instance: a plan with a trial and a dearer one *)
(* without, and first periods of one to three days.                        *)
(***************************************************************************)
EXTENDS Subscriptions, TLC

CONSTANTS basic, pro, c1, c2

MCPrice == basic :> 1 @@ pro :> 3
MCDays == basic :> {1, 3} @@ pro :> {2}
MCSymmetry == Permutations({c1, c2})

=============================================================================
