-------------------------- MODULE MCRepositories --------------------------
(***************************************************************************)
(* The repositories on a small instance: two customers and two payments of *)
(* an invoice, two callers and two processes that migrate the database.    *)
(***************************************************************************)
EXTENDS Repositories, TLC

CONSTANTS c1, c2, m1, m2

MCIds == [customer |-> 1..2, subscription |-> {1}, invoice |-> {1}, payment |-> 1..2]

MCSymmetry == Permutations({c1, c2}) \cup Permutations({m1, m2})

=============================================================================
