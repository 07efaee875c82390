------------------------------ MODULE Versions ------------------------------
(***************************************************************************)
(* What the migrations promise, whoever runs them and however often: the   *)
(* database goes up one version at a time, each version once, never down,  *)
(* and has the tables of every version it says it has.                     *)
(***************************************************************************)
EXTENDS Naturals

CONSTANTS
  Last,      \* the newest version
  Tables,    \* names of tables
  TablesOf   \* the tables each version adds

VARIABLES
  level,     \* the version of the database
  tables     \* the tables it has

Has(n) == \A v \in 1..n : TablesOf[v] \subseteq tables

\* Some tables may be there before the first version.
Init == level = 0 /\ tables \subseteq Tables

\* Tables come without a version too: from a migration that is not finished yet, or
\* from whoever else creates them.
Create(t) ==
  /\ tables' = tables \cup {t}
  /\ UNCHANGED level

Upgrade ==
  /\ level < Last
  /\ Has(level + 1)
  /\ level' = level + 1
  /\ UNCHANGED tables

Next == Upgrade \/ \E t \in Tables : Create(t)

Spec == Init /\ [][Next]_<<level, tables>>

=============================================================================
