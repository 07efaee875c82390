--------------------------- MODULE MCUnitOfWork ---------------------------
(***************************************************************************)
(* A unit of work over repositories of each kind, two of them in databases *)
(* of their own.                                                           *)
(***************************************************************************)
EXTENDS UnitOfWork, TLC

CONSTANTS memory, json, sqlite, other, file, otherFile

MCOrder == <<json, sqlite, memory, other>>

MCTwoDbs == (sqlite :> file @@ other :> otherFile)

=============================================================================
