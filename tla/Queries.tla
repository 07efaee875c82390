------------------------------ MODULE Queries ------------------------------
(***************************************************************************)
(* One column of a memory repository and of a SQLite repository that       *)
(* receive the same calls, and what find and find_with_conditions find in  *)
(* each: one compares the values of Python, the other their texts.         *)
(*                                                                         *)
(* A value is the rank it has among the values of its type, and the rank   *)
(* its text has among texts.  Strings, numbers and dates are ranked alike; *)
(* a Decimal is not, and has a text for each way to write it.  CONTAINS, a *)
(* substring to one and a pattern to the other, is left out.               *)
(***************************************************************************)
EXTENDS SequencesExt, Integers

CONSTANTS
  RowKey,   \* keys of entities
  Column,   \* the values a column may have, by type: sets of [rank |-> _, text |-> _]
  None      \* None, and NULL

\* No two values of a column have one text.
ASSUME QueriesAssumption ==
  /\ Column # {}
  /\ \A col \in Column :
       /\ None \notin col
       /\ \A v \in col : v.text # None
       /\ \A v, w \in col : v.text = w.text => v = w

VARIABLES
  column,
  memory,     \* the entities of the memory repository in the order of its dict
  database    \* the rows of the table in the order of their rowids

queriesVars == <<column, memory, database>>

Row(key, value) == [key |-> key, value |-> value]

\* _to_sql_value: what the database holds of a value.
Stored(value) == IF value = None THEN None ELSE value.text

\* _from_sql_value: the value that was stored as a text.
Loaded(text) == IF text = None THEN None ELSE CHOOSE v \in column : v.text = text

Values == column \cup {None}

QueriesInit ==
  /\ memory = <<>>
  /\ database = <<>>

KeysOf(table) == {table[k].key : k \in DOMAIN table}

AddRow(key, value) ==
  /\ key \notin KeysOf(memory)
  /\ memory' = Append(memory, Row(key, value))
  /\ database' = Append(database, Row(key, Stored(value)))
  /\ UNCHANGED column

With(table, key, value) ==
  [k \in DOMAIN table |-> IF table[k].key = key THEN Row(key, value) ELSE table[k]]

\* A dict and a table keep the place of what is updated.
UpdateRow(key, value) ==
  /\ key \in KeysOf(memory)
  /\ memory' = With(memory, key, value)
  /\ database' = With(database, key, Stored(value))
  /\ UNCHANGED column

PlaceOf(table, key) == CHOOSE k \in DOMAIN table : table[k].key = key

Without(table, key) == RemoveAt(table, PlaceOf(table, key))

DeleteRow(key) ==
  /\ key \in KeysOf(memory)
  /\ memory' = Without(memory, key)
  /\ database' = Without(database, key)
  /\ UNCHANGED column

QueriesNext ==
  \E key \in RowKey :
    \/ DeleteRow(key)
    \/ \E value \in Values : AddRow(key, value) \/ UpdateRow(key, value)

(***************************************************************************)
(* Conditions                                                              *)
(***************************************************************************)

Ordering == {"GT", "LT", "GTE", "LTE"}

Compare(operator, x, y) ==
  CASE operator = "EQ" -> x = y
    [] operator = "NE" -> x # y
    [] operator = "GT" -> x > y
    [] operator = "LT" -> x < y
    [] operator = "GTE" -> x >= y
    [] operator = "LTE" -> x <= y

\* _matches: None equals None and nothing else, and is not ordered.
Matches(value, operator, target) ==
  IF None \in {value, target}
  THEN operator \in {"EQ", "NE"} /\ (operator = "EQ") = (value = target)
  ELSE Compare(operator, value.rank, target.rank)

MatchesNull(text, operator, target) ==
  IF None \in {text, target} THEN operator = "NE" /\ text # target
  ELSE Compare(operator, text, Stored(target))

\* A condition of a WHERE clause: nothing compares with NULL.
Selects(text, operator, target) ==
  None \notin {text, target} /\ Compare(operator, text, Stored(target))

\* The rows at some places of a table, in their order.
At(table, places) ==
  LET order == SetToSortSeq(places, LAMBDA i, j : i < j) IN [n \in DOMAIN order |-> table[order[n]]]

\* What find and find_with_conditions find.
Found(operator, target) == {k \in DOMAIN memory : Matches(memory[k].value, operator, target)}

\* _row_to_entity of every row.
Entities == [k \in DOMAIN database |-> Row(database[k].key, Loaded(database[k].value))]

Selected(operator, target) == {k \in DOMAIN database : Selects(database[k].value, operator, target)}

Select(operator, target) == At(Entities, Selected(operator, target))

\* IN, of some values; a Decimal among them raises in the database.
FoundIn(targets) == {k \in DOMAIN memory : \E v \in targets : Matches(memory[k].value, "EQ", v)}

SelectedIn(targets) == {k \in DOMAIN database : \E v \in targets : Selects(database[k].value, "EQ", v)}

SelectIn(targets) == At(Entities, SelectedIn(targets))

(***************************************************************************)
(* Properties                                                              *)
(***************************************************************************)

QueriesTypeOK ==
  /\ column \in Column
  /\ \A k \in DOMAIN memory : memory[k].key \in RowKey /\ memory[k].value \in Values
  /\ \A k \in DOMAIN database : database[k].key \in RowKey

Alike(a, b) == \A operator \in Ordering \cup {"EQ"} : Compare(operator, a.rank, b.rank) = Compare(operator, a.text, b.text)

\* Those of some places whose entities have a value.
Present(places) == {k \in places : memory[k].value # None}

\* Both repositories return the same entities in the same order, whatever was added,
\* updated and deleted: all of them, and those a condition is true of, for values whose
\* texts compare as they do, but for entities without a value, which the database never
\* finds.  Of a Decimal it may miss those that are written in another way.
QueriesAgree ==
  /\ memory = Entities
  /\ \A target \in Values, operator \in Ordering \cup {"EQ", "NE"} :
       LET alike == target # None => \A k \in DOMAIN memory : memory[k].value # None => Alike(memory[k].value, target)
       IN /\ alike /\ (target = None => operator \notin Ordering) =>
               Select(operator, target) = At(memory, IF target = None THEN {} ELSE Present(Found(operator, target)))
          /\ operator = "EQ" => Selected(operator, target) \subseteq Found(operator, target)
  /\ \A targets \in SUBSET Values :
       (\A v \in targets \ {None}, w \in column : Alike(w, v)) => SelectIn(targets) = At(memory, Present(FoundIn(targets)))

=============================================================================
