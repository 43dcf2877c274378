------------------------------- MODULE Tables -------------------------------
(***************************************************************************)
(* The decision tables that scaffold.py generates, and the reference's     *)
(* LoanLimitTable they were taken from: rows in the order of their csv     *)
(* file, each of a version with the date it takes effect.  A row of a      *)
(* range table stands for the values from its min up to its max, a row of  *)
(* an exact table for the value min alone.                                 *)
(***************************************************************************)
EXTENDS Integers, Sequences

CONSTANT None   \* a max left blank: no upper bound

ASSUME NoneIsNoNumber == None \notin Int

Rule(versions, dates, outs) ==
  [version : versions, date : dates, min : Nat, max : Nat \cup {None}, out : outs]

Contains(rule, x) ==
  /\ rule.min <= x
  /\ rule.max = None \/ x < rule.max

RowsOf(rules, version) == {i \in DOMAIN rules : rules[i].version = version}

\* The order of sorted(rows, key=min), which keeps equal rows as they are.
Before(rules, i, j) ==
  \/ rules[i].min < rules[j].min
  \/ rules[i].min = rules[j].min /\ i < j

\* Row j comes next after row i among these rows, as zip(rows, rows[1:]) pairs them.
Adjacent(rules, rows, i, j) ==
  /\ Before(rules, i, j)
  /\ ~\E k \in rows : Before(rules, i, k) /\ Before(rules, k, j)

First(rules, rows) == {i \in rows : ~\E j \in rows : Before(rules, j, i)}
Last(rules, rows) == {i \in rows : ~\E j \in rows : Before(rules, i, j)}

\* Mutant: overlaps are not looked for.
TilesWithOverlaps(rules, rows) ==
  /\ \A i \in First(rules, rows) : rules[i].min = 0
  /\ \A i, j \in rows : Adjacent(rules, rows, i, j) =>
       rules[i].max # None /\ rules[j].min <= rules[i].max
  /\ \A i \in Last(rules, rows) : rules[i].max = None

\* The rows start at 0, neither leave a gap nor overlap, and end open.
Tiles(rules, rows) ==
  /\ \A i \in First(rules, rows) : rules[i].min = 0
  /\ \A i, j \in rows : Adjacent(rules, rows, i, j) =>
       rules[i].max # None /\ rules[j].min = rules[i].max
  /\ \A i \in Last(rules, rows) : rules[i].max = None

\* The versions check_completeness complains of.
CheckCompleteness(rules) ==
  {v \in {rules[i].version : i \in DOMAIN rules} : ~Tiles(rules, RowsOf(rules, v))}

-----------------------------------------------------------------------------
InEffect(rules, as_of) == {i \in DOMAIN rules : rules[i].date <= as_of}

\* Mutant: a table has the version of its last row.
ActiveVersionOfLastRow(rules, as_of) == rules[Len(rules)].version

\* Mutant: of two versions with one date the later in the file is in force.
ActiveVersionOfLastSuch(rules, as_of) ==
  LET eligible == InEffect(rules, as_of)
      latest == {i \in eligible : \A j \in eligible : rules[j].date <= rules[i].date}
  IN  rules[CHOOSE i \in latest : \A j \in latest : j <= i].version

\* The version of the first row with the latest date in effect.
ActiveVersion(rules, as_of) ==
  LET eligible == InEffect(rules, as_of)
      latest == {i \in eligible : \A j \in eligible : rules[j].date <= rules[i].date}
  IN  rules[CHOOSE i \in latest : \A j \in latest : i <= j].version

ActiveRows(rules, as_of) ==
  IF InEffect(rules, as_of) = {} THEN {} ELSE RowsOf(rules, ActiveVersion(rules, as_of))

NoMatchingRow == 0

FirstInFile(rows) == IF rows = {} THEN NoMatchingRow ELSE CHOOSE i \in rows : \A j \in rows : i <= j

\* A range table: the first row, by min, that contains the value.
Lookup(rules, x, as_of) ==
  LET hits == {i \in ActiveRows(rules, as_of) : Contains(rules[i], x)}
  IN  IF hits = {} THEN NoMatchingRow ELSE CHOOSE i \in First(rules, hits) : TRUE

\* Mutant: the table is kept as a dict, where a later row replaces an earlier.
ExactLookupLastRow(rules, x, as_of) ==
  LET hits == {i \in ActiveRows(rules, as_of) : rules[i].min = x}
  IN  IF hits = {} THEN NoMatchingRow ELSE CHOOSE i \in hits : \A j \in hits : j <= i

\* A lookup or flag table: the first row of the file with the very value.
ExactLookup(rules, x, as_of) ==
  FirstInFile({i \in ActiveRows(rules, as_of) : rules[i].min = x})

\* A range table of several inputs (here one): the first row of the file that
\* contains the value.  Its rows are not sorted.
MultiRangeLookup(rules, x, as_of) ==
  FirstInFile({i \in ActiveRows(rules, as_of) : Contains(rules[i], x)})

-----------------------------------------------------------------------------
(* What it means that rows tile the values from 0 on.                      *)

Answered(rules, rows, x) ==
  \E i \in rows : Contains(rules[i], x) /\ \A j \in rows \ {i} : ~Contains(rules[j], x)

NonEmptyRows(rules, rows) ==
  \A i \in rows : rules[i].max = None \/ rules[i].min < rules[i].max

\* The ends of the rows, and 0, stand for all the values between them.
Corners(rules, rows) ==
  {0} \cup {rules[i].min : i \in rows} \cup ({rules[i].max : i \in rows} \ {None})
=============================================================================
