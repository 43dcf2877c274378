----------------------------- MODULE Valuation -----------------------------
(***************************************************************************)
(* The reference's valuation context on top of its regulation context: one *)
(* complex behind the analysis gate, kept by approach A (gate_service_a)   *)
(* and by approach B (gate_service_b) side by side as the tests do, with   *)
(* the loan limit asked of the decision table through the adapter that     *)
(* composition/wiring.py builds from the table, a price and a date.        *)
(***************************************************************************)
EXTENDS Tables

CONSTANTS
  Rows,      \* the rows somebody appends to loan_limit.csv
  MaxRows,   \* bound: rows of the file
  Dates,
  Prices,    \* what a complex costs
  Counts,    \* numbers of recent trades
  Loans,
  Equities

ASSUME RowsAreRules == Rows \subseteq Rule({r.version : r \in Rows}, Dates, Nat)
ASSUME AmountsAreNatural ==
  /\ Dates \subseteq Int
  /\ Prices \cup Counts \cup Loans \cup Equities \subseteq Nat
  /\ MaxRows \in Nat

MinTrades == 3

ALLOWED == [LOCKED |-> {"READY"}, READY |-> {"ANALYZED", "LOCKED"}, ANALYZED |-> {"READY", "LOCKED"}]
GateStates == DOMAIN ALLOWED

VARIABLES
  csv,     \* loan_limit.csv
  wired,   \* the adapter: the table it was given, the price and the date
  trades,  \* recent trades of the complex
  gateA,   \* the gate of approach A
  gateB,   \* and of approach B
  last     \* the last call, if it was an analysis: its loan, how A and B ended

vars == <<csv, wired, trades, gateA, gateB, last>>

NoCall == [loan |-> None, a |-> "none", b |-> "none"]

-----------------------------------------------------------------------------
\* max_loan_for through the adapter: the row that answers.
LimitRow == Lookup(wired.table, wired.price, wired.asOf)

\* Why there is no limit, if there is none: price_of has no such complex, or
\* no row of the table matches.
NoLimitBecause ==
  IF wired.price = None THEN "no price"
  ELSE IF LimitRow = NoMatchingRow THEN "no band"
  ELSE "none"

MaxLoan == IF NoLimitBecause = "none" THEN wired.table[LimitRow].out ELSE None

Transition(from, to) == IF to \in ALLOWED[from] THEN to ELSE from

IsUnlockable == trades >= MinTrades

\* Mutant: the relock of an analysed gate is forgotten.
ReevaluateAReadyOnly(state) ==
  IF IsUnlockable /\ state = "LOCKED" THEN Transition(state, "READY")
  ELSE IF ~IsUnlockable /\ state = "READY" THEN Transition(state, "LOCKED")
  ELSE state

ReevaluateA(state) ==
  IF IsUnlockable /\ state = "LOCKED" THEN Transition(state, "READY")
  ELSE IF ~IsUnlockable /\ state \in {"READY", "ANALYZED"} THEN Transition(state, "LOCKED")
  ELSE state

ReevaluateB(state) ==
  LET target == IF IsUnlockable THEN "READY" ELSE "LOCKED"
  IN  IF target = state THEN state ELSE Transition(state, target)

\* What breakeven_rate and leverage_roe refuse.
Formulas(price, equity) ==
  IF price <= 0 THEN "price" ELSE IF equity <= 0 THEN "equity" ELSE "done"

\* Mutant: the limit is asked for and not compared.
AnalyzeAUnlimited(state, loan, price, equity) ==
  IF state # "READY" THEN "not ready"
  ELSE IF NoLimitBecause # "none" THEN NoLimitBecause
  ELSE Formulas(price, equity)

\* Mutant: A leaves the gate to mark_analyzed, after the formulas.
AnalyzeAWithoutGate(state, loan, price, equity) ==
  IF NoLimitBecause # "none" THEN NoLimitBecause
  ELSE IF loan > MaxLoan THEN "over limit"
  ELSE IF Formulas(price, equity) = "done" /\ state # "READY" THEN "illegal transition"
  ELSE Formulas(price, equity)

\* A looks at the gate before it asks for the limit ...
AnalyzeA(state, loan, price, equity) ==
  IF state # "READY" THEN "not ready"
  ELSE IF NoLimitBecause # "none" THEN NoLimitBecause
  ELSE IF loan > MaxLoan THEN "over limit"
  ELSE Formulas(price, equity)

\* ... and B asks before it looks.
AnalyzeB(state, loan, price, equity) ==
  IF NoLimitBecause # "none" THEN NoLimitBecause
  ELSE IF state # "READY" THEN "not ready"
  ELSE IF loan > MaxLoan THEN "over limit"
  ELSE Formulas(price, equity)

Analyzed(state, outcome) == IF outcome = "done" THEN Transition(state, "ANALYZED") ELSE state

-----------------------------------------------------------------------------
Init ==
  /\ csv = <<>>
  /\ wired \in [table : {<<>>}, price : {None}, asOf : Dates]
  /\ trades \in Counts
  /\ gateA = "LOCKED"
  /\ gateB = "LOCKED"
  /\ last = NoCall

AppendRow(r) ==
  /\ Len(csv) < MaxRows
  /\ csv' = Append(csv, r)
  /\ last' = NoCall
  /\ UNCHANGED <<wired, trades, gateA, gateB>>

\* The composition root loads the file and fixes price and date.
Wire(price, date) ==
  /\ wired' = [table |-> csv, price |-> price, asOf |-> date]
  /\ last' = NoCall
  /\ UNCHANGED <<csv, trades, gateA, gateB>>

Trade(n) ==
  /\ trades' = n
  /\ last' = NoCall
  /\ UNCHANGED <<csv, wired, gateA, gateB>>

Reevaluate ==
  /\ gateA' = ReevaluateA(gateA)
  /\ gateB' = ReevaluateB(gateB)
  /\ last' = NoCall
  /\ UNCHANGED <<csv, wired, trades>>

Analyze(loan, price, equity) ==
  LET a == AnalyzeA(gateA, loan, price, equity)
      b == AnalyzeB(gateB, loan, price, equity)
  IN  /\ gateA' = Analyzed(gateA, a)
      /\ gateB' = Analyzed(gateB, b)
      /\ last' = [loan |-> loan, a |-> a, b |-> b]
      /\ UNCHANGED <<csv, wired, trades>>

Next ==
  \/ \E r \in Rows : AppendRow(r)
  \/ \E p \in Prices \cup {None}, d \in Dates : Wire(p, d)
  \/ \E n \in Counts : Trade(n)
  \/ Reevaluate
  \/ \E l \in Loans, p \in Prices, e \in Equities : Analyze(l, p, e)

Spec == Init /\ [][Next]_vars

-----------------------------------------------------------------------------
LimitErrors == {"no price", "no band"}
Outcomes == LimitErrors \cup {"none", "not ready", "over limit", "price", "equity", "done"}

\* The adapter keeps a table that was the file's at some time.
TypeOK ==
  /\ csv \in Seq(Rows) /\ Len(csv) <= MaxRows
  /\ wired.table \in Seq(Rows) /\ wired.price \in Prices \cup {None} /\ wired.asOf \in Dates
  /\ trades \in Counts
  /\ {gateA, gateB} \subseteq GateStates
  /\ last.loan \in Loans \cup {None} /\ {last.a, last.b} \subseteq Outcomes

Versions(rules) == {rules[i].version : i \in DOMAIN rules}

\* check_completeness is right about a version whose rows are no empty
\* intervals: it has nothing to complain of exactly if every price from 0 on
\* falls into exactly one row (scaffold.py:309).
CompletenessIsExact ==
  \A v \in Versions(csv) :
    LET rows == RowsOf(csv, v)
    IN  NonEmptyRows(csv, rows) =>
          (v \notin CheckCompleteness(csv) <=> \A x \in Corners(csv, rows) : Answered(csv, rows, x))

\* What the tables answer for the date d, before and after a row is appended.
SameAnswers(d) ==
  \A x \in Prices : /\ Lookup(csv', x, d) = Lookup(csv, x, d)
                    /\ ExactLookup(csv', x, d) = ExactLookup(csv, x, d)
                    /\ MultiRangeLookup(csv', x, d) = MultiRangeLookup(csv, x, d)

KeepsGivenAnswers(d) ==
  \A x \in Prices :
    /\ ExactLookup(csv, x, d) \in {NoMatchingRow, ExactLookup(csv', x, d)}
    /\ MultiRangeLookup(csv, x, d) \in {NoMatchingRow, MultiRangeLookup(csv', x, d)}

\* From d on the row puts another version in force.
Supersedes(new, d) ==
  /\ new.date <= d /\ new.version # ActiveVersion(csv, d)
  /\ \A i \in InEffect(csv, d) : csv[i].date < new.date

\* A version that takes effect later leaves the answers for the time before
\* alone, and any row but the first of a newer version leaves the answers of the
\* tables that take the first row of the file: one more of the version in force,
\* or of another version that has the same date (DESIGN-v0.5.md:243).
AppendingKeepsAnswers ==
  [][csv' # csv =>
       LET new == csv'[Len(csv')]
       IN  \A d \in Dates :
             /\ new.version \notin Versions(csv) /\ d < new.date => SameAnswers(d)
             /\ InEffect(csv, d) # {} /\ ~Supersedes(new, d) => KeepsGivenAnswers(d)]_vars

\* If every version of the adapter's table has a date of its own and the table
\* is complete, an analysed loan is within the limit of every row that says
\* anything of the price, among the rows in effect last by the adapter's date.
OneDateEach(rules) ==
  \A i, j \in DOMAIN rules : rules[i].version = rules[j].version <=> rules[i].date = rules[j].date

AnalysedUnderLatestRule ==
  [][\/ gateA' = "ANALYZED" /\ gateA # "ANALYZED"
     \/ gateB' = "ANALYZED" /\ gateB # "ANALYZED"
     => LET t == wired.table
            d == wired.asOf
        IN  /\ InEffect(t, d) # {}
            /\ OneDateEach(t) /\ CheckCompleteness(t) = {} =>
                 \A i \in InEffect(t, d) :
                   /\ \A j \in InEffect(t, d) : t[j].date <= t[i].date
                   /\ Contains(t[i], wired.price)
                   => last'.loan <= t[i].out]_vars

\* How far the two approaches are apart after the same calls: an analysed
\* complex that B opens again and A does not, and where the gate stops A before
\* it learns that there is no limit.  Every other outcome is the same, whatever
\* the order of their checks (gate_service_a.py:31-57, analysis_eligibility_b.py).
DifferNoFurther ==
  /\ gateA = gateB \/ (gateA = "ANALYZED" /\ gateB = "READY")
  /\ last.a # last.b => last.a = "not ready" /\ (last.b \in LimitErrors \/ gateA = "ANALYZED")

\* Both approaches keep the promise of the gate: no result without the open
\* gate and a loan within the limit, no analysed gate without a result
\* (gate_service_a.py:49-59, analysis_eligibility_b.py:46-55).
A == INSTANCE AnalysisGate WITH
       state <- gateA, outcome <- last.a, limit <- MaxLoan, loan <- last.loan, NoLimit <- None
B == INSTANCE AnalysisGate WITH
       state <- gateB, outcome <- last.b, limit <- MaxLoan, loan <- last.loan, NoLimit <- None

BothKeepThePromise == A!Spec /\ B!Spec

-----------------------------------------------------------------------------
\* What the test of the guard says of the two approaches: that they are
\* equivalent and come to the same state (test_gate_guard.py:1-4).
GatesAgree == gateA = gateB
=============================================================================
