-------------------------- MODULE ValuationProofs --------------------------
(***************************************************************************)
(* Proofs about the valuation context for any file, any amounts and any    *)
(* number of rows: its types, that the completeness check of the table is  *)
(* exact, that approaches A and B agree, that both keep the promise of     *)
(* AnalysisGate, and that nothing is analysed beyond the latest rule.      *)
(***************************************************************************)
EXTENDS Valuation, TableProofs

\* The states of the gate.
LEMMA GateStatesAre == GateStates = {"LOCKED", "READY", "ANALYZED"}
  BY DEF GateStates, ALLOWED

\* The gate's table, state by state.
LEMMA AllowedAre ==
  /\ ALLOWED["LOCKED"] = {"READY"}
  /\ ALLOWED["READY"] = {"ANALYZED", "LOCKED"}
  /\ ALLOWED["ANALYZED"] = {"READY", "LOCKED"}
  BY DEF ALLOWED

\* A file of rows is a table, and what its rows are made of.
LEMMA RowFields ==
  ASSUME NEW r \in Rows
  PROVE  /\ r.min \in Nat /\ r.max \in Nat \cup {None}
         /\ r.date \in Int /\ r.out \in Nat
  BY RowsAreRules, AmountsAreNatural DEF Rule

\* A file of rows is a table of the lookup.
LEMMA FilesAreTables ==
  ASSUME NEW rules \in Seq(Rows)
  PROVE  IsTable(rules)
<1>1. Len(rules) \in Nat /\ DOMAIN rules = 1..Len(rules)
  OBVIOUS
<1>2. ASSUME NEW i \in 1..Len(rules)
      PROVE  rules[i].min \in Nat /\ rules[i].max \in Nat \cup {None}
  <2>1. rules[i] \in Rows
    OBVIOUS
  <2>2. QED
    BY <2>1, RowFields
<1>3. QED
  BY <1>1, <1>2 DEF IsTable

-----------------------------------------------------------------------------
(* The limit.                                                              *)

\* A row that a range lookup finds is a row in force that contains the value.
LEMMA LookupFindsARow ==
  ASSUME NEW rules \in Seq(Rows), NEW x, NEW d, Lookup(rules, x, d) # NoMatchingRow
  PROVE  /\ Lookup(rules, x, d) \in ActiveRows(rules, d)
         /\ Contains(rules[Lookup(rules, x, d)], x)
<1> DEFINE hits == {i \in ActiveRows(rules, d) : Contains(rules[i], x)}
<1>1. ActiveRows(rules, d) \in SUBSET DOMAIN rules
  BY DEF ActiveRows, RowsOf
<1>2. hits # {}
  BY DEF Lookup
<1>3. PICK f \in hits : \A j \in hits \ {f} : Before(rules, f, j)
  <2>1. hits \in SUBSET DOMAIN rules
    BY <1>1
  <2>2. QED
    <3> HIDE DEF hits
    <3> QED BY <1>2, <2>1, FilesAreTables, FirstRow
<1>4. f \in First(rules, hits)
  <2>1. ASSUME NEW j \in hits, Before(rules, j, f) PROVE FALSE
    <3>1. j \in DOMAIN rules /\ f \in DOMAIN rules
      BY <1>1
    <3>2. CASE j = f
      BY <2>1, <3>1, <3>2, FilesAreTables, BeforeIsAnOrder
    <3>3. CASE j # f
      <4>1. Before(rules, f, j)
        BY <1>3, <3>3
      <4>2. QED
        BY <2>1, <3>1, <4>1, FilesAreTables, BeforeIsAnOrder
    <3>4. QED
      BY <3>2, <3>3
  <2>2. QED
    BY <2>1 DEF First
<1>5. Lookup(rules, x, d) = CHOOSE i \in First(rules, hits) : TRUE
  BY <1>2 DEF Lookup
<1>6. Lookup(rules, x, d) \in First(rules, hits)
  <2> HIDE DEF hits
  <2> QED BY <1>4, <1>5
<1>7. Lookup(rules, x, d) \in hits
  BY <1>6 DEF First
<1>8. QED
  BY <1>7

\* If nothing stands against it there is a limit, the output of the row that
\* answers for the price.
LEMMA LimitFound ==
  ASSUME TypeOK, NoLimitBecause = "none"
  PROVE  /\ wired.price \in Nat
         /\ LimitRow \in ActiveRows(wired.table, wired.asOf)
         /\ LimitRow \in DOMAIN wired.table
         /\ Contains(wired.table[LimitRow], wired.price)
         /\ MaxLoan = wired.table[LimitRow].out
         /\ MaxLoan \in Nat /\ MaxLoan # None
<1>1. wired.price # None /\ LimitRow # NoMatchingRow
  BY DEF NoLimitBecause
<1>2. wired.table \in Seq(Rows) /\ wired.price \in Prices
  BY <1>1 DEF TypeOK
<1>3. /\ LimitRow \in ActiveRows(wired.table, wired.asOf)
      /\ Contains(wired.table[LimitRow], wired.price)
  BY <1>1, <1>2, LookupFindsARow DEF LimitRow
<1>4. LimitRow \in DOMAIN wired.table
  BY <1>3 DEF ActiveRows, RowsOf
<1>5. wired.table[LimitRow] \in Rows
  BY <1>2, <1>4
<1>6. MaxLoan = wired.table[LimitRow].out
  BY DEF MaxLoan
<1>7. MaxLoan \in Nat
  BY <1>5, <1>6, RowFields
<1>8. wired.price \in Nat
  BY <1>2, AmountsAreNatural
<1>9. MaxLoan # None
  BY <1>7, NoneIsNoNumber
<1>10. QED
  BY <1>3, <1>4, <1>6, <1>7, <1>8, <1>9

-----------------------------------------------------------------------------
(* The outcomes.                                                           *)

\* What an analysis answers.
LEMMA OutcomesAre ==
  ASSUME NEW s, NEW l, NEW p, NEW e
  PROVE  AnalyzeA(s, l, p, e) \in Outcomes /\ AnalyzeB(s, l, p, e) \in Outcomes
  BY DEF AnalyzeA, AnalyzeB, Formulas, NoLimitBecause, Outcomes, LimitErrors

\* Neither gate analyzes before it is ready.
LEMMA NotReady ==
  ASSUME NEW s, NEW l, NEW p, NEW e, s # "READY"
  PROVE  /\ AnalyzeA(s, l, p, e) = "not ready"
         /\ AnalyzeB(s, l, p, e) \in LimitErrors \cup {"not ready"}
  BY DEF AnalyzeA, AnalyzeB, NoLimitBecause, LimitErrors

\* Both gates analyze alike when they are ready.
LEMMA ReadyAlike ==
  ASSUME NEW l, NEW p, NEW e
  PROVE  AnalyzeA("READY", l, p, e) = AnalyzeB("READY", l, p, e)
  BY DEF AnalyzeA, AnalyzeB

\* An analysis that is done was made behind the open gate, within the limit.
LEMMA DoneMeans ==
  ASSUME NEW s, NEW l \in Nat, NEW p, NEW e, TypeOK,
         AnalyzeA(s, l, p, e) = "done" \/ AnalyzeB(s, l, p, e) = "done"
  PROVE  s = "READY" /\ NoLimitBecause = "none" /\ l <= MaxLoan
<1>1. NoLimitBecause \in {"none", "no price", "no band"}
  BY DEF NoLimitBecause
<1>2. s = "READY" /\ NoLimitBecause = "none"
  BY <1>1 DEF AnalyzeA, AnalyzeB
<1>3. ~(l > MaxLoan)
  BY <1>2 DEF AnalyzeA, AnalyzeB
<1>4. QED
  BY <1>2, <1>3, LimitFound

\* What an analysis leaves of the gate.
LEMMA AfterAnalysis ==
  ASSUME NEW s \in GateStates, NEW o
  PROVE  /\ Analyzed(s, o) \in {s, "ANALYZED"}
         /\ o # "done" => Analyzed(s, o) = s
         /\ s = "READY" /\ o = "done" => Analyzed(s, o) = "ANALYZED"
  BY AllowedAre DEF Analyzed, Transition

\* Where each gate is after a reevaluation.
LEMMA AfterReevaluation ==
  ASSUME NEW s \in GateStates
  PROVE  /\ ReevaluateA(s) = IF ~IsUnlockable THEN "LOCKED"
                             ELSE IF s = "LOCKED" THEN "READY" ELSE s
         /\ ReevaluateB(s) = IF IsUnlockable THEN "READY" ELSE "LOCKED"
  BY AllowedAre, GateStatesAre DEF ReevaluateA, ReevaluateB, Transition

-----------------------------------------------------------------------------
(* The invariants.                                                         *)

\* The types hold at first,
LEMMA InitType == Init => TypeOK
<1> SUFFICES ASSUME Init PROVE TypeOK
  OBVIOUS
<1>1. csv \in Seq(Rows) /\ Len(csv) <= MaxRows
  BY AmountsAreNatural DEF Init
<1>2. /\ wired.table \in Seq(Rows) /\ wired.price \in Prices \cup {None}
      /\ wired.asOf \in Dates
  <2>1. wired.table = <<>> /\ wired.price = None /\ wired.asOf \in Dates
    BY DEF Init
  <2>2. QED
    BY <2>1
<1>3. trades \in Counts /\ {gateA, gateB} \subseteq GateStates
  BY GateStatesAre DEF Init
<1>4. last.loan \in Loans \cup {None} /\ {last.a, last.b} \subseteq Outcomes
  BY DEF Init, NoCall, Outcomes
<1>5. QED
  BY <1>1, <1>2, <1>3, <1>4 DEF TypeOK

\* of the call that was not made,
LEMMA NoCallType ==
  NoCall.loan \in Loans \cup {None} /\ {NoCall.a, NoCall.b} \subseteq Outcomes
  BY DEF NoCall, Outcomes

\* and after every step.
LEMMA StepType == TypeOK /\ [Next]_vars => TypeOK'
<1> SUFFICES ASSUME TypeOK, [Next]_vars PROVE TypeOK'
  OBVIOUS
<1>1. ASSUME NEW r \in Rows, AppendRow(r) PROVE TypeOK'
  <2>1. csv' \in Seq(Rows) /\ Len(csv') <= MaxRows
    BY <1>1, AmountsAreNatural DEF AppendRow, TypeOK
  <2>2. QED
    BY <1>1, <2>1, NoCallType DEF AppendRow, TypeOK
<1>2. ASSUME NEW p \in Prices \cup {None}, NEW d \in Dates, Wire(p, d) PROVE TypeOK'
  BY <1>2, NoCallType DEF Wire, TypeOK
<1>3. ASSUME NEW n \in Counts, Trade(n) PROVE TypeOK'
  BY <1>3, NoCallType DEF Trade, TypeOK
<1>4. ASSUME Reevaluate PROVE TypeOK'
  <2>1. gateA \in GateStates /\ gateB \in GateStates
    BY DEF TypeOK
  <2>2. gateA' \in GateStates /\ gateB' \in GateStates
    BY <1>4, <2>1, AfterReevaluation, GateStatesAre DEF Reevaluate
  <2>3. QED
    BY <1>4, <2>2, NoCallType DEF Reevaluate, TypeOK
<1>5. ASSUME NEW l \in Loans, NEW p \in Prices, NEW e \in Equities, Analyze(l, p, e)
      PROVE  TypeOK'
  <2>1. gateA \in GateStates /\ gateB \in GateStates
    BY DEF TypeOK
  <2>2. gateA' \in GateStates /\ gateB' \in GateStates
    BY <1>5, <2>1, AfterAnalysis, GateStatesAre DEF Analyze
  <2>3. last'.loan \in Loans \cup {None} /\ {last'.a, last'.b} \subseteq Outcomes
    BY <1>5, OutcomesAre DEF Analyze
  <2>4. QED
    BY <1>5, <2>2, <2>3 DEF Analyze, TypeOK
<1>6. CASE UNCHANGED vars
  BY <1>6 DEF vars, TypeOK
<1>7. QED
  BY <1>1, <1>2, <1>3, <1>4, <1>5, <1>6 DEF Next

\* Types: the adapter keeps rows of the file, both gates are in a state, and
\* every call ends in one of the outcomes the code raises or returns.
THEOREM ValuationTypeOK == Spec => []TypeOK
  BY InitType, StepType, PTL DEF Spec

\* check_completeness is exact for a file of any number of rows: every row
\* that is no empty interval is judged by the prices it answers.
THEOREM ValuationCompletenessIsExact == Spec => []CompletenessIsExact
<1>1. TypeOK => CompletenessIsExact
  <2> SUFFICES ASSUME TypeOK, NEW v \in Versions(csv), NonEmptyRows(csv, RowsOf(csv, v))
               PROVE  v \notin CheckCompleteness(csv) <=>
                        \A x \in Corners(csv, RowsOf(csv, v)) : Answered(csv, RowsOf(csv, v), x)
    BY DEF CompletenessIsExact
  <2> DEFINE rows == RowsOf(csv, v)
  <2>1. IsTable(csv)
    BY FilesAreTables DEF TypeOK
  <2>2. rows \in SUBSET DOMAIN csv /\ rows # {}
    BY DEF RowsOf, Versions
  <2>3. v \notin CheckCompleteness(csv) <=> Tiles(csv, rows)
    BY DEF CheckCompleteness, Versions
  <2>4. Corners(csv, rows) \subseteq Nat
    <3> HIDE DEF rows
    <3> QED BY <2>1, <2>2, TableRows DEF Corners
  <2>5. ASSUME Tiles(csv, rows), NEW x \in Corners(csv, rows) PROVE Answered(csv, rows, x)
    <3> HIDE DEF rows
    <3> QED BY <2>1, <2>2, <2>4, <2>5, TilingAnswersAll
  <2>6. ASSUME \A x \in Corners(csv, rows) : Answered(csv, rows, x) PROVE Tiles(csv, rows)
    BY <2>1, <2>2, <2>6, AnsweringRowsTile
  <2>7. QED
    BY <2>3, <2>5, <2>6
<1>2. QED
  BY <1>1, ValuationTypeOK, PTL

\* No step drives the two gates apart.
LEMMA AgreeStep == TypeOK /\ DifferNoFurther /\ [Next]_vars => DifferNoFurther'
<1> SUFFICES ASSUME TypeOK, DifferNoFurther, [Next]_vars PROVE DifferNoFurther'
  OBVIOUS
<1>1. gateA \in GateStates /\ gateB \in GateStates
  BY DEF TypeOK
<1>2. ASSUME UNCHANGED <<gateA, gateB>>, last' = NoCall PROVE DifferNoFurther'
  BY <1>2 DEF DifferNoFurther, NoCall
<1>3. ASSUME Reevaluate PROVE DifferNoFurther'
  <2>1. gateA' = gateB' \/ (gateA' = "ANALYZED" /\ gateB' = "READY")
    <3>1. CASE IsUnlockable
      <4>1. gateB' = "READY" /\ gateA' = IF gateA = "LOCKED" THEN "READY" ELSE gateA
        BY <1>1, <1>3, <3>1, AfterReevaluation DEF Reevaluate
      <4>2. QED
        BY <1>1, <4>1, GateStatesAre
    <3>2. CASE ~IsUnlockable
      BY <1>1, <1>3, <3>2, AfterReevaluation DEF Reevaluate
    <3>3. QED
      BY <3>1, <3>2
  <2>2. last'.a = last'.b
    BY <1>3 DEF Reevaluate, NoCall
  <2>3. QED
    BY <2>1, <2>2 DEF DifferNoFurther
<1>4. ASSUME NEW l \in Loans, NEW p \in Prices, NEW e \in Equities, Analyze(l, p, e)
      PROVE  DifferNoFurther'
  <2> DEFINE a == AnalyzeA(gateA, l, p, e)
             b == AnalyzeB(gateB, l, p, e)
  <2>1. /\ gateA' = Analyzed(gateA, a) /\ gateB' = Analyzed(gateB, b)
        /\ last'.a = a /\ last'.b = b
    BY <1>4 DEF Analyze
  <2>2. CASE gateA = "READY"
    <3>1. gateB = "READY"
      BY <2>2 DEF DifferNoFurther
    <3>2. a = b
      BY <2>2, <3>1, ReadyAlike
    <3> HIDE DEF a, b
    <3>3. QED
      BY <2>1, <2>2, <3>1, <3>2 DEF DifferNoFurther
  <2>3. CASE gateA # "READY"
    <3>1. a = "not ready" /\ gateA' = gateA
      <4>1. a = "not ready"
        BY <2>3, NotReady
      <4>2. a # "done"
        BY <4>1
      <4> HIDE DEF a
      <4>3. QED
        BY <1>1, <2>1, <4>1, <4>2, AfterAnalysis
    <3>2. CASE gateB = gateA
      <4>1. b \in LimitErrors \cup {"not ready"} /\ gateB' = gateB
        <5>1. b \in LimitErrors \cup {"not ready"}
          BY <2>3, <3>2, NotReady
        <5>2. b # "done"
          BY <5>1 DEF LimitErrors
        <5> HIDE DEF b
        <5>3. QED
          BY <1>1, <2>1, <5>1, <5>2, AfterAnalysis
      <4> HIDE DEF a, b
      <4>2. QED
        BY <2>1, <3>1, <3>2, <4>1 DEF DifferNoFurther
    <3>3. CASE gateA = "ANALYZED" /\ gateB = "READY"
      <4>1. gateB' \in {"READY", "ANALYZED"}
        BY <1>1, <2>1, <3>3, AfterAnalysis
      <4> HIDE DEF a, b
      <4>2. QED
        BY <2>1, <3>1, <3>3, <4>1 DEF DifferNoFurther
    <3>4. QED
      BY <3>2, <3>3 DEF DifferNoFurther
  <2>4. QED
    BY <2>2, <2>3
<1>5. CASE UNCHANGED vars
  BY <1>5 DEF vars, DifferNoFurther
<1>6. QED
  BY <1>2, <1>3, <1>4, <1>5 DEF Next, AppendRow, Wire, Trade

\* Approach A and approach B, called alike, differ only in an analysed complex
\* that B opens again, and in what a request that is refused anyway is told.
THEOREM ValuationDifferNoFurther == Spec => []DifferNoFurther
<1>1. Init => DifferNoFurther
  BY DEF Init, DifferNoFurther, NoCall
<1>2. QED
  BY <1>1, AgreeStep, ValuationTypeOK, PTL DEF Spec

-----------------------------------------------------------------------------
(* The promise of the gate.                                                *)

\* Without a result the gate stays as it is or is reevaluated.
LEMMA PromiseReevaluate ==
  ASSUME TypeOK, Reevaluate
  PROVE  A!Next /\ B!Next
<1>1. gateA \in GateStates /\ gateB \in GateStates
  BY DEF TypeOK
<1>2. trades' = trades /\ MaxLoan' = MaxLoan /\ last'.a # "done" /\ last'.b # "done"
  BY DEF Reevaluate, NoCall, MaxLoan, NoLimitBecause, LimitRow
<1>3. CASE trades >= MinTrades
  <2>1. IsUnlockable
    BY <1>3 DEF IsUnlockable
  <2>2. gateA' = gateA \/ (gateA = "LOCKED" /\ gateA' = "READY")
    BY <1>1, <2>1, AfterReevaluation DEF Reevaluate
  <2>3. gateB' = gateB \/ (gateB \in {"LOCKED", "ANALYZED"} /\ gateB' = "READY")
    BY <1>1, <2>1, AfterReevaluation, GateStatesAre DEF Reevaluate
  <2>4. A!Next
    BY <1>2, <1>3, <2>2 DEF A!Next, A!Open, A!Moves, A!Stay
  <2>5. B!Next
    BY <1>2, <1>3, <2>3 DEF B!Next, B!Open, B!Moves, B!Stay
  <2>6. QED
    BY <2>4, <2>5
<1>4. CASE ~(trades >= MinTrades)
  <2>1. ~IsUnlockable
    BY <1>4 DEF IsUnlockable
  <2>2. trades < MinTrades
    BY <1>4, AmountsAreNatural DEF TypeOK, MinTrades
  <2>3. gateA' = "LOCKED" /\ gateB' = "LOCKED"
    BY <1>1, <2>1, AfterReevaluation DEF Reevaluate
  <2>4. /\ gateA' = gateA \/ gateA \in {"READY", "ANALYZED"}
        /\ gateB' = gateB \/ gateB \in {"READY", "ANALYZED"}
    BY <1>1, <2>3, GateStatesAre
  <2>5. A!Next
    BY <1>2, <2>2, <2>3, <2>4 DEF A!Next, A!Close, A!Moves, A!Stay
  <2>6. B!Next
    BY <1>2, <2>2, <2>3, <2>4 DEF B!Next, B!Close, B!Moves, B!Stay
  <2>7. QED
    BY <2>5, <2>6
<1>5. QED
  BY <1>3, <1>4

\* With one, it was open, the loan within the limit, and it is analysed.
LEMMA PromiseAnalyze ==
  ASSUME TypeOK, NEW l \in Loans, NEW p \in Prices, NEW e \in Equities, Analyze(l, p, e)
  PROVE  A!Next /\ B!Next
<1> DEFINE a == AnalyzeA(gateA, l, p, e)
           b == AnalyzeB(gateB, l, p, e)
<1>1. gateA \in GateStates /\ gateB \in GateStates /\ l \in Nat
  BY AmountsAreNatural DEF TypeOK
<1>2. trades' = trades /\ MaxLoan' = MaxLoan
  BY DEF Analyze, MaxLoan, NoLimitBecause, LimitRow
<1>3. /\ gateA' = Analyzed(gateA, a) /\ gateB' = Analyzed(gateB, b)
      /\ last'.loan = l /\ last'.a = a /\ last'.b = b
  BY DEF Analyze
<1>4. ASSUME a = "done" \/ b = "done"
      PROVE  l <= MaxLoan /\ MaxLoan # None
  <2>1. \/ AnalyzeA(gateA, l, p, e) = "done" /\ gateA = gateA
        \/ AnalyzeB(gateB, l, p, e) = "done" /\ gateB = gateB
    BY <1>4
  <2>2. NoLimitBecause = "none" /\ l <= MaxLoan
    BY <1>1, <2>1, DoneMeans
  <2>3. QED
    BY <2>2, LimitFound
<1>5. /\ a = "done" => gateA = "READY"
      /\ b = "done" => gateB = "READY"
  BY <1>1, DoneMeans
<1> HIDE DEF a, b
<1>6. A!Next
  <2>1. CASE a = "done"
    <3>1. gateA' = "ANALYZED"
      BY <1>1, <1>3, <1>5, <2>1, AfterAnalysis
    <3>2. QED
      BY <1>2, <1>3, <1>4, <1>5, <2>1, <3>1 DEF A!Next, A!Analyze, A!Moves
  <2>2. CASE a # "done"
    BY <1>1, <1>3, <2>2, AfterAnalysis DEF A!Next, A!Stay
  <2>3. QED
    BY <2>1, <2>2
<1>7. B!Next
  <2>1. CASE b = "done"
    <3>1. gateB' = "ANALYZED"
      BY <1>1, <1>3, <1>5, <2>1, AfterAnalysis
    <3>2. QED
      BY <1>2, <1>3, <1>4, <1>5, <2>1, <3>1 DEF B!Next, B!Analyze, B!Moves
  <2>2. CASE b # "done"
    BY <1>1, <1>3, <2>2, AfterAnalysis DEF B!Next, B!Stay
  <2>3. QED
    BY <2>1, <2>2
<1>8. QED
  BY <1>6, <1>7

\* Every step of either gate is one that its promise allows.
LEMMA PromiseSteps ==
  TypeOK /\ [Next]_vars => [A!Next]_(A!vars) /\ [B!Next]_(B!vars)
<1> SUFFICES ASSUME TypeOK, [Next]_vars PROVE [A!Next]_(A!vars) /\ [B!Next]_(B!vars)
  OBVIOUS
<1>1. ASSUME UNCHANGED <<gateA, gateB>>, last' = NoCall PROVE A!Next /\ B!Next
  BY <1>1 DEF A!Next, B!Next, A!Stay, B!Stay, NoCall
<1>2. CASE \E r \in Rows : AppendRow(r)
  BY <1>1, <1>2 DEF AppendRow
<1>3. CASE \E p \in Prices \cup {None}, d \in Dates : Wire(p, d)
  BY <1>1, <1>3 DEF Wire
<1>4. CASE \E n \in Counts : Trade(n)
  BY <1>1, <1>4 DEF Trade
<1>5. CASE Reevaluate
  BY <1>5, PromiseReevaluate
<1>6. CASE \E l \in Loans, p \in Prices, e \in Equities : Analyze(l, p, e)
  BY <1>6, PromiseAnalyze
<1>7. CASE UNCHANGED vars
  <2>1. MaxLoan' = MaxLoan
    BY <1>7 DEF vars, MaxLoan, NoLimitBecause, LimitRow
  <2>2. QED
    BY <1>7, <2>1 DEF vars, A!vars, B!vars
<1>8. QED
  BY <1>2, <1>3, <1>4, <1>5, <1>6, <1>7 DEF Next

\* Both approaches implement the analysis gate.
THEOREM ValuationKeepsThePromise == Spec => BothKeepThePromise
<1>1. Init => A!Init /\ B!Init
  BY DEF Init, A!Init, B!Init
<1>2. QED
  BY <1>1, PromiseSteps, ValuationTypeOK, PTL DEF Spec, BothKeepThePromise, A!Spec, B!Spec

-----------------------------------------------------------------------------
(* The latest rule.                                                        *)

\* What an analysis that opened the third state has seen.
LEMMA AnalysedMeans ==
  ASSUME TypeOK, NEW l \in Loans, NEW p \in Prices, NEW e \in Equities, Analyze(l, p, e),
         gateA' # gateA \/ gateB' # gateB
  PROVE  /\ NoLimitBecause = "none" /\ l <= MaxLoan /\ last'.loan = l
         /\ gateA' # gateA => gateA = "READY" /\ gateA' = "ANALYZED"
         /\ gateB' # gateB => gateB = "READY" /\ gateB' = "ANALYZED"
<1>1. gateA \in GateStates /\ gateB \in GateStates /\ l \in Nat
  BY AmountsAreNatural DEF TypeOK
<1>2. /\ gateA' = Analyzed(gateA, AnalyzeA(gateA, l, p, e))
      /\ gateB' = Analyzed(gateB, AnalyzeB(gateB, l, p, e))
      /\ last'.loan = l
  BY DEF Analyze
<1>3. gateA' # gateA => AnalyzeA(gateA, l, p, e) = "done"
  BY <1>1, <1>2, AfterAnalysis
<1>4. gateB' # gateB => AnalyzeB(gateB, l, p, e) = "done"
  BY <1>1, <1>2, AfterAnalysis
<1>5. gateA' # gateA => gateA = "READY" /\ NoLimitBecause = "none" /\ l <= MaxLoan
  BY <1>1, <1>3, DoneMeans
<1>6. gateB' # gateB => gateB = "READY" /\ NoLimitBecause = "none" /\ l <= MaxLoan
  BY <1>1, <1>4, DoneMeans
<1>7. gateA' \in {gateA, "ANALYZED"} /\ gateB' \in {gateB, "ANALYZED"}
  BY <1>1, <1>2, AfterAnalysis
<1>8. QED
  BY <1>2, <1>5, <1>6, <1>7

\* The active version is that of some row with the latest date.
LEMMA ActiveVersionIsLatest ==
  ASSUME NEW rules \in Seq(Rows), NEW d, NEW i \in InEffect(rules, d),
         \A j \in InEffect(rules, d) : rules[j].date <= rules[i].date
  PROVE  \E c \in InEffect(rules, d) : /\ rules[c].date = rules[i].date
                                       /\ ActiveVersion(rules, d) = rules[c].version
<1> DEFINE eligible == InEffect(rules, d)
           latest == {k \in eligible : \A j \in eligible : rules[j].date <= rules[k].date}
           c == CHOOSE k \in latest : \A j \in latest : k <= j
<1>1. latest \in SUBSET Nat /\ i \in latest
  <2>1. eligible \in SUBSET Nat
    BY DEF InEffect
  <2>2. QED
    BY <2>1
<1>2. c \in latest
  <2> HIDE DEF latest
  <2>1. \E k \in latest : \A j \in latest : k <= j
    BY <1>1, LeastNatural
  <2>2. QED
    BY <2>1
<1>3. ActiveVersion(rules, d) = rules[c].version
  BY DEF ActiveVersion
<1> HIDE DEF c
<1>4. c \in eligible /\ rules[c].date <= rules[i].date /\ rules[i].date <= rules[c].date
  BY <1>2
<1>5. rules[c].date \in Int /\ rules[i].date \in Int
  <2>1. rules[c] \in Rows /\ rules[i] \in Rows
    BY <1>4 DEF InEffect
  <2>2. QED
    BY <2>1, RowFields
<1>6. QED
  BY <1>3, <1>4, <1>5

\* In a complete table whose versions have a date each, the row that answers
\* is the only one of the latest rows that says anything of the price.
LEMMA LimitIsLatest ==
  ASSUME TypeOK, NoLimitBecause = "none",
         OneDateEach(wired.table), CheckCompleteness(wired.table) = {},
         NEW i \in InEffect(wired.table, wired.asOf),
         \A j \in InEffect(wired.table, wired.asOf) : wired.table[j].date <= wired.table[i].date,
         Contains(wired.table[i], wired.price)
  PROVE  MaxLoan = wired.table[i].out
<1> DEFINE t == wired.table
           rows == RowsOf(t, t[i].version)
<1>1. t \in Seq(Rows) /\ IsTable(t)
  BY FilesAreTables DEF TypeOK
<1>2. PICK c \in InEffect(t, wired.asOf) :
        t[c].date = t[i].date /\ ActiveVersion(t, wired.asOf) = t[c].version
  BY <1>1, ActiveVersionIsLatest
<1>3. t[c].version = t[i].version /\ i \in DOMAIN t
  BY <1>2 DEF OneDateEach, InEffect
<1>4. ActiveRows(t, wired.asOf) = rows
  BY <1>2, <1>3 DEF ActiveRows
<1>5. rows \in SUBSET DOMAIN t /\ i \in rows
  BY <1>3 DEF RowsOf
<1>6. Tiles(t, rows)
  BY <1>3 DEF CheckCompleteness
<1>7. /\ wired.price \in Nat /\ LimitRow \in rows
      /\ Contains(t[LimitRow], wired.price) /\ MaxLoan = t[LimitRow].out
  BY <1>4, LimitFound
<1>8. Answered(t, rows, wired.price)
  <2> HIDE DEF t, rows
  <2> QED BY <1>1, <1>5, <1>6, <1>7, TilingAnswersAll
<1>9. LimitRow = i
  <2> HIDE DEF rows
  <2> QED BY <1>5, <1>7, <1>8, AnsweredOnce
<1>10. QED
  BY <1>7, <1>9

\* What a step says that makes an analysis.
LEMMA AnalysedStep ==
  ASSUME TypeOK, [Next]_vars,
         \/ gateA' = "ANALYZED" /\ gateA # "ANALYZED"
         \/ gateB' = "ANALYZED" /\ gateB # "ANALYZED"
  PROVE  NoLimitBecause = "none" /\ last'.loan <= MaxLoan
<1>1. gateA \in GateStates /\ gateB \in GateStates
  BY DEF TypeOK
<1>2. CASE UNCHANGED <<gateA, gateB>>
  BY <1>2
<1>3. ASSUME Reevaluate PROVE FALSE
  <2>1. gateA' # "ANALYZED" \/ gateA = "ANALYZED"
    BY <1>1, <1>3, AfterReevaluation, GateStatesAre DEF Reevaluate
  <2>2. gateB' # "ANALYZED"
    BY <1>1, <1>3, AfterReevaluation DEF Reevaluate
  <2>3. QED
    BY <2>1, <2>2
<1>4. ASSUME NEW l \in Loans, NEW p \in Prices, NEW e \in Equities, Analyze(l, p, e)
      PROVE  NoLimitBecause = "none" /\ last'.loan <= MaxLoan
  BY <1>4, AnalysedMeans
<1>5. CASE UNCHANGED vars
  BY <1>2, <1>5 DEF vars
<1>6. QED
  BY <1>2, <1>3, <1>4, <1>5 DEF Next, AppendRow, Wire, Trade

\* Whatever the adapter's table says, nothing is analysed without a rule in
\* effect; and if the table is complete, nothing beyond the latest one.
THEOREM ValuationAnalysedUnderLatestRule == Spec => AnalysedUnderLatestRule
<1> DEFINE t == wired.table
           d == wired.asOf
           Analysed == \/ gateA' = "ANALYZED" /\ gateA # "ANALYZED"
                       \/ gateB' = "ANALYZED" /\ gateB # "ANALYZED"
           Within == /\ InEffect(t, d) # {}
                     /\ OneDateEach(t) /\ CheckCompleteness(t) = {} =>
                          \A i \in InEffect(t, d) :
                            /\ \A j \in InEffect(t, d) : t[j].date <= t[i].date
                            /\ Contains(t[i], wired.price)
                            => last'.loan <= t[i].out
<1>1. TypeOK /\ [Next]_vars => [Analysed => Within]_vars
  <2> SUFFICES ASSUME TypeOK, [Next]_vars, Analysed PROVE Within
    OBVIOUS
  <2>1. NoLimitBecause = "none" /\ last'.loan <= MaxLoan
    BY AnalysedStep
  <2>2. InEffect(t, d) # {}
    BY <2>1, LimitFound DEF ActiveRows
  <2>3. ASSUME OneDateEach(t), CheckCompleteness(t) = {}, NEW i \in InEffect(t, d),
               \A j \in InEffect(t, d) : t[j].date <= t[i].date,
               Contains(t[i], wired.price)
        PROVE  last'.loan <= t[i].out
    <3>1. MaxLoan = t[i].out
      BY <2>1, <2>3, LimitIsLatest
    <3>2. QED
      BY <2>1, <3>1
  <2>4. QED
    BY <2>2, <2>3
<1>2. QED
  BY <1>1, ValuationTypeOK, PTL DEF Spec, AnalysedUnderLatestRule

-----------------------------------------------------------------------------
(* Appending.                                                              *)

\* A file and the row appended to it.
LEMMA AppendedRows ==
  ASSUME NEW old \in Seq(Rows), NEW r \in Rows
  PROVE  LET new == Append(old, r)
         IN  /\ Len(old) \in Nat /\ Len(new) = Len(old) + 1
             /\ DOMAIN old = 1..Len(old) /\ DOMAIN new = 1..(Len(old) + 1)
             /\ new[Len(new)] = r
             /\ \A i \in DOMAIN old : new[i] = old[i]
  OBVIOUS

\* The first row in the file is the one of the least position.
LEMMA FirstInFileIsLeast ==
  ASSUME NEW S \in SUBSET Nat, S # {}
  PROVE  FirstInFile(S) \in S /\ \A j \in S : FirstInFile(S) <= j
<1>1. \E i \in S : \A j \in S : i <= j
  BY LeastNatural
<1>2. FirstInFile(S) = CHOOSE i \in S : \A j \in S : i <= j
  BY DEF FirstInFile
<1>3. QED
  BY <1>1, <1>2

\* Rows added at the end of the file do not come first.
LEMMA FirstInFileStays ==
  ASSUME NEW S \in SUBSET Nat, NEW T \in SUBSET Nat, S \subseteq T,
         \A t \in T \ S : \A s \in S : s <= t
  PROVE  FirstInFile(S) \in {NoMatchingRow, FirstInFile(T)}
<1>1. CASE S = {}
  BY <1>1 DEF FirstInFile
<1>2. CASE S # {}
  <2> DEFINE s == FirstInFile(S)
             t == FirstInFile(T)
  <2>1. s \in S /\ t \in T /\ (\A j \in S : s <= j) /\ \A j \in T : t <= j
    BY <1>2, FirstInFileIsLeast
  <2> HIDE DEF s, t
  <2>2. s \in Nat /\ t \in Nat /\ t <= s /\ s <= t
    BY <2>1
  <2>3. s = t
    BY <2>2
  <2>4. QED
    BY <2>3 DEF s, t
<1>3. QED
  BY <1>1, <1>2

\* The rows a table keeps when it grows, among those of one version.
LEMMA RowsOfAppended ==
  ASSUME NEW old \in Seq(Rows), NEW r \in Rows, NEW v
  PROVE  /\ RowsOf(old, v) \subseteq RowsOf(Append(old, r), v)
         /\ RowsOf(Append(old, r), v) \subseteq RowsOf(old, v) \cup {Len(old) + 1}
         /\ r.version # v => RowsOf(Append(old, r), v) = RowsOf(old, v)
<1> DEFINE new == Append(old, r)
<1>1. /\ Len(old) \in Nat /\ new[Len(old) + 1] = r
      /\ DOMAIN old = 1..Len(old) /\ DOMAIN new = 1..(Len(old) + 1)
      /\ \A i \in DOMAIN old : new[i] = old[i]
  BY AppendedRows
<1> HIDE DEF new
<1>2. DOMAIN new = DOMAIN old \cup {Len(old) + 1}
  BY <1>1
<1>3. RowsOf(old, v) \subseteq RowsOf(new, v)
  BY <1>1, <1>2 DEF RowsOf
<1>4. RowsOf(new, v) \subseteq RowsOf(old, v) \cup {Len(old) + 1}
  BY <1>1, <1>2 DEF RowsOf
<1>5. r.version # v => RowsOf(new, v) = RowsOf(old, v)
  BY <1>1, <1>2, <1>3, <1>4 DEF RowsOf
<1>6. QED
  BY <1>3, <1>4, <1>5 DEF new

\* A row that leaves the version in effect changes no answer that was given.
LEMMA GivenAnswersKept ==
  ASSUME NEW old \in Seq(Rows), NEW r \in Rows, NEW d, NEW x,
         InEffect(old, d) # {},
         ActiveVersion(old, d) = ActiveVersion(Append(old, r), d)
  PROVE  /\ ExactLookup(old, x, d) \in {NoMatchingRow, ExactLookup(Append(old, r), x, d)}
         /\ MultiRangeLookup(old, x, d) \in {NoMatchingRow, MultiRangeLookup(Append(old, r), x, d)}
<1> DEFINE new == Append(old, r)
           v == ActiveVersion(old, d)
           olds == RowsOf(old, v)
           news == RowsOf(new, v)
<1>1. /\ Len(old) \in Nat
      /\ DOMAIN old = 1..Len(old) /\ DOMAIN new = 1..(Len(old) + 1)
      /\ \A i \in DOMAIN old : new[i] = old[i]
  BY AppendedRows
<1>2. olds \subseteq news /\ news \subseteq olds \cup {Len(old) + 1}
  BY RowsOfAppended
<1>3. olds \subseteq DOMAIN old
  BY DEF RowsOf
<1>4. ActiveRows(old, d) = olds
  BY DEF ActiveRows
<1>5. ActiveRows(new, d) = news
  <2>1. InEffect(old, d) \subseteq InEffect(new, d)
    <3> HIDE DEF new
    <3> QED BY <1>1 DEF InEffect
  <2>2. QED
    BY <2>1 DEF ActiveRows
<1> HIDE DEF new, v, olds, news
<1>6. \A i \in news \ olds : \A j \in olds : j <= i
  BY <1>1, <1>2, <1>3
<1>7. olds \in SUBSET Nat /\ news \in SUBSET Nat /\ \A i \in olds : new[i] = old[i]
  BY <1>1, <1>2, <1>3
<1>8. ExactLookup(old, x, d) \in {NoMatchingRow, ExactLookup(new, x, d)}
  <2> DEFINE S == {i \in olds : old[i].min = x}
             T == {i \in news : new[i].min = x}
  <2>1. S \in SUBSET Nat /\ T \in SUBSET Nat /\ S \subseteq T
    BY <1>2, <1>7
  <2>2. \A t \in T \ S : \A s \in S : s <= t
    BY <1>6, <1>7
  <2>3. ExactLookup(old, x, d) = FirstInFile(S) /\ ExactLookup(new, x, d) = FirstInFile(T)
    BY <1>4, <1>5 DEF ExactLookup
  <2> HIDE DEF S, T
  <2>4. QED
    BY <2>1, <2>2, <2>3, FirstInFileStays
<1>9. MultiRangeLookup(old, x, d) \in {NoMatchingRow, MultiRangeLookup(new, x, d)}
  <2> DEFINE S == {i \in olds : Contains(old[i], x)}
             T == {i \in news : Contains(new[i], x)}
  <2>1. S \in SUBSET Nat /\ T \in SUBSET Nat /\ S \subseteq T
    BY <1>2, <1>7
  <2>2. \A t \in T \ S : \A s \in S : s <= t
    BY <1>6, <1>7
  <2>3. MultiRangeLookup(old, x, d) = FirstInFile(S) /\ MultiRangeLookup(new, x, d) = FirstInFile(T)
    BY <1>4, <1>5 DEF MultiRangeLookup
  <2> HIDE DEF S, T
  <2>4. QED
    BY <2>1, <2>2, <2>3, FirstInFileStays
<1>10. QED
  BY <1>8, <1>9 DEF new

\* There is a latest date among those in effect.
LEMMA LatestExists ==
  ASSUME NEW rules \in Seq(Rows), NEW d \in Int, InEffect(rules, d) # {}
  PROVE  \E i \in InEffect(rules, d) : \A j \in InEffect(rules, d) : rules[j].date <= rules[i].date
<1> DEFINE E == InEffect(rules, d)
           M == {d - rules[i].date : i \in E}
<1>1. \A i \in E : rules[i].date \in Int /\ rules[i].date <= d
  <2>1. ASSUME NEW i \in E PROVE rules[i].date \in Int /\ rules[i].date <= d
    <3>1. rules[i] \in Rows
      BY DEF InEffect
    <3>2. QED
      BY <3>1, RowFields DEF InEffect
  <2>2. QED
    BY <2>1
<1> HIDE DEF E
<1>2. M \in SUBSET Nat /\ M # {}
  BY <1>1 DEF E
<1>3. PICK m \in M : \A l \in M : m <= l
  <2> HIDE DEF M
  <2> QED BY <1>2, LeastNatural
<1>4. PICK i \in E : m = d - rules[i].date
  BY <1>3
<1>5. ASSUME NEW j \in E PROVE rules[j].date <= rules[i].date
  <2>1. m <= d - rules[j].date
    BY <1>3
  <2>2. QED
    BY <1>1, <1>4, <2>1
<1>6. QED
  BY <1>5 DEF E

\* A row that puts no other version in force leaves the version as it is.
LEMMA ActiveVersionStays ==
  ASSUME NEW old \in Seq(Rows), NEW r \in Rows, NEW d \in Int, InEffect(old, d) # {},
         \/ ~(r.date <= d)
         \/ r.version = ActiveVersion(old, d)
         \/ \E i \in InEffect(old, d) : ~(old[i].date < r.date)
  PROVE  ActiveVersion(Append(old, r), d) = ActiveVersion(old, d)
<1> DEFINE new == Append(old, r)
           n == Len(old) + 1
           Latest(rules) ==
             {i \in InEffect(rules, d) : \A j \in InEffect(rules, d) : rules[j].date <= rules[i].date}
           Least(S) == CHOOSE i \in S : \A j \in S : i <= j
<1>1. /\ Len(old) \in Nat /\ new[n] = r
      /\ DOMAIN old = 1..Len(old) /\ DOMAIN new = 1..n
      /\ \A i \in DOMAIN old : new[i] = old[i]
  BY AppendedRows
<1>2. ActiveVersion(old, d) = old[Least(Latest(old))].version
  BY DEF ActiveVersion
<1>3. ActiveVersion(new, d) = new[Least(Latest(new))].version
  BY DEF ActiveVersion
<1> HIDE DEF new, n
<1>4. n \in Nat /\ n \notin DOMAIN old /\ DOMAIN new = DOMAIN old \cup {n} /\ \A i \in DOMAIN old : i < n
  BY <1>1 DEF n
<1>5. InEffect(old, d) \subseteq DOMAIN old /\ DOMAIN old \subseteq Nat
  BY <1>1 DEF InEffect
<1>6. InEffect(new, d) = InEffect(old, d) \cup (IF r.date <= d THEN {n} ELSE {})
  BY <1>1, <1>4 DEF InEffect
<1>7. r.date \in Int /\ \A i \in DOMAIN old : old[i].date \in Int
  <2>1. \A i \in DOMAIN old : old[i] \in Rows
    OBVIOUS
  <2>2. QED
    BY <2>1, RowFields
<1>8. Latest(old) # {} /\ Latest(old) \subseteq DOMAIN old
  BY <1>5, LatestExists
<1>9. Least(Latest(old)) \in Latest(old) /\ \A j \in Latest(old) : Least(Latest(old)) <= j
  <2>1. Latest(old) \in SUBSET Nat
    BY <1>5, <1>8
  <2> HIDE DEF Latest
  <2>2. \E i \in Latest(old) : \A j \in Latest(old) : i <= j
    BY <1>8, <2>1, LeastNatural
  <2>3. QED
    BY <2>2
<1>10. CASE ~(r.date <= d)
  <2>1. Latest(new) = Latest(old)
    BY <1>1, <1>5, <1>6, <1>10
  <2> HIDE DEF Latest, Least
  <2>2. QED
    BY <1>1, <1>2, <1>3, <1>8, <1>9, <2>1 DEF new
<1>11. CASE r.date <= d /\ \E i \in InEffect(old, d) : ~(old[i].date < r.date)
  <2>1. \A i \in Latest(old) : r.date <= old[i].date
    BY <1>5, <1>7, <1>11
  <2>2. Latest(old) \subseteq Latest(new)
    BY <1>1, <1>5, <1>6, <1>11, <2>1
  <2>3. Latest(new) \subseteq Latest(old) \cup {n}
    BY <1>1, <1>5, <1>6, <1>11
  <2> HIDE DEF Latest
  <2>4. \A j \in Latest(new) : Least(Latest(old)) <= j
    BY <1>4, <1>5, <1>8, <1>9, <2>3
  <2>5. Least(Latest(new)) \in Latest(new) /\ \A j \in Latest(new) : Least(Latest(new)) <= j
    BY <1>9, <2>2, <2>4
  <2>6. Least(Latest(new)) = Least(Latest(old))
    <3>1. Latest(new) \subseteq Nat
      BY <1>4, <1>5, <1>8, <2>3
    <3> DEFINE a == Least(Latest(old))
               b == Least(Latest(new))
    <3>2. a \in Latest(new) /\ b \in Latest(new) /\ a <= b /\ b <= a
      BY <1>9, <2>2, <2>4, <2>5
    <3> HIDE DEF a, b
    <3>3. a = b
      BY <3>1, <3>2
    <3>4. QED
      BY <3>3 DEF a, b
  <2>7. QED
    BY <1>1, <1>2, <1>3, <1>8, <1>9, <2>6 DEF new
<1>12. CASE /\ r.date <= d /\ r.version = ActiveVersion(old, d)
            /\ \A i \in InEffect(old, d) : old[i].date < r.date
  <2>1. Latest(new) = {n}
    BY <1>1, <1>5, <1>6, <1>7, <1>12
  <2>2. Least({n}) = n
    BY <1>4
  <2> HIDE DEF Latest, Least
  <2>3. QED
    BY <1>1, <1>3, <1>12, <2>1, <2>2 DEF new
<1>13. QED
  BY <1>10, <1>11, <1>12 DEF new

\* A row of a new version that is not in effect yet changes no rows in force.
LEMMA LaterVersionWaits ==
  ASSUME NEW old \in Seq(Rows), NEW r \in Rows, NEW d \in Int,
         r.version \notin Versions(old), d < r.date
  PROVE  ActiveRows(Append(old, r), d) = ActiveRows(old, d)
<1> DEFINE new == Append(old, r)
<1>1. /\ Len(old) \in Nat /\ new[Len(old) + 1] = r
      /\ DOMAIN old = 1..Len(old) /\ DOMAIN new = 1..(Len(old) + 1)
      /\ \A i \in DOMAIN old : new[i] = old[i]
  BY AppendedRows
<1> HIDE DEF new
<1>2. InEffect(new, d) = InEffect(old, d)
  <2>1. r.date \in Int
    BY RowFields
  <2>2. DOMAIN new = DOMAIN old \cup {Len(old) + 1} /\ ~(r.date <= d)
    BY <1>1, <2>1
  <2>3. QED
    BY <1>1, <2>2 DEF InEffect
<1>3. CASE InEffect(old, d) = {}
  BY <1>2, <1>3 DEF new, ActiveRows
<1>4. CASE InEffect(old, d) # {}
  <2> DEFINE Latest(rules) ==
               {i \in InEffect(rules, d) : \A j \in InEffect(rules, d) : rules[j].date <= rules[i].date}
             c == CHOOSE i \in Latest(old) : \A j \in Latest(old) : i <= j
  <2>1. InEffect(old, d) \subseteq DOMAIN old
    BY DEF InEffect
  <2>2. Latest(new) = Latest(old)
    BY <1>1, <1>2, <2>1
  <2>3. c \in DOMAIN old
    <3>1. Latest(old) \in SUBSET Nat /\ Latest(old) # {} /\ Latest(old) \subseteq DOMAIN old
      <4>1. Latest(old) # {}
        BY <1>4, LatestExists
      <4>2. Latest(old) \subseteq DOMAIN old
        BY <2>1
      <4>3. DOMAIN old \subseteq Nat
        BY <1>1
      <4> HIDE DEF Latest
      <4>4. QED
        BY <4>1, <4>2, <4>3
    <3> HIDE DEF Latest
    <3>2. \E i \in Latest(old) : \A j \in Latest(old) : i <= j
      BY <3>1, LeastNatural
    <3>3. c \in Latest(old)
      BY <3>2
    <3>4. QED
      BY <3>1, <3>3
  <2>4. ActiveVersion(old, d) = old[c].version
    BY DEF ActiveVersion
  <2>5. ActiveVersion(new, d) = new[c].version
    <3>1. ActiveVersion(new, d) =
            new[CHOOSE i \in Latest(new) : \A j \in Latest(new) : i <= j].version
      BY DEF ActiveVersion
    <3> HIDE DEF Latest
    <3>2. QED
      BY <2>2, <3>1
  <2> HIDE DEF c, Latest
  <2>6. ActiveVersion(new, d) = ActiveVersion(old, d) /\ r.version # ActiveVersion(old, d)
    BY <1>1, <2>3, <2>4, <2>5 DEF Versions
  <2>7. RowsOf(new, ActiveVersion(old, d)) = RowsOf(old, ActiveVersion(old, d))
    BY <2>6, RowsOfAppended DEF new
  <2>8. QED
    BY <1>2, <1>4, <2>6, <2>7 DEF new, ActiveRows
<1>5. QED
  BY <1>3, <1>4

\* A row of a new version changes no answer for a day before it.
LEMMA SameAnswersBefore ==
  ASSUME NEW old \in Seq(Rows), NEW r \in Rows, NEW d \in Int, NEW x,
         r.version \notin Versions(old), d < r.date
  PROVE  /\ Lookup(Append(old, r), x, d) = Lookup(old, x, d)
         /\ ExactLookup(Append(old, r), x, d) = ExactLookup(old, x, d)
         /\ MultiRangeLookup(Append(old, r), x, d) = MultiRangeLookup(old, x, d)
<1> DEFINE new == Append(old, r)
           rows == ActiveRows(old, d)
           hits == {i \in rows : Contains(old[i], x)}
<1>1. rows \subseteq DOMAIN old /\ \A i \in DOMAIN old : new[i] = old[i]
  BY AppendedRows DEF ActiveRows, RowsOf
<1>2. ActiveRows(new, d) = rows
  BY LaterVersionWaits
<1> HIDE DEF new, rows
<1>3. hits = {i \in ActiveRows(new, d) : Contains(new[i], x)}
  BY <1>1, <1>2
<1>4. {i \in rows : old[i].min = x} = {i \in ActiveRows(new, d) : new[i].min = x}
  BY <1>1, <1>2
<1>5. First(new, hits) = First(old, hits)
  <2>1. \A i, j \in hits : Before(new, i, j) <=> Before(old, i, j)
    BY <1>1 DEF Before
  <2> HIDE DEF hits
  <2>2. QED
    BY <2>1 DEF First
<1>6. Lookup(new, x, d) = Lookup(old, x, d)
  <2> DEFINE news == {i \in ActiveRows(new, d) : Contains(new[i], x)}
  <2>1. Lookup(new, x, d) = IF news = {} THEN NoMatchingRow ELSE CHOOSE i \in First(new, news) : TRUE
    BY DEF Lookup
  <2>2. Lookup(old, x, d) = IF hits = {} THEN NoMatchingRow ELSE CHOOSE i \in First(old, hits) : TRUE
    BY DEF Lookup, rows
  <2>3. news = hits
    BY <1>3
  <2> HIDE DEF hits, news
  <2>4. QED
    BY <1>5, <2>1, <2>2, <2>3
<1>7. ExactLookup(new, x, d) = ExactLookup(old, x, d)
  BY <1>4 DEF ExactLookup, rows
<1>8. MultiRangeLookup(new, x, d) = MultiRangeLookup(old, x, d)
  BY <1>3 DEF MultiRangeLookup, rows
<1>9. QED
  BY <1>6, <1>7, <1>8 DEF new

\* A row appended to the file changes no answer for the time before its new
\* version, and none that a first-row table has given if it puts no other version
\* in force.
THEOREM ValuationAppendingKeepsAnswers == Spec => AppendingKeepsAnswers
<1> DEFINE Keeps ==
      LET new == csv'[Len(csv')]
      IN  \A d \in Dates :
            /\ new.version \notin Versions(csv) /\ d < new.date => SameAnswers(d)
            /\ InEffect(csv, d) # {} /\ ~Supersedes(new, d) => KeepsGivenAnswers(d)
<1>1. TypeOK /\ [Next]_vars => [csv' # csv => Keeps]_vars
  <2> SUFFICES ASSUME TypeOK, [Next]_vars, csv' # csv PROVE Keeps
    OBVIOUS
  <2>1. PICK r \in Rows : csv' = Append(csv, r)
    BY DEF Next, AppendRow, Wire, Trade, Reevaluate, Analyze, vars
  <2>2. csv \in Seq(Rows) /\ csv'[Len(csv')] = r
    BY <2>1, AppendedRows DEF TypeOK
  <2>3. ASSUME NEW d \in Dates, r.version \notin Versions(csv), d < r.date
        PROVE  SameAnswers(d)
    BY <2>1, <2>2, <2>3, AmountsAreNatural, SameAnswersBefore DEF SameAnswers
  <2>4. ASSUME NEW d \in Dates, InEffect(csv, d) # {}, ~Supersedes(r, d)
        PROVE  KeepsGivenAnswers(d)
    <3>1. d \in Int
      BY AmountsAreNatural
    <3>2. ActiveVersion(csv', d) = ActiveVersion(csv, d)
      BY <2>1, <2>2, <2>4, <3>1, ActiveVersionStays DEF Supersedes
    <3>3. QED
      BY <2>1, <2>2, <2>4, <3>2, GivenAnswersKept DEF KeepsGivenAnswers
  <2>5. QED
    BY <2>2, <2>3, <2>4
<1>2. QED
  BY <1>1, ValuationTypeOK, PTL DEF Spec, AppendingKeepsAnswers
=============================================================================
