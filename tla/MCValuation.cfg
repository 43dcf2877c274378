SPECIFICATION Spec
CONSTANTS
  None = None
  Rows <- MCRows
  MaxRows = 3
  Dates = {1, 2}
  Prices = {0, 1}
  Counts = {2, 3}
  Loans = {1, 2}
  Equities = {0, 1}
INVARIANTS
  TypeOK
  CompletenessIsExact
  DifferNoFurther
PROPERTIES
  AppendingKeepsAnswers
  AnalysedUnderLatestRule
  BothKeepThePromise
