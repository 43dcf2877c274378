SPECIFICATION Spec
CONSTANTS
  Texts = {t1, t2}
  NoText = NoText
  Errors = {e1, e2}
  NoError = NoError
  Repairs <- MCRepairs
INVARIANTS
  TypeOK
  AsksWithin
  ExitCodeTells
PROPERTIES
  EveryCommandEnds
  KeepsThePromise
