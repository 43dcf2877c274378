SPECIFICATION Spec
CONSTANTS
  Identifiers <- MCIdentifiers
  Specs <- MCSpecs
INVARIANTS
  TypeOK
  Conservative
  LiveInstanceFits
  ExitIsExact
PROPERTIES
  NeverStranded
  BreaksAreApproved
  ReviewNeedsMore
