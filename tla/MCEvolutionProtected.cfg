SPECIFICATION Spec
CONSTANTS
  Identifiers <- MCIdentifiers
  Specs <- MCProtectedSpecs
INVARIANT
  ProtectedRulesStay
