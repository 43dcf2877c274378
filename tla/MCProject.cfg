SPECIFICATION Spec
CONSTANTS
  Identifiers <- MCIdentifiers
  Snake <- MCSnake
  Slug <- MCSlug
  Specs <- MCSpecs
  Editable <- MCEditable
  Palette <- MCPalette
  MaxEdits = 2
INVARIANTS
  TypeOK
  DriftIsExact
  CrossingsReported
  PassRunsTheSpec
  FreshVerdict
  TestAgreesWithCheck
