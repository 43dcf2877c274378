SPECIFICATION Spec
CONSTANTS
  Identifiers <- MCIdentifiers
  Snake <- MCSnake
  Slug <- MCSlug
  Specs <- MCShops
  Editable <- MCOrder
  Palette <- MCPalette
  MaxEdits = 2
PROPERTY
  ImplSurvives
