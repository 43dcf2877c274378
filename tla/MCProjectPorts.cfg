SPECIFICATION Spec
CONSTANTS
  Identifiers <- MCIdentifiers
  Snake <- MCSnake
  Slug <- MCSlug
  Specs <- MCTwins
  Editable <- MCOrder
  Palette <- MCPalette
  MaxEdits = 2
INVARIANT
  EveryPortHasItsStub
