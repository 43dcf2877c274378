SPECIFICATION Spec
CONSTANTS
  Identifiers <- MCIdentifiers
  Snake <- MCSnake
  Slug <- MCSlug
  Specs <- MCShops
  Editable <- MCAgents
  Palette <- MCPalette
  MaxEdits = 2
INVARIANT
  NothingElseDrifts
