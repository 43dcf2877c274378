SPECIFICATION Spec
CONSTANTS
  Identifiers <- MCIdentifiers
  Snake <- MCSnake
  Slug <- MCSlug
  Specs <- MCShops
  Editable <- MCOrder
  Palette <- MCByName
  MaxEdits = 2
INVARIANT
  BoundaryHolds
