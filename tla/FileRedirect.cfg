SPECIFICATION ClearSpec
CONSTANTS
  Paths <- MCPaths
  Names <- MCNames
  Depths <- MCDepths
  Lists <- MCLists
  Openers <- MCOpeners
INVARIANTS TypeOK ServesUnlessScanned
