SPECIFICATION Spec
CONSTANTS
  Granule <- MCGranule
  Data <- MCData
  Registry <- MCRegistry
  Expr <- MCExpr
  Depth <- MCDepth
  Lower <- MCLower
  Upper <- MCUpper
  Parts <- MCParts
  Queries <- MCQueries
  Archives <- MCArchives
  MaxChanges = 1
INVARIANTS
  TypeOK
  FiledWhereListed
  SelfLinkYieldsItem
  BoxFindsItem
  TranslatorsAgree
PROPERTY FilterExact
CHECK_DEADLOCK FALSE
