CONSTANTS
  RowIds = {1, 2, 3, 4}
  Inserted <- FourRows
  Words <- Dictionary
  Spelling <- Letters
  Declarations <- SomeDeclarations
  Callers <- SomeCallers
  Queries <- SomeQueries
  DefaultPageSize = 1
  MaxPageSize = 2
  ExportFloor = 2
  ExportCap = 3
  MaxWrites = 2
SPECIFICATION ReadsSpec
INVARIANT ReadsInv
INVARIANT WalkTells
INVARIANT ReadsAreMasked
