SPECIFICATION Spec
CONSTANTS
  a = a
  b = b
  h1 = h1
  h2 = h2
  NoId = NoId
  Plain = Plain
  Names <- TwoNames
  Packages <- AnyForm
  Heaps <- TwoHeaps
  MaxId = 3
  Restarts = TRUE
SYMMETRY Symmetric
INVARIANTS
  TypeOK
  UniqueIds
  DirsApart
PROPERTIES
  ReloadKeepsId
  ImplementsAppNames
CHECK_DEADLOCK FALSE
