CONSTANTS
  k1 = k1
  k2 = k2
  t1 = t1
  t2 = t2
  pA = pA
  pB = pB
  None = None
  Keys = {k1, k2}
  Ticks = {t1, t2}
  ProviderTexts = {pA, pB}
  MaxImports = 2
SPECIFICATION Spec
SYMMETRY Symmetry
INVARIANTS
  TypeOK
  StatusTellsAbstract
  HashIsCurrentUnlessStaleWrite
PROPERTIES
  DatasetAbstractKept
