CONSTANTS
  k1 = k1
  k2 = k2
  t1 = t1
  t2 = t2
  pA = pA
  pB = pB
  None = None
  Keys = {k1}
  Ticks = {t1}
  ProviderTexts = {pA, pB}
  MaxImports = 2
SPECIFICATION Spec
INVARIANTS
  HashIsCurrent
