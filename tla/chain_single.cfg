\* One importer: fork choice, orphans and the promise of HeaviestChain.
CONSTANTS
  g = g
  a1 = a1
  a2 = a2
  a3 = a3
  s2 = s2
  b1 = b1
  u2 = u2
  x1 = x1
  Block = {g, a1, a2, a3, s2, b1, u2, x1}
  Genesis = g
  NoBlock = NoBlock
  NoHeight = NoHeight
  Parent <- MCParent
  Height <- MCHeight
  Work <- MCWork
  Sound <- MCSound
  Drifting <- MCDrifting
  Mined <- MCMined
  Importers = {t1}
  TDModulus = 64
  CrashAllowed = FALSE
  FaultAllowed = FALSE
SPECIFICATION FairSpec
INVARIANTS
  HeadHeaviest
  OrphansServed
  
PROPERTIES
  HeadOnlyImproves
  ImplementsHeaviestChain
  ImportReturns
