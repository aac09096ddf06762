CONSTANTS
  l1 = l1
  l2 = l2
  Lookups = {l1, l2}
  Configs <- MCConfigs
  IDs <- MCIDs
  Aliases <- MCAliases
SPECIFICATION Spec
SYMMETRY Symmetry
INVARIANTS
  StaleNeedsOverlap
  ListedModelsResolve
