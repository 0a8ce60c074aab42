SPECIFICATION Spec
CONSTANTS
  World <- MCWorld
  Info <- MCInfo
  Inputs <- MCInputs
  Options <- MCOptions
  MaxFiles = 3
INVARIANTS SearchFindsOwners EveryItemAssigned NamesAreDistinct GeneratedIsImported
