SPECIFICATION Spec
CONSTANTS
  Wits <- MergedWits
  Types <- MCTypes
  Items <- MCItems
  Worlds <- MCWorlds
  Modules <- MCModules
INVARIANT BindingsAreComplete
