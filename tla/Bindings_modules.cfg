SPECIFICATION Spec
CONSTANTS
  Wits <- UsualWits
  Types <- MCTypes
  Items <- MCItems
  Worlds <- MCWorlds
  Modules <- MCModules
INVARIANTS OrderIsSound SymbolsResolve BindingsAreComplete
