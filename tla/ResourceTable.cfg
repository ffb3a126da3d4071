SPECIFICATION Spec
CONSTANTS
  Clients = {1, 2}
  Creations <- MCCreations
  Owner <- MCOwner
  HashOf <- MCHashOf
  Dependents <- MCDependents
  Needs <- MCNeeds
  NeverRetained = {"grab"}
  None = None
  INITBUCKETS = 1
  MAXBUCKETS = 4
  MaxElements = 5
  Load = 2
INVARIANT ResourceTableInv
INVARIANT NothingLeft
PROPERTY FreeingEnds
