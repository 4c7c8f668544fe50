SPECIFICATION FairSpec
CONSTANTS
  Entries = {e1, e2}
  MaxMutations = 4
INVARIANTS
  NoLostMutation
  PromisesAreDurable
PROPERTIES
  ImplementsDurableStore
  EveryRequestSettles
