SPECIFICATION FairSpec
CONSTANTS
  MaxNode = 3
  Iters = {i1, i2}
INVARIANTS TypeOK UsageAccounting NoDestroyedReachable TraversalOrder
PROPERTIES FrozenPointers EraseCompletes ImplementsContract
