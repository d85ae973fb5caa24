SPECIFICATION Spec
CONSTANTS
  MaxNode = 2
  Iters = {i1, i2}
INVARIANTS DestroyedNodeUnused
