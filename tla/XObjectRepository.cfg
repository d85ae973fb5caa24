SPECIFICATION Spec
CONSTANTS
  Threads = {t1, t2, t3}
  l1 = l1
  l2 = l2
  l3 = l3
  Lists = {l1, l2, l3}
  IDs = {1, 2}
  None = None
  Registered <- MCRegistered
  MaxOps = 1
INVARIANTS TypeOK LockBalance UsedListsExist FirstPassComplete
PROPERTIES AllReturn
CHECK_DEADLOCK FALSE
