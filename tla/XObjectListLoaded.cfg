CONSTANTS
  o1 = o1
  o2 = o2
  o3 = o3
  k1 = k1
  k2 = k2
  None = None
  Threads = {t1, t2}
  Objects <- MCObjects
  Keys = {k1, k2}
  KeyOf <- MCKeyOf
  Preloaded <- MCPreloaded
  Calls = {"load", "addLoaded", "addAll", "del", "delAll", "mod", "reload"}
  MaxOps = 2
SPECIFICATION Spec
INVARIANTS ListedIsFound
PROPERTIES AllReturn
CHECK_DEADLOCK FALSE
