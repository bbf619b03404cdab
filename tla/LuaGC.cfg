\* Three heaps of three or four objects.
CONSTANTS
  t1 = t1  t2 = t2  t3 = t3  f1 = f1  u1 = u1  s1 = s1  uv1 = uv1  c1 = c1
  main = main  number = number  nil = nil
  Tables <- MCTables
  Functions <- MCFunctions
  Udata <- MCUdata
  Strings <- MCStrings
  Upvals <- MCUpvals
  Coroutines <- MCCoroutines
  WeakKey <- MCWeakKey
  WeakValue = {}
  HasGC <- MCUdata
  StackSize = 2
SPECIFICATION MCSpec
SYMMETRY Symmetry
INVARIANTS
  HeapSound
PROPERTIES
  FinalizedOnce
CHECK_DEADLOCK FALSE
