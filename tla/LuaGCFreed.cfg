\* A table with weak keys and a userdata with a finalizer.
CONSTANTS
  t1 = t1  u1 = u1
  main = main  number = number  nil = nil
  Tables <- MCTables  Functions = {}  Udata <- MCUdata  Strings = {}  Upvals = {}  Coroutines = {}
  WeakKey <- MCTables  WeakValue = {}  HasGC <- MCUdata
  StackSize = 2
SPECIFICATION Spec
PROPERTIES
  GarbageFreed
CHECK_DEADLOCK FALSE
