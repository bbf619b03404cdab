\* One coroutine that nests its calls, one that shares variables, and two.
CONSTANTS
  main = main
  c1 = c1
  c2 = c2
  Coroutines <- MCCoroutines
  LUAI_MAXCCALLS = 3
  ErrorCalls = 2
  LUAI_MAXCALLS = 3
  BASIC_CI_SIZE = 3
  OpenUpvalues = 1
  MaxDepth = 9
  HostDepth = 9
SPECIFICATION MCSpec
SYMMETRY Symmetry
INVARIANTS
  StacksBounded
  StacksAgree
PROPERTIES
  CallsEndCleanly
CHECK_DEADLOCK FALSE
