\* Programs, a table, two tables with metatables, patterns.
CONSTANTS
  MAXSTACK = 12
  MAXINDEXRK = 2
  LFIELDS_PER_FLUSH = 2
  MAXARG_C = 2
  LUAI_MAXVARS = 8
  LUAI_MAXUPVALUES = 3
  StackSize = 30
  Programs <- MCPrograms
  Source <- MCSource
  Compiled <- MCCompiled
  Args <- MCArgs
  t1 = t1  t2 = t2
  sa = sa  sb = sb
  MaxIndex = 4
  MAX_INT = 3
  Strings <- MCStrings
  Hash <- MCHash
  nil = nil  value = value
  Tables <- MCTables
  Ordinary <- MCOrdinary
  MAXTAGLOOP = 2
  none = none  other = other  function = function
SPECIFICATION MCSpec
SYMMETRY Symmetry
INVARIANTS
  ProgramsSound
  TablesAreMaps
  PatternsMatchFirst
PROPERTIES
  ProgramsDoWhatTheyMean
  TableSteps
  ChainFollowed
  EveryMatchTaken
CHECK_DEADLOCK FALSE
