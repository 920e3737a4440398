SPECIFICATION Spec
CONSTANTS
  MAXINDEXRK = 3
  MAXARG_C = 2
  MAXARG_Bx = 16
  MAXARG_sBx = 60
  LFIELDS_PER_FLUSH = 2
  MAXSTACK = 20
  CountOpcode = "JMP"
  LUAI_MAXVARS = 8
  LUAI_MAXUPVALUES = 3
  LUAI_MAXCCALLS = 11
  StackSize = 40
  Programs <- ProgramList
  Globals <- GlobalTable
  Compiled <- CompiledPrograms
  Meanings <- ProgramMeanings
CHECK_DEADLOCK FALSE
INVARIANTS
  
  
  CodeChecked
  LoadedAsSaved
  TopAtLimit
  UpvaluesInScope
