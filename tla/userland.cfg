\* Two lines of two characters, three arguments in 18 bytes, two words on a user stack.
CONSTANTS
  KERNEL_STACK = 12
  SHELL_STACK = 25
  USER_STACK = 34
  Files = {"EDIT", "ECALC", "PROG"}
  Unknown = {"NONE"}
  Spawned = {"PROG", "NONE"}
  ARGV_SIZE = 18
  MAX_ARGS = 3
  Commands <- MCCommands
  Vectors <- MCVectors
  Codes <- MCCodes
  MaxDepth = 2
  MAX_LINES = 2
  MAX_LINE_LEN = 3
  TypedKeys <- MCKeys
  FileImages <- MCFiles
  ROOM = 8
  Unassigned = {0, 1, 8}
  CalcLines <- MCLines
  DIV0 = 0
  MaxEvals = 2
SPECIFICATION UserSpec
INVARIANTS StacksBalanced ArgumentsArrive CalculatesMeaning
PROPERTIES ExitReturnsToShell LineAsTyped RewoundSaveReturns UneditedSaveKeeps
\* A kernel that panics and a program that returns to an overwritten address stop.
CHECK_DEADLOCK FALSE
