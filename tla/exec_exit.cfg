\* The same programs; the calculator is only started and left.
CONSTANTS
  KERNEL_STACK = 12
  SHELL_STACK = 25
  USER_STACK = 34
  Files = {"EDIT", "ECALC", "PROG"}
  Unknown = {"NONE"}
  Spawned = {"PROG", "NONE"}
  ARGV_SIZE = 18
  MAX_ARGS = 3
  Commands <- MCCommands
  Vectors <- MCVectors
  Codes <- MCCodes
  MaxDepth = 2
  MAX_LINES = 2
  MAX_LINE_LEN = 3
  TypedKeys <- MCKeys
  FileImages <- MCFiles
  ROOM = 8
  Unassigned = {0}
  CalcLines = {}
  DIV0 = 0
  MaxEvals = 0
SPECIFICATION UserSpec
PROPERTY AlwaysReturnsToShell
\* A kernel that panics and a program that returns to an overwritten address stop.
CHECK_DEADLOCK FALSE
