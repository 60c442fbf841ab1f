CONSTANTS
  DataStart = 1
  TotalSectors = 4
  MaxFiles = 2
  FdMax = 4
  D = 1
  WordMod = 3
  CountMod = 1
  OpenFlags <- OddFlags
  Whences = {1}
  SeekPos = {0}
  Counts = {1}
  DeleteOpen = TRUE
  n1 = n1
  n2 = n2
  e0 = e0
  Names <- MCNames
  EmptyName = e0
  Stored <- MCStored
  Bytes = {0}
  Zero = 0
SPECIFICATION Spec
INVARIANT FindsEveryFile
