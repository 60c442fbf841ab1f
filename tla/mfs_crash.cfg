\* Two blocks of one byte, one file; power may be cut between any two steps.
CONSTANTS
  DataStart = 1
  TotalSectors = 3
  MaxFiles = 1
  FdMax = 4
  D = 1
  WordMod = 4
  CountMod = 1
  OpenFlags <- MCFlags
  Whences = {1, 2, 3}
  SeekPos = {0, 1, 2}
  Counts = {1, 2}
  DeleteOpen = TRUE
  n1 = n1
  e0 = e0
  Names <- MCNames
  EmptyName = e0
  Stored <- MCStored
  Bytes = {0}
  Zero = 0
SPECIFICATION CrashSpec
INVARIANT CursorInBlock
PROPERTY CallsReturn
