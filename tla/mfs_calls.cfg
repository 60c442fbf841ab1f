\* Three blocks of two bytes, two descriptors, up to MaxCalls system calls;
\* files are deleted only while closed.  A behaviour ends when its calls do.
CONSTANTS
  DataStart = 1
  TotalSectors = 4
  MaxFiles = 2
  FdMax = 5
  D = 2
  WordMod = 8
  CountMod = 1
  OpenFlags <- PlainFlags
  Whences = {1}
  SeekPos = {0, 1}
  Counts = {1, 2}
  DeleteOpen = FALSE
  n1 = n1
  n2 = n2
  e0 = e0
  Names <- MCNames
  EmptyName = e0
  Stored <- MCStored
  Bytes = {0}
  Zero = 0
  MaxCalls = 8
SPECIFICATION CallsSpec
SYMMETRY NameSymmetry
CHECK_DEADLOCK FALSE
INVARIANTS FilesSound DescriptorsIsolated DiskEntryMarked
