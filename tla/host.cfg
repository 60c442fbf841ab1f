\* Eight data sectors of two bytes, three entries for four names, a buffer of three bytes,
\* uint8_t modulo 4 and uint16_t modulo 10.
CONSTANTS
  Names = {n1, n2, n3, n4}
  NoName = NoName
  Contents <- MCContents
  MAX_FILES = 3
  FS_MAX_SECTORS = 11
  D = 2
  BUF = 3
  BLOCK_SECTORS = 2
  CountMod = 4
  SizeMod = 10
SPECIFICATION Spec
CONSTRAINT Explored
SYMMETRY NameSymmetry
INVARIANTS ReadsBack KernelLoads SectorsDisjoint
