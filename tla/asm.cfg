\* Code at 288, above the addresses that JR takes for offsets; room for two labels.
CONSTANTS
  MEM_SIZE = 336
  rom_size = 0
  FDC_SECTOR_SIZE = 1
  NoDisk = NoDisk
  Unseekable = {}
  Unwritable = {}
  Roms <- MCRoms
  Disks <- MCDisks
  Keys = {}
  old_format = FALSE
  MaxKeys = 0
  Sources <- MCSources
  Tails <- MCTails
  Orgs = {288}
  MAX_LABELS = 2
  StartRegs <- MCRegs
  StartIx = 310
  StartIy = 314
  StartSp = 330
  StartFlags <- MCFlags
  MaxRun = 12
SPECIFICATION RunSpec
INVARIANT PassesAgree
PROPERTY RunsAsWritten
\* A program ends when it leaves its code or halts.
CHECK_DEADLOCK FALSE
