\* 128 bytes of ROM and 48 of RAM, sectors of four bytes, two keys.
CONSTANTS
  MEM_SIZE = 176
  rom_size = 128
  FDC_SECTOR_SIZE = 4
  NoDisk = NoDisk
  Unseekable = {3}
  Unwritable = {1}
  Roms <- MCRoms
  Disks <- MCDisks
  Keys = {10}
  old_format = TRUE
  MaxKeys = 2
  Operands = {0, 255, 32768, 65535}
  Counts = {0, 1, 2}
  Lbas = {0, 2, 4}
SPECIFICATION Spec
INVARIANTS TypeOK AdditionAgrees SubtractionOrders BlocksMoved DriverTransfers StackBalanced
PROPERTIES RomIntact RoutinesEnd
\* A HALT instruction stops the emulator.
CHECK_DEADLOCK FALSE
