------------------------------ MODULE Firmware ------------------------------
(***************************************************************************)
(* Machine code run on the emulated Z80 under keyboard interrupts: the     *)
(* disk driver (driver/disk.asm) as it is assembled, and short routines    *)
(* that use the instructions the kernel and its C runtime depend on        *)
(* (multi-byte arithmetic, block moves, calls).  A routine's ROM starts    *)
(* with a prologue, keeps the receive handler at 38h and the driver behind *)
(* it; the byte at KIND tells the routines apart, and their operands are   *)
(* the immediate words of the code.                                        *)
(***************************************************************************)
EXTENDS Z80

CONSTANTS
  Operands,          \* the words the arithmetic is tried on
  Counts,            \* the lengths of block moves and the sector counts
  Lbas               \* the sectors transferred

HALT == 118
ISR == 56            \* the handler of interrupt mode 1
DRIVER == 72
KIND == 127
BUF == rom_size      \* RAM: the buffer, the last key, the stack
KEY == MEM_SIZE - 24
STACK == MEM_SIZE - 2
READ_DISK == DRIVER + 7
WRITE_DISK == DRIVER + 31

Lo(w) == w % 256
Hi(w) == w \div 256
LD_HL(w) == <<33, Lo(w), Hi(w)>>
LD_DE(w) == <<17, Lo(w), Hi(w)>>
LD_BC(w) == <<1, Lo(w), Hi(w)>>
LD_SP(w) == <<49, Lo(w), Hi(w)>>
CALL(a) == <<205, Lo(a), Hi(a)>>
OUT(port) == <<211, port>>
----------------------------------------------------------------------------
\* WAIT_DISK: in a,(15h); cp 2; jr z,WAIT_DISK; ret
WAIT_DISK == <<219, 21, 254, 2, 40, 250, 201>>
\* READ_DISK and WRITE_DISK: A is the count, DE the sector, HL the address; cmd is the command.
DiskRoutine(cmd) ==
  OUT(22) \o <<123>> \o OUT(17) \o <<122>> \o OUT(18) \o <<125>> \o OUT(19) \o <<124>> \o OUT(20)
  \o <<62, cmd>> \o OUT(16) \o CALL(DRIVER) \o <<219, 21, 201>>
\* In place of the receive handler, which module TTY models: push af; push hl; in a,(81h); ld (KEY),a; pop hl; pop af; ei; reti
KeyHandler == <<245, 229, 219, 129, 50, Lo(KEY), Hi(KEY), 225, 241, 251, 237, 77>>

\* The stack is set, the port told to interrupt, mode 1 chosen, interrupts enabled.
Prologue == LD_SP(STACK) \o <<62, 150>> \o OUT(128) \o <<237, 86, 251>>

\* A full image: parts at their addresses over a background of HALT, the numbers
\* from 0 in the buffer and zeros on the stack.
Image(kind, code) ==
  LET Part(a, base, part) == a - base + 1 \in DOMAIN part
      driver == WAIT_DISK \o DiskRoutine(1) \o DiskRoutine(2)
  IN  [n \in 1 .. MEM_SIZE |->
         LET a == n - 1
         IN  CASE Part(a, 0, code) -> code[a + 1]
               [] Part(a, ISR, KeyHandler) -> KeyHandler[a - ISR + 1]
               [] Part(a, DRIVER, driver) -> driver[a - DRIVER + 1]
               [] a = KIND -> kind
               [] a >= BUF /\ a < KEY -> a - BUF
               [] a >= KEY /\ a < STACK -> 0
               [] OTHER -> HALT]
----------------------------------------------------------------------------
\* ld a,l; add/sub e; ld c,a; ld a,h; adc/sbc d; ld b,a; push af, then the same on HL
AddRom(x, y) == Image(1, Prologue \o LD_HL(x) \o LD_DE(y) \o <<125, 131, 79, 124, 138, 71, 245, 25>>)
SubRom(x, y) == Image(2, Prologue \o LD_HL(x) \o LD_DE(y) \o <<125, 147, 79, 124, 154, 71, 245, 183, 237, 82>>)
\* ldir and lddr from the buffer to eight bytes further
CopyRom(n, up) ==
  Image(3, Prologue \o LD_BC(n) \o LD_DE(BUF + 8 + (IF up THEN 0 ELSE n - 1))
           \o LD_HL(BUF + (IF up THEN 0 ELSE n - 1)) \o <<237, IF up THEN 176 ELSE 184>>)
\* cpir for the byte c in the first n of the buffer
SearchRom(n, c) == Image(4, Prologue \o <<62, c>> \o LD_BC(n) \o LD_HL(BUF) \o <<237, 177>>)
DiskRom(kind, routine, n, lba) ==
  Image(kind, Prologue \o <<62, n>> \o LD_DE(lba) \o LD_HL(BUF) \o CALL(routine))
\* ld b,n; n times: call a routine that saves bc and adds 1 to hl
CallRom(n) == Image(7, Prologue \o <<6, n>> \o CALL(18) \o <<16, 251, HALT>> \o <<197, 1, 1, 0, 9, 193, 201>>)

\* Every opcode behind every prefix, all pointers at x, with operand bytes 30 and 0.
SweepRom(ops, x) ==
  Image(0, LD_HL(x) \o LD_DE(x) \o LD_BC(x) \o <<221, 33, Lo(x), Hi(x), 253, 33, Lo(x), Hi(x)>>
           \o LD_SP(x) \o ops \o <<30, 0>>)
Opcodes ==
  {<<op>> : op \in Byte} \cup {<<prefix, op>> : prefix \in {203, 221, 237, 253}, op \in Byte}
  \cup {<<prefix, 203, 2, op>> : prefix \in {221, 253}, op \in Byte}

FirmwareRoms ==
  {AddRom(x, y) : x \in Operands, y \in Operands} \cup {SubRom(x, y) : x \in Operands, y \in Operands}
  \cup {CopyRom(n, up) : n \in Counts \ {0}, up \in BOOLEAN}
  \cup {SearchRom(n, c) : n \in Counts \ {0}, c \in 0 .. 2}
  \cup {DiskRom(5, READ_DISK, n, lba) : n \in Counts, lba \in Lbas}
  \cup {DiskRom(6, WRITE_DISK, n, lba) : n \in Counts, lba \in Lbas}
  \cup {CallRom(n) : n \in Counts \ {0}}
SweepRoms == {SweepRom(ops, rom_size - 1) : ops \in Opcodes}
----------------------------------------------------------------------------
Finished(kind) == machine.halt /\ machine.mem[KIND] = kind
Immediate(a) == machine.mem[a] + 256 * machine.mem[a + 1]
SignedWord(w) == IF w >= 32768 THEN w - 65536 ELSE w
Saved == ByteFlags(machine.mem[STACK - 2])   \* the flags of the byte-wise operation

\* Sixteen-bit addition done with ADD and ADC on the halves, as the C compiler emits it, and
\* with ADD HL agree with the sum, and their carries with its overflow, also when key
\* interrupts run the handler between any two instructions; the signed overflow of the
\* halves is the overflow of the words.
AdditionAgrees == Finished(1) =>
  LET x == Immediate(11)  y == Immediate(14)  signed == SignedWord(x) + SignedWord(y)
  IN  /\ BC(machine) = (x + y) % 65536 /\ HL(machine) = BC(machine)
      /\ ("C" \in Saved) <=> (x + y > 65535)
      /\ ("C" \in machine.flags) <=> (x + y > 65535)
      /\ ("PV" \in Saved) <=> signed \notin -32768 .. 32767

\* The same for subtraction: after it C orders the words as unsigned numbers and S # P/V as
\* signed ones, both for SBC on the halves and for SBC HL.
SubtractionOrders == Finished(2) =>
  LET x == Immediate(11)  y == Immediate(14)
      Orders(f) == /\ ("C" \in f) <=> (x < y)
                   /\ (("S" \in f) # ("PV" \in f)) <=> (SignedWord(x) < SignedWord(y))
  IN  /\ BC(machine) = (x - y) % 65536 /\ HL(machine) = BC(machine)
      /\ Orders(Saved) /\ Orders(machine.flags)
      /\ ("Z" \in machine.flags) <=> (x = y)

\* LDIR and LDDR, interrupted between any two of their iterations, move exactly the n bytes;
\* CPIR stops behind the first match or at the end, and Z tells which.
BlocksMoved ==
  /\ Finished(3) =>
       LET n == Immediate(11)
       IN  /\ BC(machine) = 0 /\ "PV" \notin machine.flags
           /\ \A k \in 0 .. KEY - BUF - 1 :
                machine.mem[BUF + k] = IF k \in 8 .. 7 + n THEN k - 8 ELSE k
  /\ Finished(4) =>
       LET c == machine.mem[11]  n == Immediate(13)  hit == c < n
       IN  /\ ("Z" \in machine.flags) <=> hit
           /\ HL(machine) = BUF + (IF hit THEN c + 1 ELSE n)
           /\ BC(machine) = IF hit THEN n - c - 1 ELSE 0

\* READ_DISK and WRITE_DISK, whatever interrupts arrive while the controller's registers are
\* being loaded, move exactly count sectors (one for a count of 0) between the buffer and the
\* image and return status 0; without a disk, or when the host cannot seek to a sector, they
\* return 1, and only the sectors before that one have been moved.  A sector that the host
\* does not write is not reported.
DriverTransfers ==
  LET n == machine.mem[11]  count == IF n = 0 THEN 1 ELSE n  lba == Immediate(13)
      mem == machine.mem  disk == machine.disk
      moved == Cardinality({c \in 0 .. count - 1 : lba .. lba + c \cap Unseekable = {}})
  IN  /\ Finished(5) \/ Finished(6) =>
           /\ machine.regs[REG_A] = IF disk = NoDisk \/ moved < count THEN 1 ELSE 0
           /\ HL(machine) = BUF /\ DE(machine) = lba
      /\ Finished(5) => \A k \in 0 .. KEY - BUF - 1 :
           LET sector == lba + k \div FDC_SECTOR_SIZE
           IN  mem[BUF + k] = IF disk # NoDisk /\ k < moved * FDC_SECTOR_SIZE /\ sector \in DOMAIN disk
                              THEN disk[sector][k % FDC_SECTOR_SIZE] ELSE k
      /\ Finished(6) /\ disk # NoDisk => \A c \in 0 .. count - 1, k \in 0 .. FDC_SECTOR_SIZE - 1 :
           IF c < moved /\ lba + c \notin Unwritable THEN disk[lba + c][k] = c * FDC_SECTOR_SIZE + k
           ELSE lba + c \in DOMAIN disk => \E old \in Disks \ {NoDisk} : disk[lba + c][k] = old[lba + c][k]

\* A subroutine called in a DJNZ loop returns every time, and when a routine ends the stack is
\* where it was: neither nested handlers nor CALL, RET, PUSH and POP leave anything behind.
StackBalanced ==
  /\ Finished(7) => HL(machine) = machine.mem[11]
  /\ machine.halt /\ machine.mem[KIND] \in 3 .. 7 => machine.sp = STACK /\ machine.iff1

\* Under weak fairness of execute every routine ends: interrupts do not keep the driver in
\* WAIT_DISK or a repeated instruction from its end.
RoutinesEnd == (machine.mem[KIND] # 0) ~> machine.halt
=============================================================================
