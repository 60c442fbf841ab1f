-------------------------------- MODULE Z80 --------------------------------
(***************************************************************************)
(* The machine bemu80 emulates (bemu80.c): the processor, its memory, the  *)
(* floppy controller and the serial port, as one record `machine', and the *)
(* main loop `execute' that polls for an interrupt and runs one            *)
(* instruction.  The instruction operators take the machine and return the *)
(* machine after it; the decoding into x, y, z, p and q is the code's.     *)
(* Cycle counts only pace the loop and are left out.                       *)
(***************************************************************************)
EXTENDS Alu, Sequences

CONSTANTS
  MEM_SIZE,          \* addresses at or above it read as 0
  rom_size,          \* addresses below it are not written
  FDC_SECTOR_SIZE,
  Roms,              \* the ROM images that may be loaded
  Disks,             \* the floppy images; NoDisk for a missing one
  NoDisk,
  Unseekable,        \* the sectors of the image to which the host's fseek fails
  Unwritable,        \* the sectors whose bytes the host's fputc does not take
  Keys,              \* the characters typed
  old_format,        \* the option that turns a newline into a carriage return
  MaxKeys            \* bound on how many are typed

ASSUME MemoryAssumption == MEM_SIZE \in 1 .. UINT16_MAX /\ rom_size \in 0 .. MEM_SIZE
\* ROM images, floppy images (a sequence of whole sectors) and keys are bytes.
ASSUME BytesAssumption ==
  /\ FDC_SECTOR_SIZE \in Nat /\ Roms \subseteq Seq(Byte) /\ Keys \subseteq Byte
  /\ \A disk \in Disks \ {NoDisk} :
       DOMAIN disk \subseteq Nat /\ disk \in [DOMAIN disk -> [0 .. FDC_SECTOR_SIZE - 1 -> Byte]]

VARIABLES
  machine,
  interrupt_pending,
  typed              \* how many keys have been typed

vars == <<machine, interrupt_pending, typed>>

REG_B == 0
REG_C == 1
REG_A == 7
----------------------------------------------------------------------------
GET_LOW(v) == v % 256
GET_HIGH(v) == v \div 256
set_low(w, v) == w - GET_LOW(w) + v
set_high(w, v) == GET_LOW(w) + 256 * v

\* Memory.  A 16-bit access needs both addresses; a write needs its first one above the ROM.
mread8(s, a) == IF a >= MEM_SIZE THEN 0 ELSE s.mem[a]
mwrite8(s, a, v) == IF a >= MEM_SIZE \/ a < rom_size THEN s ELSE [s EXCEPT !.mem[a] = v]
mread16(s, a) == IF a + 1 >= MEM_SIZE THEN 0 ELSE s.mem[a] + 256 * s.mem[a + 1]
\* Mutant: the ROM is not protected.
mwrite16_Rom(s, a, v) ==
  IF a + 1 >= MEM_SIZE THEN s ELSE [s EXCEPT !.mem[a] = GET_LOW(v), !.mem[a + 1] = GET_HIGH(v)]
mwrite16(s, a, v) ==
  IF a + 1 >= MEM_SIZE \/ a < rom_size THEN s
  ELSE [s EXCEPT !.mem[a] = GET_LOW(v), !.mem[a + 1] = GET_HIGH(v)]

Signed(b) == IF b >= 128 THEN b - 256 ELSE b
Skip(s, n) == [s EXCEPT !.pc = (@ + n) % 65536]
Jump(s, a) == [s EXCEPT !.pc = a]
Branch(s, d) == Skip(s, Signed(d))

\* The operand bytes at pc, and the machine once they have been fetched.
fByte(s) == mread8(s, s.pc)
fWord(s) == mread16(s, s.pc)

push(s, v) == LET sp == (s.sp - 2) % 65536 IN mwrite16([s EXCEPT !.sp = sp], sp, v)
popped(s) == mread16(s, s.sp)
\* Mutant: only one byte is taken.
pop_Byte(s) == [s EXCEPT !.sp = (@ + 1) % 65536]
pop(s) == [s EXCEPT !.sp = (@ + 2) % 65536]
----------------------------------------------------------------------------
\* Registers: pairs 0, 1 and 2 are BC, DE and HL.
Pair(s, k) == 256 * s.regs[2 * k] + s.regs[2 * k + 1]
SetPair(s, k, v) == [s EXCEPT !.regs[2 * k] = v \div 256, !.regs[2 * k + 1] = v % 256]
BC(s) == Pair(s, 0)
DE(s) == Pair(s, 1)
HL(s) == Pair(s, 2)
set_hl(s, v) == SetPair(s, 2, v)
AF(s) == 256 * s.regs[REG_A] + FlagByte(s.flags)
set_af(s, v) == [s EXCEPT !.regs[REG_A] = v \div 256, !.flags = ByteFlags(v % 256)]

get_r8(s, k) == IF k = 6 THEN mread8(s, HL(s)) ELSE s.regs[k]
set_r8(s, k, v) == IF k = 6 THEN mwrite8(s, HL(s), v) ELSE [s EXCEPT !.regs[k] = v]
get_r16_1(s, p) == IF p = 3 THEN s.sp ELSE Pair(s, p)
set_r16_1(s, p, v) == IF p = 3 THEN [s EXCEPT !.sp = v] ELSE SetPair(s, p, v)
get_r16_2(s, p) == IF p = 3 THEN AF(s) ELSE Pair(s, p)
set_r16_2(s, p, v) == IF p = 3 THEN set_af(s, v) ELSE SetPair(s, p, v)
inc16(v) == (v + 1) % 65536
dec16(v) == (v - 1) % 65536

\* With an index register ix or iy, H and L are its halves and HL is the register itself.
get_r8_index(s, k, idx) ==
  IF k = 4 THEN GET_HIGH(s[idx]) ELSE IF k = 5 THEN GET_LOW(s[idx]) ELSE s.regs[k]
set_r8_index(s, k, v, idx) ==
  IF k = 4 THEN [s EXCEPT ![idx] = set_high(@, v)]
  ELSE IF k = 5 THEN [s EXCEPT ![idx] = set_low(@, v)] ELSE [s EXCEPT !.regs[k] = v]
get_r16_index(s, p, idx) == IF p = 3 THEN s.sp ELSE IF p = 2 THEN s[idx] ELSE Pair(s, p)
get_index_addr(s, idx) == (s[idx] + Signed(fByte(s))) % 65536

\* The machine with an ALU result in register k, or in A with its flags.
Put(s, k, res) == set_r8([s EXCEPT !.flags = res.f], k, res.v)
exchange(s, j, k) == SetPair(SetPair(s, j, Pair(s, k)), k, Pair(s, j))
exchange_af(s) ==
  [s EXCEPT !.regs[REG_A] = s.shadow_regs[REG_A], !.flags = s.shadow_flags,
            !.shadow_regs[REG_A] = s.regs[REG_A], !.shadow_flags = s.flags]
EXX(s) ==
  [s EXCEPT !.regs = [k \in 0 .. 7 |-> IF k <= 5 THEN s.shadow_regs[k] ELSE @[k]],
            !.shadow_regs = [k \in 0 .. 7 |-> IF k <= 5 THEN s.regs[k] ELSE @[k]]]
----------------------------------------------------------------------------
\* The floppy controller: a command takes the latched registers, clears them and moves
\* count sectors, one after the other, between memory and the image.
SectorAt(s, dma) == [k \in 0 .. FDC_SECTOR_SIZE - 1 |-> mread8(s, (dma + k) % 65536)]
offset(a, dma) == (a - dma) % 65536
LoadSector(s, lba, dma) ==
  IF lba \notin DOMAIN s.disk THEN s
  ELSE [s EXCEPT !.mem = [a \in DOMAIN @ |->
          LET k == offset(a, dma)
          IN  IF k < FDC_SECTOR_SIZE /\ a >= rom_size THEN s.disk[lba][k] ELSE @[a]]]
StoreSector(s, lba, dma) ==
  IF lba \in Unwritable THEN s ELSE
  [s EXCEPT !.disk = [n \in DOMAIN @ \cup 0 .. lba |->
     IF n = lba THEN SectorAt(s, dma)
     ELSE IF n \in DOMAIN @ THEN @[n] ELSE [k \in 0 .. FDC_SECTOR_SIZE - 1 |-> 0]]]
\* Mutant: read and write are swapped.
Transfer_Swapped(s, cmd, lba, dma) ==
  CASE cmd = 2 -> LoadSector(s, lba, dma) [] cmd = 1 -> StoreSector(s, lba, dma) [] OTHER -> s
Transfer(s, cmd, lba, dma) ==
  CASE cmd = 1 -> LoadSector(s, lba, dma) [] cmd = 2 -> StoreSector(s, lba, dma) [] OTHER -> s

\* The loop over the sectors, which an fseek that fails ends.
Stopped(s, c) == \E b \in 0 .. c - 1 : (s.fdc.lba + b) % 65536 \in Unseekable
Transfers(s, cmd) ==
  LET after[c \in Nat] ==
        IF c = 0 THEN s
        ELSE IF Stopped(s, c) THEN after[c - 1]
        ELSE Transfer(after[c - 1], cmd, (s.fdc.lba + c - 1) % 65536,
                      (s.fdc.dma + (c - 1) * FDC_SECTOR_SIZE) % 65536)
  IN  after[s.fdc.count]

\* Mutant: the command that a failing fseek ends leaves the controller busy.
fdc_cmd_Busy(s, cmd) ==
  IF s.disk = NoDisk THEN [s EXCEPT !.fdc.status = 1]
  ELSE [Transfers(s, cmd) EXCEPT !.fdc = [status |-> IF Stopped(s, s.fdc.count) THEN 2 ELSE 0,
                                          count |-> 0, lba |-> 0, dma |-> 0]]

fdc_cmd(s, cmd) ==
  IF s.disk = NoDisk THEN [s EXCEPT !.fdc.status = 1]
  ELSE [Transfers(s, cmd) EXCEPT !.fdc = [status |-> IF Stopped(s, s.fdc.count) THEN 1 ELSE 0,
                                          count |-> 0, lba |-> 0, dma |-> 0]]

\* The serial port.
ACIA_write_cmd(s, v) ==
  IF v % 4 = 3 THEN [s EXCEPT !.acia.ctrl = 0, !.acia.status = 2]
  ELSE [s EXCEPT !.acia.ctrl = v]
ACIA_read_data(s) ==
  [s EXCEPT !.acia.receive = 0, !.acia.status = ByteOf[BitSet[@] \ {0, 5}]]

output_handler(s, port, v) ==
  CASE port = 16  -> fdc_cmd(s, v)
    [] port = 17  -> [s EXCEPT !.fdc.lba = set_low(@, v)]
    [] port = 18  -> [s EXCEPT !.fdc.lba = set_high(@, v)]
    [] port = 19  -> [s EXCEPT !.fdc.dma = set_low(@, v)]
    [] port = 20  -> [s EXCEPT !.fdc.dma = set_high(@, v)]
    [] port = 22  -> [s EXCEPT !.fdc.count = IF v = 0 THEN 1 ELSE v]
    [] port = 128 -> ACIA_write_cmd(s, v)
    [] port = 129 -> [s EXCEPT !.acia.transmit = v]
    [] OTHER      -> s

\* What a port reads as, and the machine once it has been read.
input_value(s, port) ==
  CASE port = 129 -> s.acia.receive [] port = 128 -> s.acia.status
    [] port = 21 -> s.fdc.status [] OTHER -> 0
input_handler(s, port) == IF port = 129 THEN ACIA_read_data(s) ELSE s
----------------------------------------------------------------------------
\* Groups.  An operator of a group gets the machine with pc behind the opcode.
AluOp(f, a, b, y) ==
  CASE y = 0 -> add8(f, a, b) [] y = 1 -> adc8(f, a, b)
    [] y = 2 -> sub8(f, a, b) [] y = 3 -> sbc8(f, a, b)
    [] y = 4 -> and8(f, a, b) [] y = 5 -> xor8(f, a, b) [] y = 6 -> or8(f, a, b)
    [] y = 7 -> [v |-> a, f |-> cp8(f, a, b)]
Accumulate(s, y, b) == Put(s, REG_A, AluOp(s.flags, s.regs[REG_A], b, y))

op_load(s, y, z) ==
  IF y = 6 /\ z = 6 THEN [s EXCEPT !.halt = TRUE] ELSE set_r8(s, y, get_r8(s, z))
op_alu(s, y, z) == Accumulate(s, y, get_r8(s, z))

\* z = 0: NOP, EX AF, DJNZ, JR and the conditional JR
RelativeJumps(s, y) ==
  LET next == Skip(s, 1)  d == fByte(s)
  IN  CASE y = 0 -> s
        [] y = 1 -> exchange_af(s)
        [] y = 2 -> LET b == (s.regs[REG_B] - 1) % 256  n == [next EXCEPT !.regs[REG_B] = b]
                    IN  IF b # 0 THEN Branch(n, d) ELSE n
        [] y = 3 -> Branch(next, d)
        [] y >= 4 -> IF check_cond(s.flags, y - 4) THEN Branch(next, d) ELSE next
\* z = 2: loads through BC, DE and an absolute address
IndirectLoads(s, p, q) ==
  LET next == Skip(s, 2)  nn == fWord(s)  a == s.regs[REG_A]
  IN  CASE q = 1 /\ p <= 1 -> [s EXCEPT !.regs[REG_A] = mread8(s, Pair(s, p))]
        [] q = 1 /\ p = 2  -> set_hl(next, mread16(s, nn))
        [] q = 1 /\ p = 3  -> [next EXCEPT !.regs[REG_A] = mread8(s, nn)]
        [] q = 0 /\ p <= 1 -> mwrite8(s, Pair(s, p), a)
        [] q = 0 /\ p = 2  -> mwrite16(next, nn, HL(s))
        [] q = 0 /\ p = 3  -> mwrite8(next, nn, a)
\* z = 7: operations on A and the carry (DAA is not implemented)
AccumulatorOps(s, y) ==
  LET a == s.regs[REG_A]  c == getFlag(s.flags, "C")
      Result(v, mask, f) == [s EXCEPT !.regs[REG_A] = v, !.flags = update_flagsYX((@ \ mask) \cup f, v)]
  IN  CASE y = 0 -> Result((2 * a + Bit(a, 7)) % 256, {"C", "N", "H"}, When(Bit(a, 7) = 1, "C"))
        [] y = 1 -> Result((a \div 2) + 128 * Bit(a, 0), {"C"}, When(Bit(a, 0) = 1, "C"))
        [] y = 2 -> Result((2 * a + c) % 256, {"C", "N", "H"}, When(Bit(a, 7) = 1, "C"))
        [] y = 3 -> Result((a \div 2) + 128 * c, {"C"}, When(Bit(a, 0) = 1, "C"))
        [] y = 4 -> s
        [] y = 5 -> Result(255 - a, {}, {"N", "H"})
        [] y = 6 -> Result(a, {"N", "H"}, {"C"})
        [] y = 7 -> Result(a, {"N", "H", "C"}, IF c = 1 THEN {"H"} ELSE {"C"})

group_x0(s, y, z) ==
  LET p == y \div 2  q == y % 2  pair == get_r16_1(s, p)
      sum == add16(s.flags, HL(s), pair)
  IN  CASE z = 0 -> RelativeJumps(s, y)
        [] z = 1 /\ q = 1 -> set_hl([s EXCEPT !.flags = sum.f], sum.v)
        [] z = 1 /\ q = 0 -> set_r16_1(Skip(s, 2), p, fWord(s))
        [] z = 2 -> IndirectLoads(s, p, q)
        [] z = 3 -> set_r16_1(s, p, IF q = 1 THEN dec16(pair) ELSE inc16(pair))
        [] z = 4 -> Put(s, y, inc8(s.flags, get_r8(s, y)))
        [] z = 5 -> Put(s, y, dec8(s.flags, get_r8(s, y)))
        [] z = 6 -> set_r8(Skip(s, 1), y, fByte(s))
        [] z = 7 -> AccumulatorOps(s, y)
----------------------------------------------------------------------------
\* CB prefix: rotates, BIT, RES and SET.  Selector 3 decodes to rl8, as selector 2 does.
RotOp(f, v, y) ==
  CASE y = 0 -> rlc8(f, v) [] y = 1 -> rrc8(f, v) [] y \in {2, 3} -> rl8(f, v)
    [] y = 4 -> sla8(f, v) [] y = 5 -> sra8(f, v) [] y = 6 -> sll8(f, v) [] y = 7 -> srl8(f, v)
prefix_cb(s) ==
  LET op == fByte(s)  x == op \div 64  y == (op \div 8) % 8  z == op % 8
      next == Skip(s, 1)  val == get_r8(s, z)
  IN  CASE x = 0 -> Put(next, z, RotOp(s.flags, val, y))
        [] x = 1 -> [next EXCEPT !.flags = bit8(@, val, y)]
        [] x = 2 -> set_r8(next, z, res8(val, y))
        [] x = 3 -> set_r8(next, z, set8(val, y))

\* The indexed form leaves memory alone: its write-back stands behind the last break.
prefix_cb_index(s, idx) ==
  LET op == fByte(Skip(s, 1))  x == op \div 64  y == (op \div 8) % 8
      val == mread8(s, get_index_addr(s, idx))
  IN  [Skip(s, 2) EXCEPT !.flags = CASE x = 0 -> RotOp(@, val, y).f
                                     [] x = 1 -> bit8(@, val, y) [] OTHER -> @]
----------------------------------------------------------------------------
\* Block moves, searches, input and output; the repeating forms step pc back.
op_block_instruction(s, y, z) ==
  LET Move(v) == IF y % 2 = 1 THEN dec16(v) ELSE inc16(v)
      Again(n, more) == IF (y \div 2) % 2 = 1 /\ more THEN Skip(n, -2) ELSE n
      left == dec16(BC(s))
      Counted(n, stop) ==
        LET m == SetPair(set_hl(n, Move(HL(s))), 0, left)
        IN  Again([m EXCEPT !.flags = setFlag(@, {"PV"}, left # 0)], left # 0 /\ ~stop)
      count == dec8(s.flags, s.regs[REG_B])
      Ported(n) == Again([set_hl(n, Move(HL(s))) EXCEPT !.regs[REG_B] = count.v, !.flags = count.f],
                         count.v # 0)
      found == cp8(s.flags, s.regs[REG_A], mread8(s, HL(s)))
      port == s.regs[REG_C]
  IN  CASE z = 0 -> Counted(SetPair(mwrite8(s, DE(s), mread8(s, HL(s))), 1, Move(DE(s))), FALSE)
        [] z = 1 -> Counted([s EXCEPT !.flags = found], "Z" \in found)
        [] z = 2 -> Ported(mwrite8(input_handler(s, port), HL(s), input_value(s, port)))
        [] z = 3 -> Ported(output_handler(s, port, mread8(s, HL(s))))

\* ED prefix, z = 7: I and R, RRD and RLD
EdMisc(s, y) ==
  LET a == s.regs[REG_A]  m == mread8(s, HL(s))  lo == a % 16  hi == a - lo
      FromSpecial(v) == [s EXCEPT !.regs[REG_A] = v,
        !.flags = (@ \ {"S", "Z", "N", "H", "PV"}) \cup SignZero(v) \cup When(s.iff2, "PV")]
      Digits(v, byte) == [mwrite8(s, HL(s), byte) EXCEPT !.regs[REG_A] = v,
        !.flags = (@ \cap {"C"}) \cup SignZero(v) \cup Parity(v) \cup YX(v)]
  IN  CASE y = 0 -> [s EXCEPT !.i = a]
        [] y = 1 -> [s EXCEPT !.r = a]
        [] y = 2 -> FromSpecial(s.i)
        [] y = 3 -> FromSpecial(s.r)
        [] y = 4 -> Digits(hi + (m % 16), (m \div 16) + 16 * lo)
        [] y = 5 -> Digits(hi + (m \div 16), 16 * (m % 16) + lo)
        [] OTHER -> s
prefix_ed(t) ==
  LET op == fByte(t)  x == op \div 64  y == (op \div 8) % 8  z == op % 8
      s == Skip(t, 1)  p == y \div 2  q == y % 2  port == s.regs[REG_C]  nn == fWord(s)
      wide == IF q = 1 THEN adc16(s.flags, HL(s), get_r16_1(s, p))
                       ELSE sbc16(s.flags, HL(s), get_r16_1(s, p))
  IN  CASE x = 1 /\ z = 0 -> IF y = 6 THEN s ELSE set_r8(input_handler(s, port), y, input_value(s, port))
        [] x = 1 /\ z = 1 -> output_handler(s, port, IF y = 6 THEN 0 ELSE get_r8(s, y))
        [] x = 1 /\ z = 2 -> set_hl([s EXCEPT !.flags = wide.f], wide.v)
        [] x = 1 /\ z = 3 -> IF q = 1 THEN set_r16_1(Skip(s, 2), p, mread16(s, nn))
                                      ELSE mwrite16(Skip(s, 2), nn, get_r16_1(s, p))
        [] x = 1 /\ z = 4 -> Put(s, REG_A, sub8(s.flags, 0, s.regs[REG_A]))
        [] x = 1 /\ z = 5 -> [Jump(pop(s), popped(s)) EXCEPT !.iff1 = IF y = 1 THEN @ ELSE s.iff2]
        [] x = 1 /\ z = 6 -> [s EXCEPT !.im = <<0, 0, 1, 2, 0, 0, 1, 2>>[y + 1]]
        [] x = 1 /\ z = 7 -> EdMisc(s, y)
        [] x = 2 /\ z <= 3 /\ y >= 4 -> op_block_instruction(s, y, z)
        [] OTHER -> s
----------------------------------------------------------------------------
\* DD and FD prefixes: ix or iy instead of HL; a displacement byte with (HL).
IndexArith(s, y, z, idx) ==
  LET p == y \div 2  q == y % 2  addr == get_index_addr(s, idx)
      sum == add16(s.flags, s[idx], get_r16_index(s, p, idx))
      InMem(res) == mwrite8([Skip(s, 1) EXCEPT !.flags = res.f], addr, res.v)
      InReg(res) == set_r8_index([s EXCEPT !.flags = res.f], y, res.v, idx)
      old == IF y = 6 THEN mread8(s, addr) ELSE get_r8_index(s, y, idx)
  IN  CASE z = 1 /\ q = 1 -> [s EXCEPT ![idx] = sum.v, !.flags = sum.f]
        [] z = 1 /\ y = 4 -> [Skip(s, 2) EXCEPT ![idx] = fWord(s)]
        [] z = 2 /\ y = 4 -> mwrite16(Skip(s, 2), fWord(s), s[idx])
        [] z = 2 /\ y = 5 -> [Skip(s, 2) EXCEPT ![idx] = mread16(s, fWord(s))]
        [] z = 3 /\ p = 2 -> [s EXCEPT ![idx] = IF q = 1 THEN dec16(@) ELSE inc16(@)]
        [] z = 4 -> IF y = 6 THEN InMem(inc8(s.flags, old)) ELSE InReg(inc8(s.flags, old))
        [] z = 5 -> IF y = 6 THEN InMem(dec8(s.flags, old)) ELSE InReg(dec8(s.flags, old))
        [] z = 6 -> IF y = 6 THEN mwrite8(Skip(s, 2), addr, fByte(Skip(s, 1)))
                             ELSE set_r8_index(Skip(s, 1), y, fByte(s), idx)
        [] OTHER -> s
IndexLoad(s, y, z, idx) ==
  LET addr == get_index_addr(s, idx)
  IN  CASE y = 6 /\ z = 6 -> s
        [] y = 6 /\ z # 6 -> mwrite8(Skip(s, 1), addr, get_r8(s, z))
        [] y # 6 /\ z = 6 -> set_r8(Skip(s, 1), y, mread8(s, addr))
        [] y # 6 /\ z # 6 -> set_r8_index(s, y, get_r8_index(s, z, idx), idx)
IndexAlu(s, y, z, idx) ==
  IF z = 6 THEN Accumulate(Skip(s, 1), y, mread8(s, get_index_addr(s, idx)))
           ELSE Accumulate(s, y, get_r8_index(s, z, idx))
IndexStack(s, y, z, idx) ==
  CASE z = 1 /\ y = 4 -> [pop(s) EXCEPT ![idx] = popped(s)]
    [] z = 1 /\ y = 5 -> Jump(s, s[idx])
    [] z = 1 /\ y = 7 -> [s EXCEPT !.sp = s[idx]]
    [] z = 3 /\ y = 1 -> prefix_cb_index(s, idx)
    [] z = 3 /\ y = 4 -> [mwrite16(s, s.sp, s[idx]) EXCEPT ![idx] = popped(s)]
    [] z = 5 /\ y = 4 -> push(s, s[idx])
    [] OTHER -> s
prefix_dd_fd(t, idx) ==
  LET op == fByte(t)  x == op \div 64  y == (op \div 8) % 8  z == op % 8  s == Skip(t, 1)
  IN  CASE x = 0 -> IndexArith(s, y, z, idx) [] x = 1 -> IndexLoad(s, y, z, idx)
        [] x = 2 -> IndexAlu(s, y, z, idx)   [] x = 3 -> IndexStack(s, y, z, idx)
----------------------------------------------------------------------------
Call(s, a) == Jump(push(s, s.pc), a)

\* z = 1: RET, EXX, JP (HL), LD SP,HL and POP
PopGroup(s, p, q) ==
  CASE q = 0 -> set_r16_2(pop(s), p, popped(s))
    [] q = 1 /\ p = 0 -> Jump(pop(s), popped(s))
    [] q = 1 /\ p = 1 -> EXX(s)
    [] q = 1 /\ p = 2 -> Jump(s, HL(s))
    [] q = 1 /\ p = 3 -> [s EXCEPT !.sp = HL(s)]
\* z = 3: JP, the CB prefix, OUT, IN, EX (SP),HL, EX DE,HL, DI and EI
MiscGroup(s, y) ==
  LET next == Skip(s, 1)
  IN  CASE y = 0 -> Jump(s, fWord(s))
        [] y = 1 -> prefix_cb(s)
        [] y = 2 -> output_handler(next, fByte(s), s.regs[REG_A])
        [] y = 3 -> [input_handler(next, fByte(s)) EXCEPT !.regs[REG_A] = input_value(s, fByte(s))]
        [] y = 4 -> set_hl(mwrite16(s, s.sp, HL(s)), popped(s))
        [] y = 5 -> exchange(s, 1, 2)
        [] y = 6 -> [s EXCEPT !.iff1 = FALSE, !.iff2 = FALSE]
        [] y = 7 -> [s EXCEPT !.iff1 = TRUE, !.iff2 = TRUE]
\* z = 5: PUSH, CALL and the other prefixes
CallGroup(s, p, q) ==
  CASE q = 0 -> push(s, get_r16_2(s, p))
    [] q = 1 /\ p = 0 -> Call(Skip(s, 2), fWord(s))
    [] q = 1 /\ p = 1 -> prefix_dd_fd(s, "ix")
    [] q = 1 /\ p = 2 -> prefix_ed(s)
    [] q = 1 /\ p = 3 -> prefix_dd_fd(s, "iy")
group_x3(s, y, z) ==
  LET p == y \div 2  q == y % 2  taken == check_cond(s.flags, y)  next == Skip(s, 2)  nn == fWord(s)
  IN  CASE z = 0 -> IF taken THEN Jump(pop(s), popped(s)) ELSE s
        [] z = 1 -> PopGroup(s, p, q)
        [] z = 2 -> IF taken THEN Jump(next, nn) ELSE next
        [] z = 3 -> MiscGroup(s, y)
        [] z = 4 -> IF taken THEN Call(next, nn) ELSE next
        [] z = 5 -> CallGroup(s, p, q)
        [] z = 6 -> Accumulate(Skip(s, 1), y, fByte(s))
        [] z = 7 -> Call(s, 8 * y)

dispatch(s, op) ==
  LET x == op \div 64  y == (op \div 8) % 8  z == op % 8
  IN  CASE x = 0 -> group_x0(s, y, z) [] x = 1 -> op_load(s, y, z)
        [] x = 2 -> op_alu(s, y, z)   [] x = 3 -> group_x3(s, y, z)
step(s) == dispatch([Skip(s, 1) EXCEPT !.r = (@ + 1) % 128], fByte(s))

\* Only interrupt mode 1 is supported; in the others the request is dropped.
interrupt(s) ==
  IF s.iff1 /\ s.im = 1 THEN Call([s EXCEPT !.iff1 = FALSE, !.iff2 = FALSE], 56) ELSE s
----------------------------------------------------------------------------
\* main: everything is zero, the ROM image is copied to address 0.
Init ==
  /\ \E rom \in Roms, disk \in Disks :
       machine = [regs |-> [k \in 0 .. 7 |-> 0], shadow_regs |-> [k \in 0 .. 7 |-> 0],
                  flags |-> {}, shadow_flags |-> {}, ix |-> 0, iy |-> 0, pc |-> 0, sp |-> 0,
                  i |-> 0, r |-> 0, im |-> 0, iff1 |-> FALSE, iff2 |-> FALSE, halt |-> FALSE,
                  mem |-> [a \in 0 .. MEM_SIZE - 1 |-> IF a < Len(rom) THEN rom[a + 1] ELSE 0],
                  fdc |-> [status |-> 0, count |-> 0, lba |-> 0, dma |-> 0], disk |-> disk,
                  acia |-> [ctrl |-> 0, status |-> 2, transmit |-> 0, receive |-> 0]]
  /\ interrupt_pending = FALSE
  /\ typed = 0

\* input_thread: the character goes to the port, as a carriage return if old_format asks for it, and the
\* processor is interrupted if it listens.  Bound: MaxKeys keys.
KeyTyped(ch) ==
  /\ typed < MaxKeys
  /\ typed' = typed + 1
  /\ machine' = [machine EXCEPT !.acia.receive = IF old_format /\ ch = 10 THEN 13 ELSE ch,
                   !.acia.status = ByteOf[BitSet[@] \cup IF 0 \in BitSet[@] THEN {0, 5} ELSE {0}]]
  /\ interrupt_pending' = (interrupt_pending \/ Bit(machine.acia.ctrl, 7) = 1)

\* One turn of the loop in execute: the poll, then one instruction.  Bound: a machine whose
\* pc has left the small memory is not followed further (it would run through zeros, NOPs).
execute ==
  /\ ~machine.halt
  /\ machine.pc < MEM_SIZE
  /\ machine' = step(IF interrupt_pending THEN interrupt(machine) ELSE machine)
  /\ interrupt_pending' = FALSE
  /\ UNCHANGED typed

Next == execute \/ \E ch \in Keys : KeyTyped(ch)
Spec == Init /\ [][Next]_vars /\ WF_vars(execute)

\* Every register holds a value of its width.
TypeOK ==
  /\ \A k \in 0 .. 7 : machine.regs[k] \in Byte /\ machine.shadow_regs[k] \in Byte
  /\ machine.flags \subseteq Flags /\ machine.shadow_flags \subseteq Flags
  /\ {machine.ix, machine.iy, machine.pc, machine.sp, machine.fdc.lba, machine.fdc.dma} \subseteq Word
  /\ {machine.i, machine.r, machine.fdc.count, machine.acia.receive, machine.acia.status} \subseteq Byte
  /\ \A a \in DOMAIN machine.mem : machine.mem[a] \in Byte

\* Whatever instruction runs, with whatever operands, and whatever the controller loads, the
\* bytes below rom_size stay as loaded (the guards of mwrite8 and mwrite16).
RomIntact == [][\A a \in 0 .. rom_size - 1 : machine'.mem[a] = machine.mem[a]]_vars
=============================================================================
