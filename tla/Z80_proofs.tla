----------------------------- MODULE Z80_proofs -----------------------------
(***************************************************************************)
(* Proofs about Z80, for every ROM, disk and sequence of keys: every       *)
(* instruction leaves values of the right width in every register and in   *)
(* memory, and nothing, no instruction, interrupt or floppy transfer,      *)
(* writes below rom_size.                                                  *)
(***************************************************************************)
EXTENDS Z80, TLAPS, NaturalsInduction, WellFoundedInduction

-----------------------------------------------------------------------------
(* Bytes, words and bits                                                   *)

LEMMA ByteDef == \A v : v \in Byte <=> v \in Int /\ 0 <= v /\ v <= 255
<1>1. UINT8_MAX \in Int /\ UINT8_MAX <= 255 /\ 255 <= UINT8_MAX
  BY DEF UINT8_MAX
<1> QED BY <1>1 DEF Byte

LEMMA WordDef == \A v : v \in Word <=> v \in Int /\ 0 <= v /\ v <= 65535
<1>1. UINT16_MAX \in Int /\ UINT16_MAX <= 65535 /\ 65535 <= UINT16_MAX
  BY DEF UINT16_MAX
<1> QED BY <1>1 DEF Word

LEMMA MemSizes ==
  MEM_SIZE \in Int /\ rom_size \in Int /\ 1 <= MEM_SIZE /\ MEM_SIZE <= 65535
  /\ 0 <= rom_size /\ rom_size <= MEM_SIZE
<1>1. MEM_SIZE \in Int /\ rom_size \in Int /\ 1 <= MEM_SIZE /\ 0 <= rom_size /\ rom_size <= MEM_SIZE
      /\ MEM_SIZE <= UINT16_MAX
  <2>1. UINT16_MAX \in Int
    BY DEF UINT16_MAX
  <2> QED BY <2>1, MemoryAssumption
<1>2. UINT16_MAX \in Int /\ UINT16_MAX <= 65535
  BY DEF UINT16_MAX
<1> QED BY <1>1, <1>2

LEMMA Cut8 == ASSUME NEW v \in Int PROVE v % 256 \in Byte
BY ByteDef
LEMMA Cut16 == ASSUME NEW v \in Int PROVE v % 65536 \in Word
BY WordDef
LEMMA Halves == ASSUME NEW w \in Word PROVE w \div 256 \in Byte /\ w % 256 \in Byte
BY ByteDef, WordDef
LEMMA Joined == ASSUME NEW h \in Byte, NEW l \in Byte PROVE 256 * h + l \in Word /\ h + 256 * l \in Word
BY ByteDef, WordDef
LEMMA Small == Byte \subseteq Word /\ Word \subseteq Int /\ Byte \subseteq Int
BY ByteDef, WordDef

LEMMA BitRange == ASSUME NEW v \in Int PROVE Bit(v, 0) \in {0, 1} /\ Bit(v, 7) \in {0, 1}
<1>1. Weight[0 + 1] = 1 /\ Weight[7 + 1] = 128
  BY DEF Weight
<1>2. (v \div 1) % 2 \in {0, 1} /\ (v \div 128) % 2 \in {0, 1}
  OBVIOUS
<1> QED BY <1>1, <1>2 DEF Bit

LEMMA BitSets == ASSUME NEW v \in Byte PROVE BitSet[v] \in SUBSET (0 .. 7)
BY DEF BitSet

LEMMA ByteOfByte == ASSUME NEW B \in SUBSET (0 .. 7) PROVE ByteOf[B] \in Byte
<1> DEFINE On(k) == IF k \in B THEN Weight[k + 1] ELSE 0
<1>1. /\ On(0) \in {0, 1} /\ On(1) \in {0, 2} /\ On(2) \in {0, 4} /\ On(3) \in {0, 8}
      /\ On(4) \in {0, 16} /\ On(5) \in {0, 32} /\ On(6) \in {0, 64} /\ On(7) \in {0, 128}
  BY DEF Weight
<1>2. ByteOf[B] = On(0) + On(1) + On(2) + On(3) + On(4) + On(5) + On(6) + On(7)
  BY Zenon DEF ByteOf
<1> HIDE DEF On
<1> QED BY <1>1, <1>2, ByteDef

LEMMA AllFlags == Flags = {"C", "N", "PV", "X", "H", "Y", "Z", "S"}
BY DEF Flags, FlagWeight

LEMMA FlagByteByte == ASSUME NEW f PROVE FlagByte(f) \in Byte
<1> DEFINE On(n) == IF n \in f THEN FlagWeight[n] ELSE 0
<1>1. /\ On("C") \in {0, 1} /\ On("N") \in {0, 2} /\ On("PV") \in {0, 4} /\ On("X") \in {0, 8}
      /\ On("H") \in {0, 16} /\ On("Y") \in {0, 32} /\ On("Z") \in {0, 64} /\ On("S") \in {0, 128}
  BY DEF FlagWeight
<1>2. FlagByte(f) = On("C") + On("N") + On("PV") + On("X") + On("H") + On("Y") + On("Z") + On("S")
  BY DEF FlagByte
<1> HIDE DEF On
<1> QED BY <1>1, <1>2, ByteDef

LEMMA SomeFlags ==
  /\ \A r : SignZero(r) \in SUBSET Flags /\ YX(r) \in SUBSET Flags /\ Parity(r) \in SUBSET Flags
  /\ \A v : ByteFlags(v) \in SUBSET Flags
  /\ {"N"} \in SUBSET Flags /\ {"H"} \in SUBSET Flags /\ {"C"} \in SUBSET Flags
<1>1. /\ "C" \in Flags /\ "N" \in Flags /\ "PV" \in Flags /\ "X" \in Flags
      /\ "H" \in Flags /\ "Y" \in Flags /\ "Z" \in Flags /\ "S" \in Flags
  BY AllFlags
<1>2. ASSUME NEW r PROVE SignZero(r) \in SUBSET Flags
  BY <1>1 DEF SignZero, When
<1>3. ASSUME NEW r PROVE YX(r) \in SUBSET Flags
  BY <1>1 DEF YX, When
<1>4. ASSUME NEW r PROVE Parity(r) \in SUBSET Flags
  BY <1>1 DEF Parity, When
<1>5. ASSUME NEW v PROVE ByteFlags(v) \in SUBSET Flags
  BY DEF ByteFlags
<1> QED BY <1>1, <1>2, <1>3, <1>4, <1>5

-----------------------------------------------------------------------------
(* The arithmetic: results of the width of the operands, flags that are    *)
(* flags                                                                   *)

FlagSet == SUBSET Flags
Res8 == [v : Byte, f : FlagSet]
Res16 == [v : Word, f : FlagSet]

LEMMA Unions == ASSUME NEW f \in FlagSet, NEW g \in FlagSet, NEW h PROVE f \cup g \in FlagSet /\ f \ h \in FlagSet /\ f \cap h \in FlagSet
BY DEF FlagSet

LEMMA Carry == ASSUME NEW f PROVE getFlag(f, "C") \in {0, 1}
BY DEF getFlag

LEMMA YXFlags == ASSUME NEW f \in FlagSet, NEW r PROVE update_flagsYX(f, r) \in FlagSet
BY SomeFlags DEF update_flagsYX, FlagSet

LEMMA SetFlags == ASSUME NEW f \in FlagSet, NEW g \in FlagSet, NEW c PROVE setFlag(f, g, c) \in FlagSet
BY DEF setFlag, FlagSet

LEMMA Sum8Type == ASSUME NEW a \in Byte, NEW b \in Byte, NEW c \in {0, 1} PROVE Sum8(a, b, c) \in Res8
<1>1. (a + b + c) % 256 \in Byte
  BY Cut8, Small
<1>2. Sum8(a, b, c).f \in FlagSet
  BY SomeFlags, AllFlags DEF Sum8, When, FlagSet
<1> QED BY <1>1, <1>2 DEF Sum8, Res8

LEMMA Diff8Type == ASSUME NEW a \in Byte, NEW b \in Byte, NEW c \in {0, 1} PROVE Diff8(a, b, c) \in Res8
<1>1. Low16(a - b - c) \in Int
  BY Cut16, Small DEF Low16
<1>2. Low16(a - b - c) % 256 \in Byte
  BY <1>1, Cut8
<1>3. Diff8(a, b, c).f \in FlagSet
  BY SomeFlags, AllFlags DEF Diff8, When, FlagSet
<1> QED BY <1>2, <1>3 DEF Diff8, Res8

LEMMA LogicType == ASSUME NEW r \in Byte, NEW h \in FlagSet PROVE Logic(r, h) \in Res8
BY SomeFlags DEF Logic, Res8, FlagSet

LEMMA AluType ==
  ASSUME NEW f, NEW a \in Byte, NEW b \in Byte, NEW y \in 0 .. 7
  PROVE  AluOp(f, a, b, y) \in Res8
<1>1. add8(f, a, b) \in Res8 /\ adc8(f, a, b) \in Res8
  BY Sum8Type, Carry DEF add8, adc8
<1>2. sub8(f, a, b) \in Res8 /\ sbc8(f, a, b) \in Res8
  BY Diff8Type, Carry DEF sub8, sbc8
<1>3. {} \in FlagSet /\ {"H"} \in FlagSet
  BY SomeFlags DEF FlagSet
<1>4. and8(f, a, b) \in Res8
  BY <1>3, BitSets, ByteOfByte, LogicType DEF and8
<1>5. or8(f, a, b) \in Res8
  BY <1>3, BitSets, ByteOfByte, LogicType DEF or8
<1>6. xor8(f, a, b) \in Res8
  <2>1. ByteOf[(BitSet[a] \cup BitSet[b]) \ (BitSet[a] \cap BitSet[b])] \in Byte
    BY BitSets, ByteOfByte
  <2> QED BY <1>3, <2>1, LogicType DEF xor8
<1>7. [v |-> a, f |-> cp8(f, a, b)] \in Res8
  <2>1. Diff8(a, b, 0).f \in FlagSet
    BY Diff8Type DEF Res8
  <2> QED BY <2>1, YXFlags DEF cp8, Res8
<1> HIDE DEF Res8
<1> QED BY <1>1, <1>2, <1>4, <1>5, <1>6, <1>7 DEF AluOp

LEMMA CompareFlags == ASSUME NEW f, NEW a \in Byte, NEW b \in Byte PROVE cp8(f, a, b) \in FlagSet
<1>1. Diff8(a, b, 0).f \in FlagSet
  BY Diff8Type DEF Res8
<1> QED BY <1>1, YXFlags DEF cp8

LEMMA CountType ==
  ASSUME NEW f \in FlagSet, NEW a \in Byte
  PROVE  inc8(f, a) \in Res8 /\ dec8(f, a) \in Res8
<1>1. (a + 1) % 256 \in Byte /\ (a - 1) % 256 \in Byte
  BY Cut8, Small
<1>2. ASSUME NEW r \in Byte, NEW o PROVE Count8(f, a, r, o) \in Res8
  BY SomeFlags, AllFlags DEF Count8, When, FlagSet, Res8
<1>3. inc8(f, a) \in Res8
  BY <1>1, <1>2 DEF inc8
<1>4. Count8(f, a, (a - 1) % 256, a = 128) \in Res8
  BY <1>1, <1>2
<1>5. dec8(f, a) \in Res8
  BY <1>4, SomeFlags DEF dec8, Res8, FlagSet
<1> QED BY <1>3, <1>5

LEMMA WideType ==
  ASSUME NEW f \in FlagSet, NEW a \in Word, NEW b \in Word
  PROVE  add16(f, a, b) \in Res16 /\ adc16(f, a, b) \in Res16 /\ sbc16(f, a, b) \in Res16
<1>1. ASSUME NEW raw \in Int PROVE Wide16(a, b, raw) \in Res16
  <2>1. Low16(raw) \in Word
    BY Cut16 DEF Low16
  <2>2. Wide16(a, b, raw).f \in FlagSet
    BY SomeFlags, AllFlags DEF Wide16, When, FlagSet
  <2> QED BY <2>1, <2>2 DEF Wide16, Res16
<1>2. a + b + getFlag(f, "C") \in Int
  BY Carry, Small
<1>3. Low17(a - b - getFlag(f, "C")) \in Int
  BY Carry, Small DEF Low17
<1>4. adc16(f, a, b) \in Res16
  BY <1>1, <1>2 DEF adc16
<1>5. Wide16(a, b, Low17(a - b - getFlag(f, "C"))) \in Res16
  BY <1>1, <1>3
<1>6. sbc16(f, a, b) \in Res16
  BY <1>5, SomeFlags DEF sbc16, Res16, FlagSet
<1>7. add16(f, a, b) \in Res16
  <2>1. Low16(a + b) \in Word
    BY Cut16, Small DEF Low16
  <2>2. add16(f, a, b).f \in FlagSet
    BY SomeFlags, AllFlags DEF add16, When, FlagSet
  <2> QED BY <2>1, <2>2 DEF add16, Res16
<1> QED BY <1>4, <1>6, <1>7

\* The shifts of A and of the CB prefix.
LEMMA Shifts ==
  ASSUME NEW a \in Byte, NEW c \in {0, 1}
  PROVE  (2 * a + c) % 256 \in Byte /\ (2 * a) % 256 \in Byte /\ (a \div 2) + 128 * c \in Byte /\ a \div 2 \in Byte
BY ByteDef

LEMMA RotType ==
  ASSUME NEW f, NEW a \in Byte, NEW y \in 0 .. 7
  PROVE  RotOp(f, a, y) \in Res8
<1>1. ASSUME NEW r \in Byte, NEW o PROVE Shifted(r, o) \in Res8
  BY SomeFlags, AllFlags DEF Shifted, When, FlagSet, Res8
<1>2. Bit(a, 0) \in {0, 1} /\ Bit(a, 7) \in {0, 1}
  BY BitRange, Small
<1>3. rlc8(f, a) \in Res8
  BY <1>1, <1>2, Shifts, ZenonT(60) DEF rlc8
<1>4. rrc8(f, a) \in Res8
  BY <1>1, <1>2, Shifts, ZenonT(60) DEF rrc8
<1>5. sra8(f, a) \in Res8
  BY <1>1, <1>2, Shifts, ZenonT(60) DEF sra8
<1>6. rl8(f, a) \in Res8 /\ sla8(f, a) \in Res8 /\ sll8(f, a) \in Res8 /\ srl8(f, a) \in Res8
  BY <1>1, Carry, Shifts, ZenonT(60) DEF rl8, sla8, sll8, srl8
<1> HIDE DEF Res8
<1> QED BY <1>3, <1>4, <1>5, <1>6 DEF RotOp

LEMMA BitType ==
  ASSUME NEW f \in FlagSet, NEW a \in Byte, NEW k \in 0 .. 7
  PROVE  bit8(f, a, k) \in FlagSet /\ res8(a, k) \in Byte /\ set8(a, k) \in Byte
<1>1. bit8(f, a, k) \in FlagSet
  BY SomeFlags, AllFlags DEF bit8, FlagSet
<1>2. res8(a, k) \in Byte /\ set8(a, k) \in Byte
  BY BitSets, ByteOfByte DEF res8, set8
<1> QED BY <1>1, <1>2

-----------------------------------------------------------------------------
(* Arithmetic on words, whole and by halves                                *)

\* How many words there are, half of them, and how many bytes; the provers take large numbers
\* apart slowly.
Modulus == 65536
Half == 32768
Octets == 256
SignedWord(w) == IF w >= Half THEN w - Modulus ELSE w

LEMMA Naturals16 == Modulus \in Nat /\ Modulus > 0 /\ Half \in Nat /\ Half > 0
<1>1. Modulus \in Nat /\ Modulus > 0
  BY SMTT(60) DEF Modulus
<1>2. Half \in Nat /\ Half > 0
  BY SMTT(60) DEF Half
<1> QED BY <1>1, <1>2

\* Bounds on Octets in place of its value, which the provers would multiply out.
LEMMA Sizes ==
  Octets \in Int /\ Octets >= 256 /\ Octets <= 256 /\ Modulus = 256 * Octets /\ Half = 128 * Octets
<1>1. Modulus = 256 * Octets
  BY SMTT(60) DEF Modulus, Octets
<1>2. Half = 128 * Octets
  BY SMTT(60) DEF Half, Octets
<1>3. Octets \in Int /\ Octets >= 256 /\ Octets <= 256
  BY DEF Octets
<1> QED BY <1>1, <1>2, <1>3

LEMMA TopBit8 == ASSUME NEW v \in Byte PROVE Bit(v, 7) = IF v >= 128 THEN 1 ELSE 0
<1>1. Weight[7 + 1] = 128
  BY DEF Weight
<1>2. Bit(v, 7) = (v \div 128) % 2
  BY <1>1 DEF Bit
<1> QED BY <1>2, ByteDef

LEMMA TopBit16 == ASSUME NEW v \in 0 .. Modulus - 1 PROVE Bit(v, 15) = IF v >= Half THEN 1 ELSE 0
<1>1. Weight[15 + 1] = Half
  BY SMTT(60) DEF Weight, Half
<1>2. Bit(v, 15) = (v \div Half) % 2
  BY <1>1 DEF Bit
<1>3. v \in Nat /\ Half \in Nat /\ Half > 0 /\ v < 2 * Half
  BY Naturals16, Sizes
<1>4. CASE v < Half
  <2>1. v \div Half = 0
    BY <1>3, <1>4
  <2> QED BY <1>2, <1>3, <1>4, <2>1
<1>5. CASE v >= Half
  <2>1. v \div Half = 1
    BY <1>3, <1>5
  <2> QED BY <1>2, <1>3, <1>5, <2>1
<1> QED BY <1>3, <1>4, <1>5

LEMMA CarryBit8 == ASSUME NEW v \in 0 .. 511 PROVE (Bit(v, 8) = 1) <=> v >= 256
<1>1. Weight[8 + 1] = 256
  BY DEF Weight
<1>2. Bit(v, 8) = (v \div 256) % 2
  BY <1>1 DEF Bit
<1> QED BY <1>2

LEMMA Weight16 == Weight[16 + 1] = Modulus
<1>1. Weight[17] = Modulus
  BY SMTT(60) DEF Weight, Modulus
<1> HIDE DEF Weight, Modulus
<1>2. 16 + 1 = 17
  OBVIOUS
<1> QED BY <1>1, <1>2

LEMMA CarryBit16 == ASSUME NEW v \in 0 .. 2 * Modulus - 1 PROVE (Bit(v, 16) = 1) <=> v >= Modulus
<1>1. Weight[16 + 1] = Modulus
  BY Weight16
<1>2. Bit(v, 16) = (v \div Modulus) % 2
  BY <1>1 DEF Bit
<1>3. v \in Nat /\ Modulus \in Nat /\ Modulus > 0 /\ v < 2 * Modulus
  BY Naturals16
<1>4. CASE v < Modulus
  <2>1. v \div Modulus = 0
    BY <1>3, <1>4
  <2> QED BY <1>2, <1>3, <1>4, <2>1
<1>5. CASE v >= Modulus
  <2>1. v \div Modulus = 1
    BY <1>3, <1>5
  <2> QED BY <1>2, <1>3, <1>5, <2>1
<1> QED BY <1>3, <1>4, <1>5

\* The difference of bytes, cut to sixteen bits, has bit 8 exactly when it is negative.
LEMMA BorrowBit ==
  ASSUME NEW d \in -256 .. 255
  PROVE  ((Bit(Low16(d), 8) = 1) <=> d < 0) /\ Low16(d) % 256 = IF d < 0 THEN d + 256 ELSE d
<1>1. Weight[8 + 1] = 256
  BY DEF Weight
<1>2. Bit(Low16(d), 8) = (Low16(d) \div 256) % 2
  BY <1>1 DEF Bit
<1>3. CASE d < 0
  <2>1. Low16(d) = d + 65536
    BY <1>3, SMTT(60) DEF Low16
  <2>2. (d + 65536) \div 256 = 255 /\ (d + 65536) % 256 = d + 256
    BY <1>3, SMTT(60)
  <2>3. Low16(d) \div 256 = 255 /\ Low16(d) % 256 = d + 256
    BY <2>1, <2>2, SMTT(60)
  <2> QED BY <1>2, <1>3, <2>3
<1>4. CASE d >= 0
  <2>1. Low16(d) = d
    BY <1>4, SMTT(60) DEF Low16
  <2>2. d \div 256 = 0 /\ d % 256 = d
    BY <1>4
  <2> QED BY <1>2, <1>4, <2>1, <2>2
<1> QED BY <1>3, <1>4

LEMMA SumFlags ==
  ASSUME NEW a, NEW b, NEW c
  PROVE  /\ Sum8(a, b, c).v = (a + b + c) % 256
         /\ "C" \in Sum8(a, b, c).f <=> Bit(a + b + c, 8) = 1
         /\ "PV" \in Sum8(a, b, c).f <=> SumOverflow(a, b, (a + b + c) % 256, 7)
BY Zenon DEF Sum8, SignZero, YX, When

LEMMA DiffFlags ==
  ASSUME NEW a, NEW b, NEW c
  PROVE  /\ Diff8(a, b, c).v = Low16(a - b - c) % 256
         /\ "C" \in Diff8(a, b, c).f <=> Bit(Low16(a - b - c), 8) = 1
         /\ "S" \in Diff8(a, b, c).f <=> Bit(Low16(a - b - c) % 256, 7) = 1
         /\ "PV" \in Diff8(a, b, c).f <=> DiffOverflow(a, b, Low16(a - b - c) % 256, 7)
<1> DEFINE raw == Low16(a - b - c)
           r == raw % 256
           f == {"N"} \cup SignZero(r) \cup YX(r) \cup When(CarryInto(a, b, r, 4), "H")
                \cup When(DiffOverflow(a, b, r, 7), "PV") \cup When(Bit(raw, 8) = 1, "C")
<1>1. Diff8(a, b, c).v = r /\ Diff8(a, b, c).f = f
  BY DEF Diff8
<1> HIDE DEF raw, r
<1>2. "C" \in f <=> Bit(raw, 8) = 1
  BY Zenon DEF SignZero, YX, When
<1>3. "S" \in f <=> Bit(r, 7) = 1
  BY Zenon DEF SignZero, YX, When
<1>4. "PV" \in f <=> DiffOverflow(a, b, r, 7)
  BY Zenon DEF SignZero, YX, When
<1> HIDE DEF f
<1> QED BY <1>1, <1>2, <1>3, <1>4 DEF raw, r

LEMMA WordHalves == ASSUME NEW x \in Word PROVE x \div 256 \in Byte /\ x % 256 \in Byte /\ x = 256 * (x \div 256) + (x % 256)
BY ByteDef, WordDef

LEMMA Cut == ASSUME NEW v, v \in 0 .. 511 PROVE v % 256 = IF v >= 256 THEN v - 256 ELSE v
OBVIOUS

LEMMA CutWord ==
  /\ \A v \in 0 .. 2 * Modulus - 1 : v % Modulus = IF v >= Modulus THEN v - Modulus ELSE v
  /\ \A v \in -Modulus .. Modulus - 1 : v % Modulus = IF v < 0 THEN v + Modulus ELSE v
<1> DEFINE M == Modulus
<1>0. M \in Nat /\ M > 0
  BY Naturals16
<1> HIDE DEF M
<1>1. ASSUME NEW v \in 0 .. M - 1 PROVE v % M = v
  BY <1>0
<1>2. ASSUME NEW v \in M .. 2 * M - 1 PROVE v % M = v - M
  BY <1>0
<1>3. ASSUME NEW v \in -M .. -1 PROVE v % M = v + M
  BY <1>0
<1>4. \A v \in 0 .. 2 * M - 1 : IF v >= M THEN v \in M .. 2 * M - 1 ELSE v \in 0 .. M - 1
  BY <1>0
<1>5. \A v \in -M .. M - 1 : IF v < 0 THEN v \in -M .. -1 ELSE v \in 0 .. M - 1
  BY <1>0
<1>6. \A v \in 0 .. 2 * M - 1 : v % M = IF v >= M THEN v - M ELSE v
  BY <1>1, <1>2, <1>4, Zenon
<1>7. \A v \in -M .. M - 1 : v % M = IF v < 0 THEN v + M ELSE v
  BY <1>1, <1>3, <1>5, Zenon
<1> QED BY <1>6, <1>7, Zenon DEF M

LEMMA WideSum ==
  ASSUME NEW x, NEW y, NEW f
  PROVE  add16(f, x, y).v = (x + y) % Modulus /\ ("C" \in add16(f, x, y).f <=> Bit(x + y, 16) = 1)
<1> DEFINE s == Low16(x + y)
           g == (f \cap {"S", "Z", "PV"}) \cup YX(s \div 256) \cup When(CarryInto(x, y, s, 12), "H")
                \cup When(Bit(x + y, 16) = 1, "C")
<1>1. add16(f, x, y).v = s /\ add16(f, x, y).f = g
  BY DEF add16
<1>2. s = (x + y) % Modulus
  BY SMTT(60) DEF Low16, Modulus
<1> HIDE DEF s
<1>3. "C" \in g <=> Bit(x + y, 16) = 1
  BY Zenon DEF YX, When
<1> HIDE DEF g
<1> QED BY <1>1, <1>2, <1>3

(* For all words: the sum done with ADD on the low and ADC on the high bytes *)
(* (bemu80.c, add8 and adc8), as the C compiler emits it, is the sum, and so *)
(* is that of ADD HL (add16); both leave in C whether it went beyond the     *)
(* words, and ADC leaves in P/V whether the signed sum left the signed words.*)
THEOREM WordsAddByHalves ==
  ASSUME NEW x \in Word, NEW y \in Word, NEW f
  PROVE  LET low == add8(f, x % 256, y % 256)
             high == adc8(low.f, x \div 256, y \div 256)
             whole == add16(f, x, y)
         IN  /\ 256 * high.v + low.v = (x + y) % Modulus /\ whole.v = (x + y) % Modulus
             /\ "C" \in high.f <=> x + y >= Modulus
             /\ "C" \in whole.f <=> x + y >= Modulus
             /\ "PV" \in high.f <=> SignedWord(x) + SignedWord(y) \notin -Half .. Half - 1
<1> DEFINE low == add8(f, x % 256, y % 256)
           high == adc8(low.f, x \div 256, y \div 256)
           whole == add16(f, x, y)
           a == x \div 256
           b == y \div 256
           p == x % 256
           q == y % 256
           c == getFlag(low.f, "C")
           r == (a + b + c) % 256
<1>1. a \in Byte /\ b \in Byte /\ p \in Byte /\ q \in Byte /\ x = 256 * a + p /\ y = 256 * b + q
  BY WordHalves
<1>2. low.v = (p + q + 0) % 256 /\ ("C" \in low.f <=> Bit(p + q + 0, 8) = 1)
  BY SumFlags DEF add8
<1>3. high.v = r /\ ("C" \in high.f <=> Bit(a + b + c, 8) = 1) /\ ("PV" \in high.f <=> SumOverflow(a, b, r, 7))
  BY SumFlags DEF adc8
<1>4. whole.v = (x + y) % Modulus /\ ("C" \in whole.f <=> Bit(x + y, 16) = 1)
  BY WideSum
<1>5. c = IF "C" \in low.f THEN 1 ELSE 0
  BY DEF getFlag
<1> HIDE DEF low, high, whole, a, b, p, q, c
<1>6. /\ a \in Int /\ 0 <= a /\ a <= 255 /\ b \in Int /\ 0 <= b /\ b <= 255
      /\ p \in Int /\ 0 <= p /\ p <= 255 /\ q \in Int /\ 0 <= q /\ q <= 255
  BY <1>1, ByteDef
<1>7. p + q \in 0 .. 511 /\ p + q + 0 = p + q
  BY <1>6
<1>8. low.v = (IF p + q >= 256 THEN p + q - 256 ELSE p + q) /\ c = IF p + q >= 256 THEN 1 ELSE 0
  <2>1. "C" \in low.f <=> p + q >= 256
    BY <1>2, <1>7, CarryBit8
  <2>2. low.v = IF p + q >= 256 THEN p + q - 256 ELSE p + q
    <3> DEFINE t == p + q
    <3>1. t \in 0 .. 511 /\ low.v = t % 256
      BY <1>2, <1>7
    <3> HIDE DEF t
    <3>2. low.v = IF t >= 256 THEN t - 256 ELSE t
      BY <3>1, Cut
    <3> QED BY <1>6, <3>2 DEF t
  <2> QED BY <1>5, <2>1, <2>2, Zenon
<1>9. a + b + c \in 0 .. 511
  BY <1>6, <1>8
<1>10. r = IF a + b + c >= 256 THEN a + b + c - 256 ELSE a + b + c
  <2> DEFINE t == a + b + c
  <2>1. t \in 0 .. 511 /\ r = t % 256
    BY <1>9
  <2> HIDE DEF t, r
  <2>2. r = IF t >= 256 THEN t - 256 ELSE t
    BY <2>1, Cut
  <2> QED BY <1>6, <1>8, <2>2 DEF t
<1>11. "C" \in high.f <=> a + b + c >= 256
  BY <1>3, <1>9, CarryBit8
<1> HIDE DEF r
<1>12. "PV" \in high.f <=> ((a >= 128 <=> b >= 128) /\ ~(a >= 128 <=> r >= 128))
  <2>1. r \in Byte
    BY <1>6, <1>8, <1>10, ByteDef
  <2>2. /\ Bit(a, 7) = (IF a >= 128 THEN 1 ELSE 0) /\ Bit(b, 7) = (IF b >= 128 THEN 1 ELSE 0)
        /\ Bit(r, 7) = (IF r >= 128 THEN 1 ELSE 0)
    BY <1>1, <2>1, TopBit8
  <2> QED BY <1>3, <2>2 DEF SumOverflow
<1> DEFINE s == x + y
<1>13. s \in 0 .. 2 * Modulus - 1 /\ x \in Int /\ y \in Int
  BY <1>1, <1>6, Sizes
<1>14. "C" \in whole.f <=> s >= Modulus
  BY <1>4, <1>13, CarryBit16
<1>15. a + b + c >= 256 <=> s >= Modulus
  BY <1>1, <1>6, <1>8, Sizes
<1>16. 256 * high.v + low.v = IF s >= Modulus THEN s - Modulus ELSE s
  BY <1>1, <1>3, <1>6, <1>8, <1>10, <1>15, Sizes
<1>17. ((a >= 128 <=> b >= 128) /\ ~(a >= 128 <=> r >= 128)) <=> SignedWord(x) + SignedWord(y) \notin -Half .. Half - 1
  <2>1. (x >= Half <=> a >= 128) /\ (y >= Half <=> b >= 128)
    BY <1>1, <1>6, Sizes
  <2>2. SignedWord(x) = (IF a >= 128 THEN x - Modulus ELSE x) /\ SignedWord(y) = (IF b >= 128 THEN y - Modulus ELSE y)
    BY <2>1 DEF SignedWord
  <2> QED BY <1>1, <1>6, <1>8, <1>10, <2>2, Sizes
<1> HIDE DEF s
<1>18. s % Modulus = IF s >= Modulus THEN s - Modulus ELSE s
  BY <1>13, CutWord, Zenon
<1>19. 256 * high.v + low.v = s % Modulus
  BY <1>16, <1>18
<1> QED BY <1>4, <1>11, <1>12, <1>14, <1>15, <1>17, <1>19, Zenon DEF low, high, whole, s

\* sbc16 without a borrow into it: what it leaves, of the difference raw cut to 17 bits.
LEMMA WideDiff ==
  ASSUME NEW x, NEW y, NEW f, "C" \notin f, NEW raw, raw = Low17(x - y - 0), NEW t, t = sbc16(f, x, y)
  PROVE  LET r == Low16(raw)
         IN  /\ t.v = r
             /\ "C" \in t.f <=> Bit(raw, 16) = 1
             /\ "S" \in t.f <=> Bit(r \div 256, 7) = 1
             /\ "Z" \in t.f <=> r = 0
             /\ "PV" \in t.f <=> DiffOverflow(x, y, r, 15)
<1> DEFINE r == Low16(raw)
           g == (SignZero(r \div 256) \ {"Z"}) \cup When(r = 0, "Z") \cup YX(r \div 256)
                \cup When(CarryInto(x, y, r, 12), "H") \cup When(Bit(raw, 16) = 1, "C")
                \cup When(DiffOverflow(x, y, r, 15), "PV")
           w == [v |-> r, f |-> g]
<1>1. getFlag(f, "C") = 0
  BY DEF getFlag
<1>2. t = [Wide16(x, y, Low17(x - y - getFlag(f, "C"))) EXCEPT !.f = @ \cup {"N"}]
  BY Zenon DEF sbc16
<1>3. t = [Wide16(x, y, raw) EXCEPT !.f = @ \cup {"N"}]
  BY <1>1, <1>2, Zenon
<1>4. Wide16(x, y, raw) = w
  BY Zenon DEF Wide16
<1>5. t = [w EXCEPT !.f = @ \cup {"N"}]
  <2> HIDE DEF w
  <2> QED BY <1>3, <1>4, Zenon
<1> HIDE DEF r
<1>6. t.v = r /\ t.f = g \cup {"N"}
  BY <1>5
<1> HIDE DEF w
<1>7. "C" \in g \cup {"N"} <=> Bit(raw, 16) = 1
  BY Zenon DEF SignZero, YX, When
<1>8. "S" \in g \cup {"N"} <=> Bit(r \div 256, 7) = 1
  BY Zenon DEF SignZero, YX, When
<1>9. "Z" \in g \cup {"N"} <=> r = 0
  BY Zenon DEF SignZero, YX, When
<1>10. "PV" \in g \cup {"N"} <=> DiffOverflow(x, y, r, 15)
  BY Zenon DEF SignZero, YX, When
<1> HIDE DEF g
<1> QED BY <1>6, <1>7, <1>8, <1>9, <1>10 DEF r

\* A difference of words, cut to 17 and to 16 bits.
LEMMA WideCut ==
  ASSUME NEW d \in -Modulus .. Modulus - 1
  PROVE  /\ Low17(d) \in 0 .. 2 * Modulus - 1 /\ Low17(d) = IF d < 0 THEN d + 2 * Modulus ELSE d
         /\ Low16(Low17(d)) = IF d < 0 THEN d + Modulus ELSE d
<1> DEFINE M == Modulus
           W == 2 * M
<1>1. \A v : Low17(v) = v % (2 * Modulus)
  BY SMTT(120) DEF Low17, Modulus
<1>2. \A v : Low16(v) = v % Modulus
  BY SMTT(60) DEF Low16, Modulus
<1>3. M \in Nat /\ M > 0 /\ W \in Nat /\ W > 0 /\ W = 2 * M /\ d \in -M .. M - 1
  BY Naturals16
<1>4. Low17(d) = d % W
  BY <1>1
<1>5. \A v \in 0 .. 2 * M - 1 : Low16(v) = IF v >= M THEN v - M ELSE v
  BY <1>2, CutWord, Zenon
<1> HIDE DEF M, W
<1>6. d % W = IF d < 0 THEN d + W ELSE d
  <2>1. CASE d < 0
    <3>1. d % W = d + W
      BY <1>3, <2>1
    <3> QED BY <2>1, <3>1
  <2>2. CASE d >= 0
    <3>1. d % W = d
      BY <1>3, <2>2
    <3> QED BY <1>3, <2>2, <3>1
  <2> QED BY <1>3, <2>1, <2>2
<1> DEFINE raw == Low17(d)
<1>7. raw = (IF d < 0 THEN d + W ELSE d)
  BY <1>4, <1>6, Zenon
<1> HIDE DEF raw
<1>8. raw \in 0 .. 2 * M - 1 /\ (raw >= M <=> d < 0)
  BY <1>3, <1>7
<1>9. Low16(raw) = IF d < 0 THEN d + M ELSE d
  <2>1. Low16(raw) = IF raw >= M THEN raw - M ELSE raw
    BY <1>5, <1>8, Zenon
  <2> QED BY <1>3, <1>7, <1>8, <2>1
<1> QED BY <1>3, <1>7, <1>8, <1>9 DEF M, raw

(* For all words: the difference done with SUB on the low and SBC on the    *)
(* high bytes (bemu80.c, sub8 and sbc8) is the difference, and so is that   *)
(* of SBC HL (sbc16) without a borrow; after both C orders the words as     *)
(* unsigned numbers and S # P/V as signed ones, as the jumps after a        *)
(* comparison assume, and after SBC HL Z tells whether they are equal.      *)
THEOREM WordsSubtractByHalves ==
  ASSUME NEW x \in Word, NEW y \in Word, NEW f, "C" \notin f
  PROVE  LET low == sub8(f, x % 256, y % 256)
             high == sbc8(low.f, x \div 256, y \div 256)
             whole == sbc16(f, x, y)
             Orders(g) == /\ "C" \in g <=> x < y
                          /\ ~("S" \in g <=> "PV" \in g) <=> SignedWord(x) < SignedWord(y)
         IN  /\ 256 * high.v + low.v = (x - y) % Modulus /\ whole.v = (x - y) % Modulus
             /\ Orders(high.f) /\ Orders(whole.f)
             /\ "Z" \in whole.f <=> x = y
<1> DEFINE low == sub8(f, x % 256, y % 256)
           high == sbc8(low.f, x \div 256, y \div 256)
           whole == sbc16(f, x, y)
           a == x \div 256
           b == y \div 256
           p == x % 256
           q == y % 256
           c == getFlag(low.f, "C")
           e == p - q - 0
           h == a - b - c
           r == Low16(h) % 256
           d == x - y - 0
           s == Low16(Low17(d))
<1>1. a \in Byte /\ b \in Byte /\ p \in Byte /\ q \in Byte /\ x = 256 * a + p /\ y = 256 * b + q
  BY WordHalves
<1>2. low.v = Low16(e) % 256 /\ ("C" \in low.f <=> Bit(Low16(e), 8) = 1)
  BY DiffFlags DEF sub8
<1>3. /\ high.v = r /\ ("C" \in high.f <=> Bit(Low16(h), 8) = 1)
      /\ ("S" \in high.f <=> Bit(r, 7) = 1) /\ ("PV" \in high.f <=> DiffOverflow(a, b, r, 7))
  BY DiffFlags DEF sbc8
<1>4. /\ whole.v = s /\ ("C" \in whole.f <=> Bit(Low17(d), 16) = 1) /\ ("Z" \in whole.f <=> s = 0)
      /\ ("S" \in whole.f <=> Bit(s \div 256, 7) = 1) /\ ("PV" \in whole.f <=> DiffOverflow(x, y, s, 15))
  <2> DEFINE raw == Low17(d)
  <2>1. raw = Low17(x - y - 0) /\ s = Low16(raw) /\ whole = sbc16(f, x, y)
    OBVIOUS
  <2> HIDE DEF raw, d, s, whole
  <2>2. /\ whole.v = s /\ ("C" \in whole.f <=> Bit(raw, 16) = 1) /\ ("Z" \in whole.f <=> s = 0)
        /\ ("S" \in whole.f <=> Bit(s \div 256, 7) = 1) /\ ("PV" \in whole.f <=> DiffOverflow(x, y, s, 15))
    BY <2>1, WideDiff
  <2> QED BY <2>2 DEF raw
<1>5. c = IF "C" \in low.f THEN 1 ELSE 0
  BY DEF getFlag
<1> HIDE DEF low, high, whole, a, b, p, q, c
<1>6. /\ a \in Int /\ 0 <= a /\ a <= 255 /\ b \in Int /\ 0 <= b /\ b <= 255
      /\ p \in Int /\ 0 <= p /\ p <= 255 /\ q \in Int /\ 0 <= q /\ q <= 255
  BY <1>1, ByteDef
<1>7. e \in -256 .. 255 /\ e = p - q
  BY <1>6
<1> HIDE DEF e
<1>8. low.v = (IF e < 0 THEN e + 256 ELSE e) /\ c = IF e < 0 THEN 1 ELSE 0
  <2>1. "C" \in low.f <=> e < 0
    BY <1>2, <1>7, BorrowBit, Zenon
  <2>2. Low16(e) % 256 = IF e < 0 THEN e + 256 ELSE e
    BY <1>7, BorrowBit, Zenon
  <2> QED BY <1>2, <1>5, <2>1, <2>2, Zenon
<1>9. h \in -256 .. 255 /\ h = a - b - c
  BY <1>6, <1>7, <1>8
<1> HIDE DEF h
<1>10. r = IF h < 0 THEN h + 256 ELSE h
  BY <1>9, BorrowBit, Zenon
<1>11. "C" \in high.f <=> h < 0
  BY <1>3, <1>9, BorrowBit, Zenon
<1> HIDE DEF r
<1>12. r \in Byte /\ r \in Int /\ 0 <= r /\ r <= 255
  BY <1>9, <1>10, ByteDef
<1>13. ("S" \in high.f <=> r >= 128) /\ ("PV" \in high.f <=> ~(a >= 128 <=> b >= 128) /\ ~(a >= 128 <=> r >= 128))
  <2>1. /\ Bit(a, 7) = (IF a >= 128 THEN 1 ELSE 0) /\ Bit(b, 7) = (IF b >= 128 THEN 1 ELSE 0)
        /\ Bit(r, 7) = (IF r >= 128 THEN 1 ELSE 0)
    BY <1>1, <1>12, TopBit8
  <2> QED BY <1>3, <2>1 DEF DiffOverflow
<1>14. d \in -Modulus .. Modulus - 1 /\ d = x - y /\ x \in 0 .. Modulus - 1 /\ y \in 0 .. Modulus - 1
  BY <1>1, <1>6, Sizes
<1> HIDE DEF d
<1>15. /\ Low17(d) \in 0 .. 2 * Modulus - 1 /\ Low17(d) = (IF d < 0 THEN d + 2 * Modulus ELSE d)
       /\ s = IF d < 0 THEN d + Modulus ELSE d
  BY <1>14, WideCut, Zenon
<1>16. "C" \in whole.f <=> d < 0
  <2>1. Bit(Low17(d), 16) = 1 <=> Low17(d) >= Modulus
    BY <1>15, CarryBit16, Zenon
  <2>2. Low17(d) >= Modulus <=> d < 0
    BY <1>14, <1>15, Naturals16
  <2> QED BY <1>4, <2>1, <2>2, Zenon
<1> HIDE DEF s
<1>17. h < 0 <=> d < 0
  BY <1>1, <1>6, <1>7, <1>8, <1>9, <1>14
<1>18. s = 256 * r + low.v
  BY <1>1, <1>6, <1>7, <1>8, <1>9, <1>10, <1>14, <1>15, <1>17, Sizes
<1>19. low.v \in 0 .. 255
  BY <1>7, <1>8
<1>20. s \div 256 = r /\ (s >= Half <=> r >= 128) /\ s \in 0 .. Modulus - 1
  BY <1>12, <1>18, <1>19, Sizes
<1>21. (x >= Half <=> a >= 128) /\ (y >= Half <=> b >= 128)
  BY <1>1, <1>6, Sizes
<1>22. ("S" \in whole.f <=> r >= 128) /\ ("PV" \in whole.f <=> ~(a >= 128 <=> b >= 128) /\ ~(a >= 128 <=> r >= 128))
  <2>1. /\ Bit(x, 15) = (IF x >= Half THEN 1 ELSE 0) /\ Bit(y, 15) = (IF y >= Half THEN 1 ELSE 0)
        /\ Bit(s, 15) = (IF s >= Half THEN 1 ELSE 0)
    BY <1>14, <1>20, TopBit16
  <2>2. Bit(r, 7) = (IF r >= 128 THEN 1 ELSE 0)
    BY <1>12, TopBit8
  <2>3. "PV" \in whole.f <=> Bit(x, 15) # Bit(y, 15) /\ Bit(x, 15) # Bit(s, 15)
    BY <1>4, Zenon DEF DiffOverflow
  <2>4. "S" \in whole.f <=> Bit(r, 7) = 1
    BY <1>4, <1>20, Zenon
  <2> QED BY <1>20, <1>21, <2>1, <2>2, <2>3, <2>4
<1>23. (r >= 128 <=> ~(~(a >= 128 <=> b >= 128) /\ ~(a >= 128 <=> r >= 128))) <=> SignedWord(x) < SignedWord(y)
  <2>1. SignedWord(x) = (IF a >= 128 THEN x - Modulus ELSE x) /\ SignedWord(y) = (IF b >= 128 THEN y - Modulus ELSE y)
    BY <1>21 DEF SignedWord
  <2> QED BY <1>1, <1>6, <1>7, <1>8, <1>9, <1>10, <2>1, Sizes
<1>24. s = (x - y) % Modulus
  <2>1. d % Modulus = IF d < 0 THEN d + Modulus ELSE d
    BY <1>14, CutWord, Zenon
  <2> QED BY <1>14, <1>15, <2>1
<1>25. (d < 0 <=> x < y) /\ (s = 0 <=> x = y)
  BY <1>14, <1>15, Naturals16
<1>26. 256 * high.v + low.v = (x - y) % Modulus /\ whole.v = (x - y) % Modulus
  BY <1>3, <1>4, <1>18, <1>24, Zenon
<1>27. ("C" \in high.f <=> x < y) /\ ("C" \in whole.f <=> x < y) /\ ("Z" \in whole.f <=> x = y)
  BY <1>4, <1>11, <1>16, <1>17, <1>25, Zenon
<1>28. ~("S" \in high.f <=> "PV" \in high.f) <=> SignedWord(x) < SignedWord(y)
  BY <1>13, <1>23, Zenon
<1>29. ~("S" \in whole.f <=> "PV" \in whole.f) <=> SignedWord(x) < SignedWord(y)
  BY <1>22, <1>23, Zenon
<1> QED BY <1>26, <1>27, <1>28, <1>29, Zenon DEF low, high, whole

-----------------------------------------------------------------------------
(* The machine                                                             *)

Regs == [0 .. 7 -> Byte]
Memory == [0 .. MEM_SIZE - 1 -> Byte]
Sector == [0 .. FDC_SECTOR_SIZE - 1 -> Byte]
Images == UNION {[S -> Sector] : S \in SUBSET Nat}
Fdc == [status : Byte, count : Byte, lba : Word, dma : Word]
Acia == [ctrl : Byte, status : Byte, transmit : Byte, receive : Byte]
Machine ==
  [regs : Regs, shadow_regs : Regs, flags : FlagSet, shadow_flags : FlagSet,
   ix : Word, iy : Word, pc : Word, sp : Word, i : Byte, r : Byte, im : Byte,
   iff1 : BOOLEAN, iff2 : BOOLEAN, halt : BOOLEAN,
   mem : Memory, fdc : Fdc, disk : {NoDisk} \cup Images, acia : Acia]

\* t is a machine, with the ROM of the machine o: what every operation has to keep.
Keeps(o, t) == t \in Machine /\ \A a \in 0 .. rom_size - 1 : t.mem[a] = o.mem[a]

LEMMA SameMem == ASSUME NEW o, NEW s, Keeps(o, s), NEW t \in Machine, t.mem = s.mem PROVE Keeps(o, t)
BY DEF Keeps

LEMMA KFlags == ASSUME NEW o, NEW s, Keeps(o, s), NEW f \in FlagSet PROVE Keeps(o, [s EXCEPT !.flags = f])
<1>1. [s EXCEPT !.flags = f] \in Machine /\ [s EXCEPT !.flags = f].mem = s.mem
  BY DEF Keeps, Machine
<1> QED BY <1>1, SameMem

LEMMA KSp == ASSUME NEW o, NEW s, Keeps(o, s), NEW v \in Word PROVE Keeps(o, [s EXCEPT !.sp = v])
<1>1. [s EXCEPT !.sp = v] \in Machine /\ [s EXCEPT !.sp = v].mem = s.mem
  BY DEF Keeps, Machine
<1> QED BY <1>1, SameMem

LEMMA KPc == ASSUME NEW o, NEW s, Keeps(o, s), NEW v \in Word PROVE Keeps(o, [s EXCEPT !.pc = v])
<1>1. [s EXCEPT !.pc = v] \in Machine /\ [s EXCEPT !.pc = v].mem = s.mem
  BY DEF Keeps, Machine
<1> QED BY <1>1, SameMem

LEMMA KReg == ASSUME NEW o, NEW s, Keeps(o, s), NEW k \in 0 .. 7, NEW v \in Byte PROVE Keeps(o, [s EXCEPT !.regs[k] = v])
<1>1. [s EXCEPT !.regs[k] = v] \in Machine /\ [s EXCEPT !.regs[k] = v].mem = s.mem
  BY DEF Keeps, Machine, Regs
<1> QED BY <1>1, SameMem

LEMMA KIndex ==
  ASSUME NEW o, NEW s, Keeps(o, s), NEW idx \in {"ix", "iy"}, NEW v \in Word
  PROVE  Keeps(o, [s EXCEPT ![idx] = v])
<1>1. [s EXCEPT ![idx] = v] \in Machine /\ [s EXCEPT ![idx] = v].mem = s.mem
  BY DEF Keeps, Machine
<1> QED BY <1>1, SameMem

LEMMA KSkip == ASSUME NEW o, NEW s, Keeps(o, s), NEW n \in Int PROVE Keeps(o, Skip(s, n))
<1>1. (s.pc + n) % 65536 \in Word
  <2>1. s.pc \in Word
    BY DEF Keeps, Machine
  <2>2. s.pc + n \in Int
    BY <2>1, WordDef
  <2> QED BY <2>2, Cut16
<1>2. Skip(s, n) = [s EXCEPT !.pc = (s.pc + n) % 65536]
  BY DEF Skip, Keeps, Machine
<1> QED BY <1>1, <1>2, KPc

LEMMA KJump == ASSUME NEW o, NEW s, Keeps(o, s), NEW a \in Word PROVE Keeps(o, Jump(s, a))
BY KPc DEF Jump

LEMMA KBranch == ASSUME NEW o, NEW s, Keeps(o, s), NEW d \in Byte PROVE Keeps(o, Branch(s, d))
<1>1. Signed(d) \in Int
  BY ByteDef DEF Signed
<1> QED BY <1>1, KSkip DEF Branch

\* Writes: below rom_size and from MEM_SIZE on nothing happens.
LEMMA KWrite8 ==
  ASSUME NEW o, NEW s, Keeps(o, s), NEW a \in Word, NEW v \in Byte
  PROVE  Keeps(o, mwrite8(s, a, v))
<1>1. CASE a >= MEM_SIZE \/ a < rom_size
  BY <1>1 DEF mwrite8
<1>2. CASE ~(a >= MEM_SIZE \/ a < rom_size)
  <2> DEFINE f == [s.mem EXCEPT ![a] = v]
  <2>1. a \in 0 .. MEM_SIZE - 1 /\ ~(a < rom_size)
    BY <1>2, WordDef, MemSizes
  <2>2. s \in Machine /\ s.mem \in Memory
    BY DEF Keeps, Machine
  <2>3. f \in Memory /\ \A x \in 0 .. MEM_SIZE - 1 : x # a => f[x] = s.mem[x]
    BY <2>1, <2>2 DEF Memory
  <2>4. mwrite8(s, a, v) = [s EXCEPT !.mem = f]
    BY <1>2, <2>2 DEF mwrite8, Machine
  <2> HIDE DEF f
  <2>5. [s EXCEPT !.mem = f] \in Machine /\ [s EXCEPT !.mem = f].mem = f
    BY <2>2, <2>3 DEF Machine
  <2>6. \A x \in 0 .. rom_size - 1 : x \in 0 .. MEM_SIZE - 1 /\ x # a
    BY <2>1, MemSizes
  <2> QED BY <2>3, <2>4, <2>5, <2>6 DEF Keeps
<1> QED BY <1>1, <1>2

LEMMA KWrite16 ==
  ASSUME NEW o, NEW s, Keeps(o, s), NEW a \in Word, NEW v \in Word
  PROVE  Keeps(o, mwrite16(s, a, v))
<1>1. CASE a + 1 >= MEM_SIZE \/ a < rom_size
  BY <1>1 DEF mwrite16
<1>2. CASE ~(a + 1 >= MEM_SIZE \/ a < rom_size)
  <2> DEFINE f == [[s.mem EXCEPT ![a] = GET_LOW(v)] EXCEPT ![a + 1] = GET_HIGH(v)]
  <2>1. a \in 0 .. MEM_SIZE - 1 /\ a + 1 \in 0 .. MEM_SIZE - 1 /\ a \in Int /\ ~(a < rom_size)
    BY <1>2, WordDef, MemSizes
  <2>2. s \in Machine /\ s.mem \in Memory /\ GET_LOW(v) \in Byte /\ GET_HIGH(v) \in Byte
    BY Halves DEF Keeps, Machine, GET_LOW, GET_HIGH
  <2>3. f \in Memory /\ \A x \in 0 .. MEM_SIZE - 1 : x # a /\ x # a + 1 => f[x] = s.mem[x]
    BY <2>1, <2>2 DEF Memory
  <2>4. mwrite16(s, a, v) = [s EXCEPT !.mem = f]
    BY <1>2, <2>2 DEF mwrite16, Machine
  <2> HIDE DEF f
  <2>5. [s EXCEPT !.mem = f] \in Machine /\ [s EXCEPT !.mem = f].mem = f
    BY <2>2, <2>3 DEF Machine
  <2>6. \A x \in 0 .. rom_size - 1 : x \in 0 .. MEM_SIZE - 1 /\ x # a /\ x # a + 1
    BY <2>1, MemSizes
  <2> QED BY <2>3, <2>4, <2>5, <2>6 DEF Keeps
<1> QED BY <1>1, <1>2

\* Reads.
LEMMA Read8 == ASSUME NEW s \in Machine, NEW a \in Word PROVE mread8(s, a) \in Byte
<1>1. CASE a >= MEM_SIZE
  BY <1>1, ByteDef DEF mread8
<1>2. CASE ~(a >= MEM_SIZE)
  <2>1. a \in 0 .. MEM_SIZE - 1
    BY <1>2, WordDef, MemSizes
  <2> QED BY <1>2, <2>1 DEF mread8, Machine, Memory
<1> QED BY <1>1, <1>2

LEMMA Read16 == ASSUME NEW s \in Machine, NEW a \in Word PROVE mread16(s, a) \in Word
<1>1. CASE a + 1 >= MEM_SIZE
  BY <1>1, WordDef DEF mread16
<1>2. CASE ~(a + 1 >= MEM_SIZE)
  <2>1. a \in 0 .. MEM_SIZE - 1 /\ a + 1 \in 0 .. MEM_SIZE - 1
    BY <1>2, WordDef, MemSizes
  <2>2. s.mem[a] \in Byte /\ s.mem[a + 1] \in Byte
    BY <2>1 DEF Machine, Memory
  <2> QED BY <1>2, <2>2, Joined DEF mread16
<1> QED BY <1>1, <1>2

\* What the parts of a machine read as.
LEMMA Fields ==
  ASSUME NEW s \in Machine
  PROVE  /\ s.pc \in Word /\ s.sp \in Word /\ s.ix \in Word /\ s.iy \in Word /\ s.i \in Byte /\ s.r \in Byte
         /\ s.flags \in FlagSet /\ s.shadow_flags \in FlagSet
         /\ \A k \in 0 .. 7 : s.regs[k] \in Byte /\ s.shadow_regs[k] \in Byte
         /\ \A idx \in {"ix", "iy"} : s[idx] \in Word
BY DEF Machine, Regs

LEMMA Numbers == REG_A \in 0 .. 7 /\ REG_B \in 0 .. 7 /\ REG_C \in 0 .. 7
BY DEF REG_A, REG_B, REG_C

LEMMA Pairs ==
  ASSUME NEW s \in Machine
  PROVE  /\ \A k \in 0 .. 2 : Pair(s, k) \in Word
         /\ BC(s) \in Word /\ DE(s) \in Word /\ HL(s) \in Word /\ AF(s) \in Word
<1>1. ASSUME NEW k \in 0 .. 2 PROVE Pair(s, k) \in Word
  <2>1. 2 * k \in 0 .. 7 /\ 2 * k + 1 \in 0 .. 7
    OBVIOUS
  <2>2. s.regs[2 * k] \in Byte /\ s.regs[2 * k + 1] \in Byte
    BY <2>1, Fields
  <2> QED BY <2>2, Joined DEF Pair
<1>2. AF(s) \in Word
  <2>1. s.regs[REG_A] \in Byte
    BY Fields, Numbers
  <2> QED BY <2>1, FlagByteByte, Joined DEF AF
<1> QED BY <1>1, <1>2 DEF BC, DE, HL

LEMMA Fetched ==
  ASSUME NEW s \in Machine
  PROVE  fByte(s) \in Byte /\ fWord(s) \in Word /\ popped(s) \in Word
BY Fields, Read8, Read16 DEF fByte, fWord, popped

LEMMA Registers8 ==
  ASSUME NEW s \in Machine, NEW k \in 0 .. 7
  PROVE  get_r8(s, k) \in Byte
BY Fields, Pairs, Read8 DEF get_r8

LEMMA Registers16 ==
  ASSUME NEW s \in Machine, NEW p \in 0 .. 3
  PROVE  get_r16_1(s, p) \in Word /\ get_r16_2(s, p) \in Word
BY Fields, Pairs DEF get_r16_1, get_r16_2

LEMMA IncDec == ASSUME NEW v \in Word PROVE inc16(v) \in Word /\ dec16(v) \in Word
BY WordDef DEF inc16, dec16

LEMMA SetHalves ==
  ASSUME NEW w \in Word, NEW v \in Byte
  PROVE  set_low(w, v) \in Word /\ set_high(w, v) \in Word /\ GET_LOW(w) \in Byte /\ GET_HIGH(w) \in Byte
BY WordDef, ByteDef DEF set_low, set_high, GET_LOW, GET_HIGH

LEMMA IndexRegisters ==
  ASSUME NEW s \in Machine, NEW idx \in {"ix", "iy"}
  PROVE  /\ \A k \in 0 .. 7 : get_r8_index(s, k, idx) \in Byte
         /\ \A p \in 0 .. 3 : get_r16_index(s, p, idx) \in Word
         /\ get_index_addr(s, idx) \in Word
<1>1. s[idx] \in Word
  BY Fields
<1>2. ASSUME NEW k \in 0 .. 7 PROVE get_r8_index(s, k, idx) \in Byte
  BY <1>1, Fields, SetHalves, ByteDef DEF get_r8_index
<1>3. ASSUME NEW p \in 0 .. 3 PROVE get_r16_index(s, p, idx) \in Word
  BY <1>1, Fields, Pairs DEF get_r16_index
<1>4. get_index_addr(s, idx) \in Word
  <2>1. Signed(fByte(s)) \in Int
    BY Fetched, ByteDef DEF Signed
  <2>2. s[idx] + Signed(fByte(s)) \in Int
    BY <1>1, <2>1, WordDef
  <2> QED BY <2>2, Cut16 DEF get_index_addr
<1> QED BY <1>2, <1>3, <1>4

\* The stack and the register pairs.
LEMMA KPush == ASSUME NEW o, NEW s, Keeps(o, s), NEW v \in Word PROVE Keeps(o, push(s, v))
<1> DEFINE n == (s.sp - 2) % 65536
<1>1. s.sp \in Int
  BY Fields, Small DEF Keeps
<1>2. n \in Word
  BY <1>1, Cut16
<1> HIDE DEF n
<1>3. Keeps(o, [s EXCEPT !.sp = n])
  BY <1>2, KSp
<1>4. Keeps(o, mwrite16([s EXCEPT !.sp = n], n, v))
  BY <1>2, <1>3, KWrite16
<1> QED BY <1>4 DEF push, n

LEMMA KPop == ASSUME NEW o, NEW s, Keeps(o, s) PROVE Keeps(o, pop(s))
<1>1. s \in Machine /\ s.sp \in Int
  BY Fields, Small DEF Keeps
<1>2. (s.sp + 2) % 65536 \in Word
  BY <1>1, Cut16
<1>3. pop(s) = [s EXCEPT !.sp = (s.sp + 2) % 65536]
  BY <1>1 DEF pop, Machine
<1> QED BY <1>2, <1>3, KSp

LEMMA KSetPair ==
  ASSUME NEW o, NEW s, Keeps(o, s), NEW k \in 0 .. 2, NEW v \in Word
  PROVE  Keeps(o, SetPair(s, k, v))
<1> DEFINE t == [s EXCEPT !.regs[2 * k] = v \div 256]
<1>1. 2 * k \in 0 .. 7 /\ 2 * k + 1 \in 0 .. 7 /\ v \div 256 \in Byte /\ v % 256 \in Byte
  BY Halves
<1>2. Keeps(o, t)
  BY <1>1, KReg
<1>3. SetPair(s, k, v) = [t EXCEPT !.regs[2 * k + 1] = v % 256]
  BY DEF SetPair
<1> HIDE DEF t
<1> QED BY <1>1, <1>2, <1>3, KReg

LEMMA KSetAf == ASSUME NEW o, NEW s, Keeps(o, s), NEW v \in Word PROVE Keeps(o, set_af(s, v))
<1>1. v \div 256 \in Byte /\ ByteFlags(v % 256) \in FlagSet
  BY Halves, SomeFlags DEF FlagSet
<1>2. Keeps(o, [s EXCEPT !.regs[REG_A] = v \div 256])
  BY <1>1, Numbers, KReg
<1> QED BY <1>1, <1>2, KFlags DEF set_af

LEMMA KSet8 ==
  ASSUME NEW o, NEW s, Keeps(o, s), NEW k \in 0 .. 7, NEW v \in Byte
  PROVE  Keeps(o, set_r8(s, k, v))
<1>1. HL(s) \in Word
  BY Pairs DEF Keeps
<1>2. Keeps(o, mwrite8(s, HL(s), v)) /\ Keeps(o, [s EXCEPT !.regs[k] = v])
  BY <1>1, KWrite8, KReg
<1> QED BY <1>2 DEF set_r8

LEMMA KSet16 ==
  ASSUME NEW o, NEW s, Keeps(o, s), NEW p \in 0 .. 3, NEW v \in Word
  PROVE  Keeps(o, set_r16_1(s, p, v)) /\ Keeps(o, set_r16_2(s, p, v)) /\ Keeps(o, set_hl(s, v))
<1>1. p # 3 => p \in 0 .. 2
  OBVIOUS
<1>2. Keeps(o, [s EXCEPT !.sp = v]) /\ Keeps(o, set_af(s, v)) /\ (p # 3 => Keeps(o, SetPair(s, p, v)))
  BY <1>1, KSp, KSetAf, KSetPair
<1>3. Keeps(o, SetPair(s, 2, v))
  BY KSetPair
<1> QED BY <1>2, <1>3 DEF set_r16_1, set_r16_2, set_hl

LEMMA KPut ==
  ASSUME NEW o, NEW s, Keeps(o, s), NEW k \in 0 .. 7, NEW res \in Res8
  PROVE  Keeps(o, Put(s, k, res))
<1>1. res.f \in FlagSet /\ res.v \in Byte
  BY DEF Res8
<1>2. Keeps(o, [s EXCEPT !.flags = res.f])
  BY <1>1, KFlags
<1> QED BY <1>1, <1>2, KSet8 DEF Put

LEMMA KSetIndex ==
  ASSUME NEW o, NEW s, Keeps(o, s), NEW k \in 0 .. 7, NEW v \in Byte, NEW idx \in {"ix", "iy"}
  PROVE  Keeps(o, set_r8_index(s, k, v, idx))
<1>1. s \in Machine /\ s[idx] \in Word
  BY Fields DEF Keeps
<1>2. set_high(s[idx], v) \in Word /\ set_low(s[idx], v) \in Word
  BY <1>1, SetHalves
<1>3. Keeps(o, [s EXCEPT ![idx] = set_high(s[idx], v)]) /\ Keeps(o, [s EXCEPT ![idx] = set_low(s[idx], v)])
  BY <1>2, KIndex
<1>4. Keeps(o, [s EXCEPT !.regs[k] = v])
  BY KReg
<1>5. CASE k = 4
  BY <1>3, <1>5 DEF set_r8_index
<1>6. CASE k = 5
  BY <1>3, <1>6 DEF set_r8_index
<1>7. CASE k # 4 /\ k # 5
  BY <1>4, <1>7 DEF set_r8_index
<1> QED BY <1>5, <1>6, <1>7

\* The exchanges.
LEMMA KExchange == ASSUME NEW o, NEW s, Keeps(o, s) PROVE Keeps(o, exchange(s, 1, 2))
<1>1. Pair(s, 1) \in Word /\ Pair(s, 2) \in Word
  BY Pairs DEF Keeps
<1>2. Keeps(o, SetPair(s, 1, Pair(s, 2)))
  BY <1>1, KSetPair
<1> QED BY <1>1, <1>2, KSetPair DEF exchange

LEMMA KExchangeAf == ASSUME NEW o, NEW s, Keeps(o, s) PROVE Keeps(o, exchange_af(s))
<1>1. s \in Machine
  BY DEF Keeps
<1>2. exchange_af(s) \in Machine /\ exchange_af(s).mem = s.mem
  BY <1>1, Numbers DEF exchange_af, Machine, Regs
<1> QED BY <1>2, SameMem

LEMMA KExx == ASSUME NEW o, NEW s, Keeps(o, s) PROVE Keeps(o, EXX(s))
<1>1. s \in Machine
  BY DEF Keeps
<1>2. EXX(s) \in Machine /\ EXX(s).mem = s.mem
  BY <1>1 DEF EXX, Machine, Regs
<1> QED BY <1>2, SameMem

-----------------------------------------------------------------------------
(* The ports                                                               *)

LEMMA KAcia == ASSUME NEW o, NEW s, Keeps(o, s), NEW a \in Acia PROVE Keeps(o, [s EXCEPT !.acia = a])
<1>1. [s EXCEPT !.acia = a] \in Machine /\ [s EXCEPT !.acia = a].mem = s.mem
  BY DEF Keeps, Machine
<1> QED BY <1>1, SameMem

LEMMA KFdc == ASSUME NEW o, NEW s, Keeps(o, s), NEW c \in Fdc PROVE Keeps(o, [s EXCEPT !.fdc = c])
<1>1. [s EXCEPT !.fdc = c] \in Machine /\ [s EXCEPT !.fdc = c].mem = s.mem
  BY DEF Keeps, Machine
<1> QED BY <1>1, SameMem

\* The serial port.
LEMMA KAciaCmd == ASSUME NEW o, NEW s, Keeps(o, s), NEW v \in Byte PROVE Keeps(o, ACIA_write_cmd(s, v))
<1>1. s \in Machine /\ s.acia \in Acia /\ 0 \in Byte /\ 2 \in Byte
  BY ByteDef DEF Keeps, Machine
<1>2. [[s.acia EXCEPT !.ctrl = 0] EXCEPT !.status = 2] \in Acia /\ [s.acia EXCEPT !.ctrl = v] \in Acia
  BY <1>1 DEF Acia
<1>3. /\ [s EXCEPT !.acia.ctrl = 0, !.acia.status = 2] = [s EXCEPT !.acia = [[s.acia EXCEPT !.ctrl = 0] EXCEPT !.status = 2]]
      /\ [s EXCEPT !.acia.ctrl = v] = [s EXCEPT !.acia = [s.acia EXCEPT !.ctrl = v]]
  BY <1>1 DEF Machine
<1> QED BY <1>2, <1>3, KAcia DEF ACIA_write_cmd

LEMMA KAciaData == ASSUME NEW o, NEW s, Keeps(o, s), NEW v \in Byte PROVE Keeps(o, [s EXCEPT !.acia.transmit = v])
<1>1. s \in Machine /\ s.acia \in Acia
  BY DEF Keeps, Machine
<1>2. [s.acia EXCEPT !.transmit = v] \in Acia
  BY <1>1 DEF Acia
<1>3. [s EXCEPT !.acia.transmit = v] = [s EXCEPT !.acia = [s.acia EXCEPT !.transmit = v]]
  BY <1>1 DEF Machine
<1> QED BY <1>2, <1>3, KAcia

\* The receive and status registers set, on a read of the port or a key.
Received(s, v, b) == [s EXCEPT !.acia.receive = v, !.acia.status = b]

LEMMA KReceive ==
  ASSUME NEW o, NEW s, Keeps(o, s), NEW v \in Byte, NEW b \in Byte
  PROVE  Keeps(o, Received(s, v, b))
<1>1. s \in Machine /\ s.acia \in Acia
  BY DEF Keeps, Machine
<1>2. [[s.acia EXCEPT !.receive = v] EXCEPT !.status = b] \in Acia
  BY <1>1 DEF Acia
<1>3. Received(s, v, b) = [s EXCEPT !.acia = [[s.acia EXCEPT !.receive = v] EXCEPT !.status = b]]
  BY <1>1 DEF Received, Machine
<1> QED BY <1>2, <1>3, KAcia

LEMMA KInput ==
  ASSUME NEW o, NEW s, Keeps(o, s), NEW port
  PROVE  Keeps(o, input_handler(s, port)) /\ input_value(s, port) \in Byte
<1> DEFINE b == ByteOf[BitSet[s.acia.status] \ {0, 5}]
<1>1. s \in Machine /\ s.acia \in Acia /\ s.fdc \in Fdc /\ 0 \in Byte
  BY ByteDef DEF Keeps, Machine
<1>2. s.acia.status \in Byte /\ s.acia.receive \in Byte /\ s.fdc.status \in Byte
  BY <1>1 DEF Acia, Fdc
<1>3. b \in Byte
  BY <1>2, BitSets, ByteOfByte
<1>4. ACIA_read_data(s) = Received(s, 0, b)
  BY <1>1 DEF ACIA_read_data, Received, Machine, Acia
<1> HIDE DEF b
<1>5. Keeps(o, ACIA_read_data(s))
  BY <1>1, <1>3, <1>4, KReceive
<1> QED BY <1>1, <1>2, <1>5 DEF input_handler, input_value

\* The registers of the floppy controller.
LEMMA KLatch ==
  ASSUME NEW o, NEW s, Keeps(o, s), NEW v \in Byte
  PROVE  /\ Keeps(o, [s EXCEPT !.fdc.lba = set_low(s.fdc.lba, v)])
         /\ Keeps(o, [s EXCEPT !.fdc.lba = set_high(s.fdc.lba, v)])
         /\ Keeps(o, [s EXCEPT !.fdc.dma = set_low(s.fdc.dma, v)])
         /\ Keeps(o, [s EXCEPT !.fdc.dma = set_high(s.fdc.dma, v)])
         /\ Keeps(o, [s EXCEPT !.fdc.count = IF v = 0 THEN 1 ELSE v])
         /\ Keeps(o, [s EXCEPT !.fdc.status = 1])
<1>1. s \in Machine /\ s.fdc \in Fdc /\ 1 \in Byte
  BY ByteDef DEF Keeps, Machine
<1>2. s.fdc.lba \in Word /\ s.fdc.dma \in Word
  BY <1>1 DEF Fdc
<1>3. ASSUME NEW w \in Word
      PROVE  Keeps(o, [s EXCEPT !.fdc.lba = w]) /\ Keeps(o, [s EXCEPT !.fdc.dma = w])
  <2>1. [s.fdc EXCEPT !.lba = w] \in Fdc /\ [s.fdc EXCEPT !.dma = w] \in Fdc
    BY <1>1 DEF Fdc
  <2>2. /\ [s EXCEPT !.fdc.lba = w] = [s EXCEPT !.fdc = [s.fdc EXCEPT !.lba = w]]
        /\ [s EXCEPT !.fdc.dma = w] = [s EXCEPT !.fdc = [s.fdc EXCEPT !.dma = w]]
    BY <1>1 DEF Machine
  <2> QED BY <2>1, <2>2, KFdc
<1>4. ASSUME NEW b \in Byte
      PROVE  Keeps(o, [s EXCEPT !.fdc.count = b]) /\ Keeps(o, [s EXCEPT !.fdc.status = b])
  <2>1. [s.fdc EXCEPT !.count = b] \in Fdc /\ [s.fdc EXCEPT !.status = b] \in Fdc
    BY <1>1 DEF Fdc
  <2>2. /\ [s EXCEPT !.fdc.count = b] = [s EXCEPT !.fdc = [s.fdc EXCEPT !.count = b]]
        /\ [s EXCEPT !.fdc.status = b] = [s EXCEPT !.fdc = [s.fdc EXCEPT !.status = b]]
    BY <1>1 DEF Machine
  <2> QED BY <2>1, <2>2, KFdc
<1>5. /\ set_low(s.fdc.lba, v) \in Word /\ set_high(s.fdc.lba, v) \in Word
      /\ set_low(s.fdc.dma, v) \in Word /\ set_high(s.fdc.dma, v) \in Word
  BY <1>2, SetHalves
<1>6. (IF v = 0 THEN 1 ELSE v) \in Byte
  BY <1>1
<1> QED BY <1>1, <1>3, <1>4, <1>5, <1>6

\* One sector: what is loaded below rom_size is dropped.
LEMMA KLoad ==
  ASSUME NEW o, NEW s, Keeps(o, s), NEW lba, NEW dma \in Word, s.disk \in Images
  PROVE  Keeps(o, LoadSector(s, lba, dma)) /\ LoadSector(s, lba, dma).disk \in Images
<1>1. CASE lba \notin DOMAIN s.disk
  BY <1>1 DEF LoadSector
<1>2. CASE lba \in DOMAIN s.disk
  <2> DEFINE f == [a \in DOMAIN s.mem |->
                     IF offset(a, dma) < FDC_SECTOR_SIZE /\ a >= rom_size THEN s.disk[lba][offset(a, dma)] ELSE s.mem[a]]
  <2>1. s \in Machine /\ s.mem \in Memory /\ DOMAIN s.mem = 0 .. MEM_SIZE - 1
    BY DEF Keeps, Machine, Memory
  <2>2. s.disk[lba] \in Sector
    BY <1>2 DEF Images
  <2>3. \A a \in 0 .. MEM_SIZE - 1 : offset(a, dma) \in Int /\ 0 <= offset(a, dma)
    <3> SUFFICES ASSUME NEW a \in 0 .. MEM_SIZE - 1 PROVE offset(a, dma) \in Int /\ 0 <= offset(a, dma)
      OBVIOUS
    <3>1. a - dma \in Int
      BY MemSizes, WordDef
    <3> QED BY <3>1 DEF offset
  <2>4. LoadSector(s, lba, dma) = [s EXCEPT !.mem = f]
    BY <1>2, <2>1 DEF LoadSector, Machine
  <2>5. ASSUME NEW a \in 0 .. MEM_SIZE - 1, offset(a, dma) < FDC_SECTOR_SIZE
        PROVE  s.disk[lba][offset(a, dma)] \in Byte
    <3>1. offset(a, dma) \in 0 .. FDC_SECTOR_SIZE - 1
      BY <2>3, <2>5, BytesAssumption
    <3> QED BY <2>2, <3>1 DEF Sector
  <2>6. f \in Memory
    BY <2>1, <2>5 DEF Memory
  <2>7. \A a \in 0 .. rom_size - 1 : f[a] = s.mem[a]
    <3> SUFFICES ASSUME NEW a \in 0 .. rom_size - 1 PROVE f[a] = s.mem[a]
      OBVIOUS
    <3>1. a \in DOMAIN s.mem /\ ~(a >= rom_size)
      BY <2>1, MemSizes
    <3> QED BY <3>1
  <2> HIDE DEF f
  <2>8. [s EXCEPT !.mem = f] \in Machine /\ [s EXCEPT !.mem = f].mem = f /\ [s EXCEPT !.mem = f].disk = s.disk
    BY <2>1, <2>6 DEF Machine
  <2> QED BY <2>4, <2>7, <2>8 DEF Keeps
<1> QED BY <1>1, <1>2

LEMMA KStore ==
  ASSUME NEW o, NEW s, Keeps(o, s), NEW lba \in Word, NEW dma \in Word, s.disk \in Images
  PROVE  Keeps(o, StoreSector(s, lba, dma)) /\ StoreSector(s, lba, dma).disk \in Images
<1> DEFINE zero == [k \in 0 .. FDC_SECTOR_SIZE - 1 |-> 0]
           g == [n \in DOMAIN s.disk \cup 0 .. lba |->
                   IF n = lba THEN SectorAt(s, dma) ELSE IF n \in DOMAIN s.disk THEN s.disk[n] ELSE zero]
<1>1. s \in Machine /\ dma \in Int /\ lba \in Int
  BY WordDef DEF Keeps
<1>2. SectorAt(s, dma) \in Sector
  <2>1. ASSUME NEW k \in 0 .. FDC_SECTOR_SIZE - 1 PROVE mread8(s, (dma + k) % 65536) \in Byte
    <3>1. dma + k \in Int
      BY <1>1, BytesAssumption
    <3> QED BY <1>1, <3>1, Cut16, Read8
  <2> QED BY <2>1 DEF SectorAt, Sector
<1>3. zero \in Sector
  BY ByteDef DEF Sector
<1>4. PICK S \in SUBSET Nat : s.disk \in [S -> Sector]
  BY DEF Images
<1>5. S \cup 0 .. lba \in SUBSET Nat
  BY <1>1
<1>6. g \in [S \cup 0 .. lba -> Sector]
  <2> HIDE DEF zero
  <2> QED BY <1>2, <1>3, <1>4
<1>7. lba \notin Unwritable => StoreSector(s, lba, dma) = [s EXCEPT !.disk = g]
  BY <1>1 DEF StoreSector, Machine
<1>10. lba \in Unwritable => StoreSector(s, lba, dma) = s
  BY DEF StoreSector
<1> HIDE DEF g
<1>8. g \in Images
  BY <1>5, <1>6 DEF Images
<1>9. [s EXCEPT !.disk = g] \in Machine /\ [s EXCEPT !.disk = g].mem = s.mem /\ [s EXCEPT !.disk = g].disk = g
  BY <1>1, <1>8 DEF Machine
<1> QED BY <1>7, <1>8, <1>9, <1>10, SameMem

-----------------------------------------------------------------------------
(* A transfer: `after' of Transfers is defined by recursion on the number  *)
(* of sectors.  A function with that recursion exists, so the definition   *)
(* holds, and what one sector keeps, all of them keep: both by the least   *)
(* number for which it would fail.                                         *)

LEMMA Least == ASSUME NEW T \in SUBSET Nat, T # {} PROVE \E x \in T : \A y \in T : x <= y
<1> DEFINE R == OpToRel(<, Nat)
<1>1. \E x \in T : \A y \in T : ~(<<y, x>> \in R)
  BY NatLessThanWellFounded, WFMin
<1>2. \A x, y \in T : <<y, x>> \in R <=> y < x
  BY DEF OpToRel
<1> HIDE DEF R
<1>3. PICK x \in T : \A y \in T : ~(<<y, x>> \in R)
  BY <1>1
<1>4. ASSUME NEW y \in T PROVE x <= y
  <2>1. ~(y < x)
    BY <1>2, <1>3
  <2> QED BY <2>1
<1> QED BY <1>4

\* The machine after sector c, from the machine m before it.
OneSector(s, cmd, c, m) ==
  IF Stopped(s, c) THEN m ELSE
  Transfer(m, cmd, (s.fdc.lba + c - 1) % 65536, (s.fdc.dma + (c - 1) * FDC_SECTOR_SIZE) % 65536)
\* The recursion, and its beginning up to sector n.
Recursion(g, s, cmd) == [c \in Nat |-> IF c = 0 THEN s ELSE OneSector(s, cmd, c, g[c - 1])]
Begins(h, n, s, cmd) == h[0] = s /\ \A c \in 1 .. n : h[c] = OneSector(s, cmd, c, h[c - 1])

LEMMA BeginningsExist == ASSUME NEW s, NEW cmd PROVE \A n \in Nat : \E h : Begins(h, n, s, cmd)
<1> DEFINE T == {n \in Nat : ~\E h : Begins(h, n, s, cmd)}
<1> SUFFICES ASSUME T # {} PROVE FALSE
  OBVIOUS
<1>1. PICK n \in T : \A m \in T : n <= m
  BY Least
<1>2. n \in Nat /\ ~\E h : Begins(h, n, s, cmd) /\ (n # 0 => n - 1 \notin T)
  BY <1>1
<1>3. CASE n = 0
  <2> DEFINE h == [c \in {0} |-> s]
  <2>1. Begins(h, n, s, cmd)
    BY <1>3 DEF Begins
  <2> QED BY <1>2, <2>1
<1>4. CASE n # 0
  <2>1. n - 1 \in Nat
    BY <1>2, <1>4
  <2>2. PICK g : Begins(g, n - 1, s, cmd)
    BY <1>1, <1>4, <2>1
  <2> DEFINE h == [c \in 0 .. n |-> IF c = n THEN OneSector(s, cmd, n, g[n - 1]) ELSE g[c]]
  <2>3. h[0] = s
    BY <1>2, <1>4, <2>2 DEF Begins
  <2>4. ASSUME NEW c \in 1 .. n PROVE h[c] = OneSector(s, cmd, c, h[c - 1])
    <3>1. h[c - 1] = g[c - 1]
      BY <1>2
    <3>2. CASE c = n
      <4>1. h[n] = OneSector(s, cmd, n, g[n - 1])
        BY <1>2
      <4> QED BY <3>1, <3>2, <4>1
    <3>3. CASE c # n
      <4>1. h[c] = g[c] /\ c \in 1 .. n - 1
        BY <1>2, <3>3
      <4>2. g[c] = OneSector(s, cmd, c, g[c - 1])
        BY <2>2, <4>1 DEF Begins
      <4> QED BY <3>1, <4>1, <4>2
    <3> QED BY <3>2, <3>3
  <2> HIDE DEF h
  <2>5. Begins(h, n, s, cmd)
    BY <2>3, <2>4 DEF Begins
  <2> QED BY <1>2, <2>5
<1> QED BY <1>3, <1>4

LEMMA BeginningsAgree ==
  ASSUME NEW s, NEW cmd, NEW m \in Nat, NEW n \in Nat, NEW g, NEW h,
         Begins(g, m, s, cmd), Begins(h, n, s, cmd)
  PROVE  \A c \in Nat : c <= m /\ c <= n => g[c] = h[c]
<1> DEFINE T == {c \in Nat : c <= m /\ c <= n /\ g[c] # h[c]}
<1> SUFFICES ASSUME T # {} PROVE FALSE
  OBVIOUS
<1>1. PICK c \in T : \A x \in T : c <= x
  BY Least
<1>2. c # 0
  BY DEF Begins
<1>3. c \in 1 .. m /\ c \in 1 .. n /\ c - 1 \in Nat /\ c - 1 <= m /\ c - 1 <= n /\ ~(c <= c - 1)
  BY <1>2
<1>4. g[c - 1] = h[c - 1]
  BY <1>1, <1>3
<1>5. g[c] = OneSector(s, cmd, c, g[c - 1]) /\ h[c] = OneSector(s, cmd, c, h[c - 1])
  BY <1>3 DEF Begins
<1> QED BY <1>4, <1>5

LEMMA RecursionExists == ASSUME NEW s, NEW cmd PROVE \E g : g = Recursion(g, s, cmd)
<1> DEFINE H(n) == CHOOSE h : Begins(h, n, s, cmd)
           F == [n \in Nat |-> H(n)[n]]
<1>1. \A n \in Nat : Begins(H(n), n, s, cmd)
  BY BeginningsExist
<1> HIDE DEF H
<1>2. \A n \in Nat : F[n] = H(n)[n]
  OBVIOUS
<1>3. ASSUME NEW n \in Nat PROVE F[n] = IF n = 0 THEN s ELSE OneSector(s, cmd, n, F[n - 1])
  <2>1. CASE n = 0
    BY <1>1, <1>2, <2>1 DEF Begins
  <2>2. CASE n # 0
    <3>1. n - 1 \in Nat /\ n \in 1 .. n /\ n - 1 <= n
      BY <2>2
    <3>2. H(n)[n] = OneSector(s, cmd, n, H(n)[n - 1])
      BY <1>1, <3>1 DEF Begins
    <3>3. H(n)[n - 1] = H(n - 1)[n - 1]
      BY <1>1, <3>1, BeginningsAgree
    <3> QED BY <1>2, <2>2, <3>1, <3>2, <3>3
  <2> QED BY <2>1, <2>2
<1>4. F = Recursion(F, s, cmd)
  <2>1. F = [n \in Nat |-> F[n]]
    OBVIOUS
  <2> HIDE DEF F
  <2> QED BY <1>3, <2>1 DEF Recursion
<1> QED BY <1>4

LEMMA TransfersRecursion ==
  ASSUME NEW s, NEW cmd
  PROVE  \E g : g = Recursion(g, s, cmd) /\ Transfers(s, cmd) = g[s.fdc.count]
<1> DEFINE after == CHOOSE g : g = Recursion(g, s, cmd)
<1>1. Transfers(s, cmd) = after[s.fdc.count]
  BY DEF Transfers, Recursion, OneSector
<1>2. after = Recursion(after, s, cmd)
  BY RecursionExists, Zenon DEF after
<1> QED BY <1>1, <1>2

LEMMA KSector ==
  ASSUME NEW o, NEW s, s \in Machine, NEW cmd, NEW c \in Nat, c # 0, NEW m, Keeps(o, m), m.disk \in Images
  PROVE  Keeps(o, OneSector(s, cmd, c, m)) /\ OneSector(s, cmd, c, m).disk \in Images
<1> DEFINE lba == (s.fdc.lba + c - 1) % 65536
           dma == (s.fdc.dma + (c - 1) * FDC_SECTOR_SIZE) % 65536
<1>1. s.fdc.lba \in Word /\ s.fdc.dma \in Word
  BY DEF Machine, Fdc
<1>2. s.fdc.lba \in Int /\ s.fdc.dma \in Int
  BY <1>1, WordDef
<1>3. (c - 1) * FDC_SECTOR_SIZE \in Int
  BY BytesAssumption
<1>4. s.fdc.lba + c - 1 \in Int /\ s.fdc.dma + (c - 1) * FDC_SECTOR_SIZE \in Int
  BY <1>2, <1>3
<1>5. lba \in Word /\ dma \in Word
  BY <1>4, Cut16
<1>6. OneSector(s, cmd, c, m) = m \/ OneSector(s, cmd, c, m) = Transfer(m, cmd, lba, dma)
  BY DEF OneSector
<1> HIDE DEF lba, dma
<1>7. Keeps(o, LoadSector(m, lba, dma)) /\ LoadSector(m, lba, dma).disk \in Images
  BY <1>5, KLoad
<1>8. Keeps(o, StoreSector(m, lba, dma)) /\ StoreSector(m, lba, dma).disk \in Images
  BY <1>5, KStore
<1> QED BY <1>6, <1>7, <1>8 DEF Transfer

LEMMA KTransfers ==
  ASSUME NEW o, NEW s, Keeps(o, s), s.disk \in Images, NEW cmd
  PROVE  Keeps(o, Transfers(s, cmd))
<1>1. PICK g : g = Recursion(g, s, cmd) /\ Transfers(s, cmd) = g[s.fdc.count]
  BY TransfersRecursion
<1>2. \A c \in Nat : g[c] = IF c = 0 THEN s ELSE OneSector(s, cmd, c, g[c - 1])
  BY <1>1 DEF Recursion
<1> DEFINE T == {c \in Nat : ~(Keeps(o, g[c]) /\ g[c].disk \in Images)}
<1>3. T = {}
  <2> SUFFICES ASSUME T # {} PROVE FALSE
    OBVIOUS
  <2>1. PICK c \in T : \A x \in T : c <= x
    BY Least
  <2>2. c # 0
    BY <1>2
  <2>3. c - 1 \in Nat /\ ~(c <= c - 1)
    BY <2>2
  <2>4. Keeps(o, g[c - 1]) /\ g[c - 1].disk \in Images
    BY <2>1, <2>3
  <2>5. s \in Machine
    BY DEF Keeps
  <2>6. Keeps(o, OneSector(s, cmd, c, g[c - 1])) /\ OneSector(s, cmd, c, g[c - 1]).disk \in Images
    BY <2>2, <2>4, <2>5, KSector
  <2> QED BY <1>2, <2>2, <2>6
<1>4. s.fdc.count \in Nat
  <2>1. s.fdc.count \in Byte
    BY DEF Keeps, Machine, Fdc
  <2> QED BY <2>1, ByteDef
<1> QED BY <1>1, <1>3, <1>4

LEMMA KCommand == ASSUME NEW o, NEW s, Keeps(o, s), NEW cmd PROVE Keeps(o, fdc_cmd(s, cmd))
<1> DEFINE t == Transfers(s, cmd)
           err == IF Stopped(s, s.fdc.count) THEN 1 ELSE 0
           idle == [status |-> err, count |-> 0, lba |-> 0, dma |-> 0]
<1>1. CASE s.disk = NoDisk
  <2>1. 1 \in Byte
    BY ByteDef
  <2>2. Keeps(o, [s EXCEPT !.fdc.status = 1])
    BY <2>1, KLatch
  <2> QED BY <1>1, <2>2 DEF fdc_cmd
<1>2. CASE s.disk # NoDisk
  <2>1. s.disk \in Images
    BY <1>2 DEF Keeps, Machine
  <2>2. Keeps(o, t)
    BY <2>1, KTransfers
  <2>3. idle \in Fdc
    <3>1. 0 \in Byte /\ 0 \in Word /\ err \in Byte
      BY ByteDef, WordDef
    <3> HIDE DEF err
    <3> QED BY <3>1 DEF Fdc
  <2>4. fdc_cmd(s, cmd) = [t EXCEPT !.fdc = idle]
    BY <1>2 DEF fdc_cmd
  <2> HIDE DEF t, idle
  <2> QED BY <2>2, <2>3, <2>4, KFdc
<1> QED BY <1>1, <1>2

LEMMA KOutput ==
  ASSUME NEW o, NEW s, Keeps(o, s), NEW port, NEW v \in Byte
  PROVE  Keeps(o, output_handler(s, port, v))
<1>1. s \in Machine
  BY DEF Keeps
<1>2. /\ [s EXCEPT !.fdc.lba = set_low(@, v)] = [s EXCEPT !.fdc.lba = set_low(s.fdc.lba, v)]
      /\ [s EXCEPT !.fdc.lba = set_high(@, v)] = [s EXCEPT !.fdc.lba = set_high(s.fdc.lba, v)]
      /\ [s EXCEPT !.fdc.dma = set_low(@, v)] = [s EXCEPT !.fdc.dma = set_low(s.fdc.dma, v)]
      /\ [s EXCEPT !.fdc.dma = set_high(@, v)] = [s EXCEPT !.fdc.dma = set_high(s.fdc.dma, v)]
  BY <1>1 DEF Machine, Fdc
<1>3. /\ Keeps(o, [s EXCEPT !.fdc.lba = set_low(@, v)]) /\ Keeps(o, [s EXCEPT !.fdc.lba = set_high(@, v)])
      /\ Keeps(o, [s EXCEPT !.fdc.dma = set_low(@, v)]) /\ Keeps(o, [s EXCEPT !.fdc.dma = set_high(@, v)])
      /\ Keeps(o, [s EXCEPT !.fdc.count = IF v = 0 THEN 1 ELSE v])
  BY <1>2, KLatch
<1>4. Keeps(o, fdc_cmd(s, v)) /\ Keeps(o, ACIA_write_cmd(s, v)) /\ Keeps(o, [s EXCEPT !.acia.transmit = v])
  BY KCommand, KAciaCmd, KAciaData
<1> QED BY <1>3, <1>4 DEF output_handler

-----------------------------------------------------------------------------
(* The instructions, group by group                                        *)

LEMMA KAccumulate ==
  ASSUME NEW o, NEW s, Keeps(o, s), NEW y \in 0 .. 7, NEW b \in Byte
  PROVE  Keeps(o, Accumulate(s, y, b))
<1>1. s.regs[REG_A] \in Byte
  BY Fields, Numbers DEF Keeps
<1>2. AluOp(s.flags, s.regs[REG_A], b, y) \in Res8
  BY <1>1, AluType
<1> QED BY <1>2, Numbers, KPut DEF Accumulate

LEMMA KHalt == ASSUME NEW o, NEW s, Keeps(o, s) PROVE Keeps(o, [s EXCEPT !.halt = TRUE])
<1>1. [s EXCEPT !.halt = TRUE] \in Machine /\ [s EXCEPT !.halt = TRUE].mem = s.mem
  BY DEF Keeps, Machine
<1> QED BY <1>1, SameMem

LEMMA KLoads ==
  ASSUME NEW o, NEW s, Keeps(o, s), NEW y \in 0 .. 7, NEW z \in 0 .. 7
  PROVE  Keeps(o, op_load(s, y, z)) /\ Keeps(o, op_alu(s, y, z))
<1>1. get_r8(s, z) \in Byte
  BY Registers8 DEF Keeps
<1>2. Keeps(o, [s EXCEPT !.halt = TRUE]) /\ Keeps(o, set_r8(s, y, get_r8(s, z)))
  BY <1>1, KHalt, KSet8
<1>3. Keeps(o, Accumulate(s, y, get_r8(s, z)))
  BY <1>1, KAccumulate
<1> QED BY <1>2, <1>3 DEF op_load, op_alu

LEMMA KRelative ==
  ASSUME NEW o, NEW s, Keeps(o, s), NEW y \in 0 .. 7
  PROVE  Keeps(o, RelativeJumps(s, y))
<1> DEFINE next == Skip(s, 1)
           b == (s.regs[REG_B] - 1) % 256
           n == [next EXCEPT !.regs[REG_B] = b]
<1>1. s \in Machine /\ fByte(s) \in Byte /\ s.regs[REG_B] \in Int
  BY Fields, Numbers, Fetched, ByteDef DEF Keeps
<1>2. b \in Byte
  BY <1>1, Cut8
<1>3. Keeps(o, next)
  BY KSkip
<1> HIDE DEF b, next
<1>4. Keeps(o, n)
  BY <1>2, <1>3, Numbers, KReg
<1>5. Keeps(o, Branch(next, fByte(s))) /\ Keeps(o, Branch(n, fByte(s)))
  BY <1>1, <1>3, <1>4, KBranch
<1>6. Keeps(o, exchange_af(s))
  BY KExchangeAf
<1>7. CASE y = 0
  BY <1>7 DEF RelativeJumps
<1>8. CASE y = 1
  BY <1>6, <1>8 DEF RelativeJumps
<1>9. CASE y = 2
  BY <1>4, <1>5, <1>9 DEF RelativeJumps, next, b
<1>10. CASE y = 3
  BY <1>5, <1>10 DEF RelativeJumps, next
<1>11. CASE y >= 4
  BY <1>3, <1>5, <1>11 DEF RelativeJumps, next
<1> QED BY <1>7, <1>8, <1>9, <1>10, <1>11

LEMMA KIndirect ==
  ASSUME NEW o, NEW s, Keeps(o, s), NEW p \in 0 .. 3, NEW q \in 0 .. 1
  PROVE  Keeps(o, IndirectLoads(s, p, q))
<1> DEFINE next == Skip(s, 2)
<1>1. s \in Machine
  BY DEF Keeps
<1>2. fWord(s) \in Word /\ s.regs[REG_A] \in Byte /\ HL(s) \in Word
  BY <1>1, Fetched, Fields, Numbers, Pairs
<1>3. mread8(s, fWord(s)) \in Byte /\ mread16(s, fWord(s)) \in Word
  BY <1>1, <1>2, Read8, Read16
<1>4. Keeps(o, next)
  BY KSkip
<1> HIDE DEF next
<1>5. ASSUME p <= 1
      PROVE  Keeps(o, [s EXCEPT !.regs[REG_A] = mread8(s, Pair(s, p))]) /\ Keeps(o, mwrite8(s, Pair(s, p), s.regs[REG_A]))
  <2>1. p \in 0 .. 2
    BY <1>5
  <2>2. Pair(s, p) \in Word
    BY <1>1, <2>1, Pairs
  <2>3. mread8(s, Pair(s, p)) \in Byte
    BY <1>1, <2>2, Read8
  <2> QED BY <1>2, <2>2, <2>3, Numbers, KReg, KWrite8
<1>6. Keeps(o, set_hl(next, mread16(s, fWord(s))))
  BY <1>3, <1>4, KSet16
<1>7. Keeps(o, [next EXCEPT !.regs[REG_A] = mread8(s, fWord(s))])
  BY <1>3, <1>4, Numbers, KReg
<1>8. Keeps(o, mwrite16(next, fWord(s), HL(s))) /\ Keeps(o, mwrite8(next, fWord(s), s.regs[REG_A]))
  BY <1>2, <1>4, KWrite8, KWrite16
<1>9. IndirectLoads(s, p, q) \in {[s EXCEPT !.regs[REG_A] = mread8(s, Pair(s, p))], mwrite8(s, Pair(s, p), s.regs[REG_A])} \/ p > 1
  BY DEF IndirectLoads
<1>10. CASE p <= 1
  BY <1>5, <1>9, <1>10
<1>11. CASE p = 2
  BY <1>6, <1>8, <1>11 DEF IndirectLoads, next
<1>12. CASE p = 3
  BY <1>7, <1>8, <1>12 DEF IndirectLoads, next
<1> QED BY <1>10, <1>11, <1>12

LEMMA KResult ==
  ASSUME NEW o, NEW s, Keeps(o, s), NEW v \in Byte, NEW mask, NEW f \in FlagSet
  PROVE  Keeps(o, [s EXCEPT !.regs[REG_A] = v, !.flags = update_flagsYX((@ \ mask) \cup f, v)])
<1> DEFINE g == update_flagsYX((s.flags \ mask) \cup f, v)
           t == [s EXCEPT !.regs[REG_A] = v]
<1>1. s \in Machine /\ s.flags \in FlagSet
  BY Fields DEF Keeps
<1>2. s.flags \ mask \in FlagSet
  BY <1>1, Unions
<1>3. (s.flags \ mask) \cup f \in FlagSet
  BY <1>2, Unions
<1>4. g \in FlagSet
  BY <1>3, YXFlags
<1>5. Keeps(o, t) /\ t.flags = s.flags
  BY <1>1, Numbers, KReg DEF Machine
<1>6. [s EXCEPT !.regs[REG_A] = v, !.flags = update_flagsYX((@ \ mask) \cup f, v)] = [t EXCEPT !.flags = g]
  BY <1>5
<1> HIDE DEF g, t
<1> QED BY <1>4, <1>5, <1>6, KFlags

LEMMA KAccumulator ==
  ASSUME NEW o, NEW s, Keeps(o, s), NEW y \in 0 .. 7
  PROVE  Keeps(o, AccumulatorOps(s, y))
<1> DEFINE a == s.regs[REG_A]
           c == getFlag(s.flags, "C")
           Result(v, mask, f) == [s EXCEPT !.regs[REG_A] = v, !.flags = update_flagsYX((@ \ mask) \cup f, v)]
<1>1. a \in Byte
  BY Fields, Numbers DEF Keeps
<1>2. c \in {0, 1} /\ Bit(a, 0) \in {0, 1} /\ Bit(a, 7) \in {0, 1} /\ 255 - a \in Byte
  BY <1>1, Carry, BitRange, ByteDef
<1>3. /\ (2 * a + Bit(a, 7)) % 256 \in Byte /\ (a \div 2) + 128 * Bit(a, 0) \in Byte
      /\ (2 * a + c) % 256 \in Byte /\ (a \div 2) + 128 * c \in Byte
  <2> HIDE DEF a, c
  <2>1. \A d \in {0, 1} : (2 * a + d) % 256 \in Byte /\ (a \div 2) + 128 * d \in Byte
    BY <1>1, Shifts
  <2> QED BY <1>2, <2>1, Zenon
<1>4. /\ When(Bit(a, 7) = 1, "C") \in FlagSet /\ When(Bit(a, 0) = 1, "C") \in FlagSet
      /\ {"N", "H"} \in FlagSet /\ {"C"} \in FlagSet /\ (IF c = 1 THEN {"H"} ELSE {"C"}) \in FlagSet
  BY AllFlags DEF When, FlagSet
<1>5. \A v \in Byte, f \in FlagSet : \A mask : Keeps(o, Result(v, mask, f))
  BY KResult
<1>6. AccumulatorOps(s, y) =
        CASE y = 0 -> Result((2 * a + Bit(a, 7)) % 256, {"C", "N", "H"}, When(Bit(a, 7) = 1, "C"))
          [] y = 1 -> Result((a \div 2) + 128 * Bit(a, 0), {"C"}, When(Bit(a, 0) = 1, "C"))
          [] y = 2 -> Result((2 * a + c) % 256, {"C", "N", "H"}, When(Bit(a, 7) = 1, "C"))
          [] y = 3 -> Result((a \div 2) + 128 * c, {"C"}, When(Bit(a, 0) = 1, "C"))
          [] y = 4 -> s
          [] y = 5 -> Result(255 - a, {}, {"N", "H"})
          [] y = 6 -> Result(a, {"N", "H"}, {"C"})
          [] y = 7 -> Result(a, {"N", "H", "C"}, IF c = 1 THEN {"H"} ELSE {"C"})
  BY DEF AccumulatorOps
<1> HIDE DEF a, c, Result
<1>7. Keeps(o, Result((2 * a + Bit(a, 7)) % 256, {"C", "N", "H"}, When(Bit(a, 7) = 1, "C")))
  BY <1>3, <1>4, <1>5
<1>8. Keeps(o, Result((a \div 2) + 128 * Bit(a, 0), {"C"}, When(Bit(a, 0) = 1, "C")))
  BY <1>3, <1>4, <1>5
<1>9. Keeps(o, Result((2 * a + c) % 256, {"C", "N", "H"}, When(Bit(a, 7) = 1, "C")))
  BY <1>3, <1>4, <1>5
<1>10. Keeps(o, Result((a \div 2) + 128 * c, {"C"}, When(Bit(a, 0) = 1, "C")))
  BY <1>3, <1>4, <1>5
<1>11. Keeps(o, Result(255 - a, {}, {"N", "H"}))
  BY <1>2, <1>4, <1>5
<1>12. Keeps(o, Result(a, {"N", "H"}, {"C"}))
  BY <1>1, <1>4, <1>5
<1>13. Keeps(o, Result(a, {"N", "H", "C"}, IF c = 1 THEN {"H"} ELSE {"C"}))
  BY <1>1, <1>4, <1>5
<1> QED BY <1>6, <1>7, <1>8, <1>9, <1>10, <1>11, <1>12, <1>13

\* The fields y, z, p and q of an opcode.
LEMMA Decoded ==
  ASSUME NEW op \in Byte
  PROVE  (op \div 8) % 8 \in 0 .. 7 /\ op % 8 \in 0 .. 7 /\ op \div 64 \in 0 .. 3
BY ByteDef
LEMMA Selected == ASSUME NEW y \in 0 .. 7 PROVE y \div 2 \in 0 .. 3 /\ y % 2 \in 0 .. 1
OBVIOUS

LEMMA KGroup0 ==
  ASSUME NEW o, NEW s, Keeps(o, s), NEW y \in 0 .. 7, NEW z \in 0 .. 7
  PROVE  Keeps(o, group_x0(s, y, z))
<1> DEFINE p == y \div 2
           q == y % 2
           pair == get_r16_1(s, p)
           sum == add16(s.flags, HL(s), pair)
<1>1. s \in Machine /\ s.flags \in FlagSet /\ p \in 0 .. 3 /\ q \in 0 .. 1
  BY Fields, Selected DEF Keeps
<1>2. group_x0(s, y, z) =
        CASE z = 0 -> RelativeJumps(s, y)
          [] z = 1 /\ q = 1 -> set_hl([s EXCEPT !.flags = sum.f], sum.v)
          [] z = 1 /\ q = 0 -> set_r16_1(Skip(s, 2), p, fWord(s))
          [] z = 2 -> IndirectLoads(s, p, q)
          [] z = 3 -> set_r16_1(s, p, IF q = 1 THEN dec16(pair) ELSE inc16(pair))
          [] z = 4 -> Put(s, y, inc8(s.flags, get_r8(s, y)))
          [] z = 5 -> Put(s, y, dec8(s.flags, get_r8(s, y)))
          [] z = 6 -> set_r8(Skip(s, 1), y, fByte(s))
          [] z = 7 -> AccumulatorOps(s, y)
  BY DEF group_x0
<1> HIDE DEF p, q
<1>3. pair \in Word /\ HL(s) \in Word /\ get_r8(s, y) \in Byte /\ fByte(s) \in Byte /\ fWord(s) \in Word
  BY <1>1, Registers8, Registers16, Pairs, Fetched
<1> HIDE DEF pair
<1>4. sum.v \in Word /\ sum.f \in FlagSet
  <2>1. sum \in Res16
    BY <1>1, <1>3, WideType
  <2> QED BY <2>1 DEF Res16
<1> HIDE DEF sum
<1>5. Keeps(o, set_hl([s EXCEPT !.flags = sum.f], sum.v))
  <2>1. Keeps(o, [s EXCEPT !.flags = sum.f])
    BY <1>4, KFlags
  <2> QED BY <1>4, <2>1, KSet16
<1>6. Keeps(o, Skip(s, 1)) /\ Keeps(o, Skip(s, 2))
  BY KSkip
<1>7. Keeps(o, set_r16_1(Skip(s, 2), p, fWord(s))) /\ Keeps(o, set_r8(Skip(s, 1), y, fByte(s)))
  BY <1>1, <1>3, <1>6, KSet16, KSet8
<1>8. Keeps(o, set_r16_1(s, p, IF q = 1 THEN dec16(pair) ELSE inc16(pair)))
  <2>1. (IF q = 1 THEN dec16(pair) ELSE inc16(pair)) \in Word
    BY <1>3, IncDec
  <2> QED BY <1>1, <2>1, KSet16
<1>9. Keeps(o, Put(s, y, inc8(s.flags, get_r8(s, y)))) /\ Keeps(o, Put(s, y, dec8(s.flags, get_r8(s, y))))
  <2>1. inc8(s.flags, get_r8(s, y)) \in Res8 /\ dec8(s.flags, get_r8(s, y)) \in Res8
    BY <1>1, <1>3, CountType
  <2> QED BY <2>1, KPut
<1>10. Keeps(o, RelativeJumps(s, y)) /\ Keeps(o, IndirectLoads(s, p, q)) /\ Keeps(o, AccumulatorOps(s, y))
  BY <1>1, KRelative, KIndirect, KAccumulator
<1>11. q = 0 \/ q = 1
  BY <1>1
<1> QED BY <1>2, <1>5, <1>7, <1>8, <1>9, <1>10, <1>11

LEMMA KPrefixCb == ASSUME NEW o, NEW s, Keeps(o, s) PROVE Keeps(o, prefix_cb(s))
<1> DEFINE op == fByte(s)
           x == op \div 64
           y == (op \div 8) % 8
           z == op % 8
           next == Skip(s, 1)
           val == get_r8(s, z)
<1>1. s \in Machine /\ s.flags \in FlagSet /\ op \in Byte
  BY Fields, Fetched DEF Keeps
<1>2. x \in 0 .. 3 /\ y \in 0 .. 7 /\ z \in 0 .. 7
  BY <1>1, Decoded
<1>3. Keeps(o, next) /\ next.flags = s.flags
  BY <1>1, KSkip DEF Skip, Machine
<1>4. prefix_cb(s) =
        CASE x = 0 -> Put(next, z, RotOp(s.flags, val, y))
          [] x = 1 -> [next EXCEPT !.flags = bit8(@, val, y)]
          [] x = 2 -> set_r8(next, z, res8(val, y))
          [] x = 3 -> set_r8(next, z, set8(val, y))
  BY DEF prefix_cb
<1> HIDE DEF op, x, y, z, next
<1>5. val \in Byte
  BY <1>1, <1>2, Registers8
<1> HIDE DEF val
<1>6. RotOp(s.flags, val, y) \in Res8
  BY <1>2, <1>5, RotType
<1>7. bit8(s.flags, val, y) \in FlagSet /\ res8(val, y) \in Byte /\ set8(val, y) \in Byte
  BY <1>1, <1>2, <1>5, BitType
<1>8. Keeps(o, Put(next, z, RotOp(s.flags, val, y)))
  BY <1>2, <1>3, <1>6, KPut
<1>9. Keeps(o, [next EXCEPT !.flags = bit8(@, val, y)])
  <2>1. Keeps(o, [next EXCEPT !.flags = bit8(s.flags, val, y)])
    BY <1>3, <1>7, KFlags
  <2> QED BY <1>3, <2>1
<1>10. Keeps(o, set_r8(next, z, res8(val, y))) /\ Keeps(o, set_r8(next, z, set8(val, y)))
  BY <1>2, <1>3, <1>7, KSet8
<1>11. x = 0 \/ x = 1 \/ x = 2 \/ x = 3
  BY <1>2
<1> QED BY <1>4, <1>8, <1>9, <1>10, <1>11

LEMMA KPrefixCbIndex ==
  ASSUME NEW o, NEW s, Keeps(o, s), NEW idx \in {"ix", "iy"}
  PROVE  Keeps(o, prefix_cb_index(s, idx))
<1> DEFINE t == Skip(s, 2)
           op == fByte(Skip(s, 1))
           x == op \div 64
           y == (op \div 8) % 8
           val == mread8(s, get_index_addr(s, idx))
           f == CASE x = 0 -> RotOp(s.flags, val, y).f [] x = 1 -> bit8(s.flags, val, y) [] OTHER -> s.flags
<1>1. s \in Machine /\ Skip(s, 1) \in Machine /\ s.flags \in FlagSet
  <2>1. Keeps(o, Skip(s, 1))
    BY KSkip
  <2> QED BY <2>1, Fields DEF Keeps
<1>2. op \in Byte /\ get_index_addr(s, idx) \in Word
  BY <1>1, Fetched, IndexRegisters
<1>3. y \in 0 .. 7 /\ val \in Byte
  BY <1>1, <1>2, Decoded, Read8
<1>4. Keeps(o, t) /\ t.flags = s.flags
  BY <1>1, KSkip DEF Skip, Machine
<1>5. prefix_cb_index(s, idx) = [t EXCEPT !.flags = f]
  <2>1. prefix_cb_index(s, idx) =
          [t EXCEPT !.flags = CASE x = 0 -> RotOp(@, val, y).f [] x = 1 -> bit8(@, val, y) [] OTHER -> @]
    BY DEF prefix_cb_index
  <2> HIDE DEF t, x, y, val
  <2> QED BY <1>4, <2>1
<1> HIDE DEF t, x, y, val
<1>6. RotOp(s.flags, val, y).f \in FlagSet /\ bit8(s.flags, val, y) \in FlagSet
  <2>1. RotOp(s.flags, val, y) \in Res8
    BY <1>3, RotType
  <2> QED BY <1>1, <1>3, <2>1, BitType DEF Res8
<1>7. f \in FlagSet
  BY <1>1, <1>6
<1> HIDE DEF f
<1> QED BY <1>4, <1>5, <1>7, KFlags

\* The block instructions; s is the machine at the start, n one that has made its move.
LEMMA KBlock ==
  ASSUME NEW o, NEW s, Keeps(o, s), NEW y \in 0 .. 7, NEW z \in 0 .. 3
  PROVE  Keeps(o, op_block_instruction(s, y, z))
<1> DEFINE Move(v) == IF y % 2 = 1 THEN dec16(v) ELSE inc16(v)
           Again(n, more) == IF (y \div 2) % 2 = 1 /\ more THEN Skip(n, -2) ELSE n
           left == dec16(BC(s))
           Moved(n) == SetPair(set_hl(n, Move(HL(s))), 0, left)
           Counted(n, stop) ==
             Again([Moved(n) EXCEPT !.flags = setFlag(@, {"PV"}, left # 0)], left # 0 /\ ~stop)
           count == dec8(s.flags, s.regs[REG_B])
           Ported(n) == Again([set_hl(n, Move(HL(s))) EXCEPT !.regs[REG_B] = count.v, !.flags = count.f],
                              count.v # 0)
           found == cp8(s.flags, s.regs[REG_A], mread8(s, HL(s)))
           port == s.regs[REG_C]
<1>1. /\ s \in Machine /\ s.flags \in FlagSet /\ BC(s) \in Word /\ DE(s) \in Word /\ HL(s) \in Word
      /\ s.regs[REG_A] \in Byte /\ s.regs[REG_B] \in Byte
  BY Fields, Pairs, Numbers DEF Keeps
<1>2. left \in Word /\ \A v \in Word : Move(v) \in Word
  BY <1>1, IncDec
<1>3. op_block_instruction(s, y, z) =
        CASE z = 0 -> Counted(SetPair(mwrite8(s, DE(s), mread8(s, HL(s))), 1, Move(DE(s))), FALSE)
          [] z = 1 -> Counted([s EXCEPT !.flags = found], "Z" \in found)
          [] z = 2 -> Ported(mwrite8(input_handler(s, port), HL(s), input_value(s, port)))
          [] z = 3 -> Ported(output_handler(s, port, mread8(s, HL(s))))
  BY DEF op_block_instruction
<1>4. mread8(s, HL(s)) \in Byte
  BY <1>1, Read8
<1>5. found \in FlagSet /\ count.v \in Byte /\ count.f \in FlagSet
  <2>1. count \in Res8
    BY <1>1, CountType
  <2> QED BY <1>1, <1>4, <2>1, CompareFlags DEF Res8
<1>6. ASSUME NEW n, Keeps(o, n), NEW more PROVE Keeps(o, Again(n, more))
  <2>1. Keeps(o, Skip(n, -2))
    BY <1>6, KSkip
  <2> QED BY <1>6, <2>1
<1> HIDE DEF Move, Again, left, count, found, port
<1>7. ASSUME NEW n, Keeps(o, n) PROVE Keeps(o, set_hl(n, Move(HL(s))))
  BY <1>1, <1>2, <1>7, KSet16
<1>8. ASSUME NEW n, Keeps(o, n), NEW stop PROVE Keeps(o, Counted(n, stop))
  <2>1. Keeps(o, Moved(n))
    BY <1>2, <1>7, <1>8, KSetPair
  <2> HIDE DEF Moved
  <2>2. Moved(n).flags \in FlagSet /\ {"PV"} \in FlagSet /\ Moved(n) \in Machine
    BY <2>1, Fields, AllFlags DEF Keeps, FlagSet
  <2>3. setFlag(Moved(n).flags, {"PV"}, left # 0) \in FlagSet
    BY <2>2, SetFlags
  <2>4. Keeps(o, [Moved(n) EXCEPT !.flags = setFlag(Moved(n).flags, {"PV"}, left # 0)])
    BY <2>1, <2>3, KFlags
  <2>5. [Moved(n) EXCEPT !.flags = setFlag(@, {"PV"}, left # 0)]
          = [Moved(n) EXCEPT !.flags = setFlag(Moved(n).flags, {"PV"}, left # 0)]
    OBVIOUS
  <2> QED BY <1>6, <2>4, <2>5
<1>9. ASSUME NEW n, Keeps(o, n) PROVE Keeps(o, Ported(n))
  <2>1. Keeps(o, [set_hl(n, Move(HL(s))) EXCEPT !.regs[REG_B] = count.v])
    BY <1>5, <1>7, <1>9, Numbers, KReg
  <2>2. Keeps(o, [set_hl(n, Move(HL(s))) EXCEPT !.regs[REG_B] = count.v, !.flags = count.f])
    BY <1>5, <2>1, KFlags
  <2> QED BY <1>6, <2>2
<1> HIDE DEF Counted, Ported
<1>10. Keeps(o, Counted(SetPair(mwrite8(s, DE(s), mread8(s, HL(s))), 1, Move(DE(s))), FALSE))
  <2>1. Keeps(o, mwrite8(s, DE(s), mread8(s, HL(s))))
    BY <1>1, <1>4, KWrite8
  <2>2. Keeps(o, SetPair(mwrite8(s, DE(s), mread8(s, HL(s))), 1, Move(DE(s))))
    BY <1>1, <1>2, <2>1, KSetPair
  <2> QED BY <1>8, <2>2
<1>11. Keeps(o, Counted([s EXCEPT !.flags = found], "Z" \in found))
  <2>1. Keeps(o, [s EXCEPT !.flags = found])
    BY <1>5, KFlags
  <2> QED BY <1>8, <2>1
<1>12. Keeps(o, Ported(mwrite8(input_handler(s, port), HL(s), input_value(s, port))))
  <2>1. Keeps(o, input_handler(s, port)) /\ input_value(s, port) \in Byte
    BY KInput
  <2>2. Keeps(o, mwrite8(input_handler(s, port), HL(s), input_value(s, port)))
    BY <1>1, <2>1, KWrite8
  <2> QED BY <1>9, <2>2
<1>13. Keeps(o, Ported(output_handler(s, port, mread8(s, HL(s)))))
  <2>1. Keeps(o, output_handler(s, port, mread8(s, HL(s))))
    BY <1>4, KOutput
  <2> QED BY <1>9, <2>1
<1>14. z = 0 \/ z = 1 \/ z = 2 \/ z = 3
  OBVIOUS
<1> QED BY <1>3, <1>10, <1>11, <1>12, <1>13, <1>14

LEMMA KSpecial ==
  ASSUME NEW o, NEW s, Keeps(o, s), NEW v \in Byte
  PROVE  Keeps(o, [s EXCEPT !.i = v]) /\ Keeps(o, [s EXCEPT !.r = v]) /\ Keeps(o, [s EXCEPT !.im = v])
<1>1. /\ [s EXCEPT !.i = v] \in Machine /\ [s EXCEPT !.i = v].mem = s.mem
      /\ [s EXCEPT !.r = v] \in Machine /\ [s EXCEPT !.r = v].mem = s.mem
      /\ [s EXCEPT !.im = v] \in Machine /\ [s EXCEPT !.im = v].mem = s.mem
  BY DEF Keeps, Machine
<1> QED BY <1>1, SameMem

LEMMA KInterrupts ==
  ASSUME NEW o, NEW s, Keeps(o, s), NEW v \in BOOLEAN
  PROVE  Keeps(o, [s EXCEPT !.iff1 = v]) /\ Keeps(o, [s EXCEPT !.iff1 = v, !.iff2 = v])
<1>1. /\ [s EXCEPT !.iff1 = v] \in Machine /\ [s EXCEPT !.iff1 = v].mem = s.mem
      /\ [s EXCEPT !.iff1 = v, !.iff2 = v] \in Machine /\ [s EXCEPT !.iff1 = v, !.iff2 = v].mem = s.mem
  BY DEF Keeps, Machine
<1> QED BY <1>1, SameMem

LEMMA Nibbles ==
  ASSUME NEW a \in Byte, NEW m \in Byte
  PROVE  /\ a - (a % 16) + (m % 16) \in Byte /\ (m \div 16) + 16 * (a % 16) \in Byte
         /\ a - (a % 16) + (m \div 16) \in Byte /\ 16 * (m % 16) + (a % 16) \in Byte
BY ByteDef

LEMMA KEdMisc ==
  ASSUME NEW o, NEW s, Keeps(o, s), NEW y \in 0 .. 7
  PROVE  Keeps(o, EdMisc(s, y))
<1> DEFINE a == s.regs[REG_A]
           m == mread8(s, HL(s))
           FromSpecial(v) == [s EXCEPT !.regs[REG_A] = v,
             !.flags = (@ \ {"S", "Z", "N", "H", "PV"}) \cup SignZero(v) \cup When(s.iff2, "PV")]
           Digits(v, byte) == [mwrite8(s, HL(s), byte) EXCEPT !.regs[REG_A] = v,
             !.flags = (@ \cap {"C"}) \cup SignZero(v) \cup Parity(v) \cup YX(v)]
<1>1. s \in Machine /\ a \in Byte /\ HL(s) \in Word /\ s.i \in Byte /\ s.r \in Byte
  BY Fields, Numbers, Pairs DEF Keeps
<1>2. m \in Byte
  BY <1>1, Read8
<1>3. EdMisc(s, y) =
        CASE y = 0 -> [s EXCEPT !.i = a]
          [] y = 1 -> [s EXCEPT !.r = a]
          [] y = 2 -> FromSpecial(s.i)
          [] y = 3 -> FromSpecial(s.r)
          [] y = 4 -> Digits(a - (a % 16) + (m % 16), (m \div 16) + 16 * (a % 16))
          [] y = 5 -> Digits(a - (a % 16) + (m \div 16), 16 * (m % 16) + (a % 16))
          [] OTHER -> s
  BY DEF EdMisc
<1> HIDE DEF a, m
<1>4. Keeps(o, [s EXCEPT !.i = a]) /\ Keeps(o, [s EXCEPT !.r = a])
  BY <1>1, KSpecial
<1>5. ASSUME NEW v \in Byte PROVE Keeps(o, FromSpecial(v))
  <2> DEFINE t == [s EXCEPT !.regs[REG_A] = v]
             f == (s.flags \ {"S", "Z", "N", "H", "PV"}) \cup SignZero(v) \cup When(s.iff2, "PV")
  <2>1. Keeps(o, t) /\ t.flags = s.flags
    BY <1>1, Numbers, KReg DEF Machine
  <2>2. f \in FlagSet
    <3>1. s.flags \in FlagSet
      BY <1>1, Fields
    <3> QED BY <3>1, SomeFlags, AllFlags DEF FlagSet, When
  <2>3. FromSpecial(v) = [t EXCEPT !.flags = f]
    BY <2>1
  <2> HIDE DEF t, f, FromSpecial
  <2> QED BY <2>1, <2>2, <2>3, KFlags
<1>6. ASSUME NEW v \in Byte, NEW byte \in Byte PROVE Keeps(o, Digits(v, byte))
  <2> DEFINE w == mwrite8(s, HL(s), byte)
             t == [w EXCEPT !.regs[REG_A] = v]
             f == (w.flags \cap {"C"}) \cup SignZero(v) \cup Parity(v) \cup YX(v)
  <2>1. Keeps(o, w)
    BY <1>1, KWrite8
  <2>2. Digits(v, byte) = [t EXCEPT !.flags = f]
    <3> HIDE DEF w
    <3>1. w \in Machine
      BY <2>1 DEF Keeps
    <3>2. t.flags = w.flags
      BY <3>1 DEF Machine
    <3>3. Digits(v, byte) = [t EXCEPT !.flags = (@ \cap {"C"}) \cup SignZero(v) \cup Parity(v) \cup YX(v)]
      BY DEF w
    <3> HIDE DEF t
    <3> QED BY <3>2, <3>3
  <2> HIDE DEF w, Digits
  <2>3. Keeps(o, t)
    BY <2>1, Numbers, KReg
  <2>4. f \in FlagSet
    <3>1. w.flags \in FlagSet
      BY <2>1, Fields DEF Keeps
    <3> QED BY <3>1, SomeFlags DEF FlagSet
  <2> HIDE DEF t, f
  <2> QED BY <2>2, <2>3, <2>4, KFlags
<1> HIDE DEF FromSpecial, Digits
<1>7. Keeps(o, FromSpecial(s.i)) /\ Keeps(o, FromSpecial(s.r))
  BY <1>1, <1>5
<1>8. Keeps(o, Digits(a - (a % 16) + (m % 16), (m \div 16) + 16 * (a % 16)))
  BY <1>1, <1>2, <1>6, Nibbles
<1>9. Keeps(o, Digits(a - (a % 16) + (m \div 16), 16 * (m % 16) + (a % 16)))
  BY <1>1, <1>2, <1>6, Nibbles
<1> QED BY <1>3, <1>4, <1>7, <1>8, <1>9

LEMMA KPrefixEd == ASSUME NEW o, NEW t, Keeps(o, t) PROVE Keeps(o, prefix_ed(t))
<1> DEFINE op == fByte(t)
           x == op \div 64
           y == (op \div 8) % 8
           z == op % 8
           s == Skip(t, 1)
           p == y \div 2
           q == y % 2
           port == s.regs[REG_C]
           nn == fWord(s)
           wide == IF q = 1 THEN adc16(s.flags, HL(s), get_r16_1(s, p))
                            ELSE sbc16(s.flags, HL(s), get_r16_1(s, p))
           back == Jump(pop(s), popped(s))
           mode == <<0, 0, 1, 2, 0, 0, 1, 2>>[y + 1]
<1>1. op \in Byte
  BY Fetched DEF Keeps
<1>2. y \in 0 .. 7 /\ z \in 0 .. 7
  BY <1>1, Decoded
<1>3. Keeps(o, s)
  BY KSkip
<1>4. prefix_ed(t) =
        CASE x = 1 /\ z = 0 -> IF y = 6 THEN s ELSE set_r8(input_handler(s, port), y, input_value(s, port))
          [] x = 1 /\ z = 1 -> output_handler(s, port, IF y = 6 THEN 0 ELSE get_r8(s, y))
          [] x = 1 /\ z = 2 -> set_hl([s EXCEPT !.flags = wide.f], wide.v)
          [] x = 1 /\ z = 3 -> IF q = 1 THEN set_r16_1(Skip(s, 2), p, mread16(s, nn))
                                        ELSE mwrite16(Skip(s, 2), nn, get_r16_1(s, p))
          [] x = 1 /\ z = 4 -> Put(s, REG_A, sub8(s.flags, 0, s.regs[REG_A]))
          [] x = 1 /\ z = 5 -> [back EXCEPT !.iff1 = IF y = 1 THEN @ ELSE s.iff2]
          [] x = 1 /\ z = 6 -> [s EXCEPT !.im = mode]
          [] x = 1 /\ z = 7 -> EdMisc(s, y)
          [] x = 2 /\ z <= 3 /\ y >= 4 -> op_block_instruction(s, y, z)
          [] OTHER -> s
  BY DEF prefix_ed
<1> HIDE DEF op, x, y, z, s
<1>5. p \in 0 .. 3 /\ q \in 0 .. 1
  BY <1>2, Selected
<1> HIDE DEF p, q
<1>6. /\ s \in Machine /\ s.flags \in FlagSet /\ HL(s) \in Word /\ get_r16_1(s, p) \in Word /\ nn \in Word
      /\ get_r8(s, y) \in Byte /\ s.regs[REG_A] \in Byte /\ popped(s) \in Word /\ 0 \in Byte
  BY <1>2, <1>3, <1>5, Fields, Numbers, Pairs, Registers8, Registers16, Fetched, ByteDef DEF Keeps
<1> HIDE DEF nn, port
<1>7. Keeps(o, IF y = 6 THEN s ELSE set_r8(input_handler(s, port), y, input_value(s, port)))
  <2>1. Keeps(o, input_handler(s, port)) /\ input_value(s, port) \in Byte
    BY <1>3, KInput
  <2>2. Keeps(o, set_r8(input_handler(s, port), y, input_value(s, port)))
    BY <1>2, <2>1, KSet8
  <2> QED BY <1>3, <2>2
<1>8. Keeps(o, output_handler(s, port, IF y = 6 THEN 0 ELSE get_r8(s, y)))
  <2>1. (IF y = 6 THEN 0 ELSE get_r8(s, y)) \in Byte
    BY <1>6
  <2> QED BY <1>3, <2>1, KOutput
<1>9. Keeps(o, set_hl([s EXCEPT !.flags = wide.f], wide.v))
  <2>1. wide \in Res16
    BY <1>6, WideType
  <2>2. wide.f \in FlagSet /\ wide.v \in Word
    BY <2>1 DEF Res16
  <2> HIDE DEF wide
  <2>3. Keeps(o, [s EXCEPT !.flags = wide.f])
    BY <1>3, <2>2, KFlags
  <2> QED BY <2>2, <2>3, KSet16
<1> HIDE DEF wide
<1>10. Keeps(o, IF q = 1 THEN set_r16_1(Skip(s, 2), p, mread16(s, nn)) ELSE mwrite16(Skip(s, 2), nn, get_r16_1(s, p)))
  <2>1. Keeps(o, Skip(s, 2)) /\ mread16(s, nn) \in Word
    BY <1>3, <1>6, KSkip, Read16
  <2>2. Keeps(o, set_r16_1(Skip(s, 2), p, mread16(s, nn))) /\ Keeps(o, mwrite16(Skip(s, 2), nn, get_r16_1(s, p)))
    BY <1>5, <1>6, <2>1, KSet16, KWrite16
  <2> QED BY <2>2
<1>11. Keeps(o, Put(s, REG_A, sub8(s.flags, 0, s.regs[REG_A])))
  <2>1. sub8(s.flags, 0, s.regs[REG_A]) \in Res8
    BY <1>6, Diff8Type DEF sub8
  <2> QED BY <1>3, <2>1, Numbers, KPut
<1>12. Keeps(o, [back EXCEPT !.iff1 = IF y = 1 THEN @ ELSE s.iff2])
  <2>1. Keeps(o, back)
    BY <1>3, <1>6, KPop, KJump
  <2> HIDE DEF back
  <2>2. back.iff1 \in BOOLEAN /\ s.iff2 \in BOOLEAN
    BY <1>6, <2>1 DEF Keeps, Machine
  <2>3. (IF y = 1 THEN back.iff1 ELSE s.iff2) \in BOOLEAN
    BY <2>2, Zenon
  <2>4. Keeps(o, [back EXCEPT !.iff1 = IF y = 1 THEN back.iff1 ELSE s.iff2])
    BY <2>1, <2>3, KInterrupts
  <2> QED BY <2>4
<1> HIDE DEF back
<1>13. Keeps(o, [s EXCEPT !.im = mode])
  <2>1. mode \in {0, 1, 2}
    BY <1>2
  <2>2. mode \in Byte
    BY <2>1, ByteDef
  <2> HIDE DEF mode
  <2> QED BY <1>3, <2>2, KSpecial
<1> HIDE DEF mode
<1>14. Keeps(o, EdMisc(s, y)) /\ (z <= 3 => Keeps(o, op_block_instruction(s, y, z)))
  <2>1. z <= 3 => z \in 0 .. 3
    BY <1>2
  <2> QED BY <1>2, <1>3, <2>1, KEdMisc, KBlock
<1> QED BY <1>3, <1>4, <1>7, <1>8, <1>9, <1>10, <1>11, <1>12, <1>13, <1>14

\* The index prefixes.
LEMMA KIndexArith ==
  ASSUME NEW o, NEW s, Keeps(o, s), NEW y \in 0 .. 7, NEW z \in 0 .. 7, NEW idx \in {"ix", "iy"}
  PROVE  Keeps(o, IndexArith(s, y, z, idx))
<1> DEFINE p == y \div 2
           q == y % 2
           addr == get_index_addr(s, idx)
           sum == add16(s.flags, s[idx], get_r16_index(s, p, idx))
           InMem(res) == mwrite8([Skip(s, 1) EXCEPT !.flags = res.f], addr, res.v)
           InReg(res) == set_r8_index([s EXCEPT !.flags = res.f], y, res.v, idx)
           old == IF y = 6 THEN mread8(s, addr) ELSE get_r8_index(s, y, idx)
<1>1. p \in 0 .. 3
  BY Selected
<1>2. IndexArith(s, y, z, idx) =
        CASE z = 1 /\ q = 1 -> [s EXCEPT ![idx] = sum.v, !.flags = sum.f]
          [] z = 1 /\ y = 4 -> [Skip(s, 2) EXCEPT ![idx] = fWord(s)]
          [] z = 2 /\ y = 4 -> mwrite16(Skip(s, 2), fWord(s), s[idx])
          [] z = 2 /\ y = 5 -> [Skip(s, 2) EXCEPT ![idx] = mread16(s, fWord(s))]
          [] z = 3 /\ p = 2 -> [s EXCEPT ![idx] = IF q = 1 THEN dec16(@) ELSE inc16(@)]
          [] z = 4 -> IF y = 6 THEN InMem(inc8(s.flags, old)) ELSE InReg(inc8(s.flags, old))
          [] z = 5 -> IF y = 6 THEN InMem(dec8(s.flags, old)) ELSE InReg(dec8(s.flags, old))
          [] z = 6 -> IF y = 6 THEN mwrite8(Skip(s, 2), addr, fByte(Skip(s, 1)))
                               ELSE set_r8_index(Skip(s, 1), y, fByte(s), idx)
          [] OTHER -> s
  BY DEF IndexArith
<1> HIDE DEF p, q
<1>3. Keeps(o, Skip(s, 1)) /\ Keeps(o, Skip(s, 2)) /\ s \in Machine /\ Skip(s, 1) \in Machine
  <2>1. Keeps(o, Skip(s, 1)) /\ Keeps(o, Skip(s, 2))
    BY KSkip
  <2> QED BY <2>1 DEF Keeps
<1>4. /\ s.flags \in FlagSet /\ s[idx] \in Word /\ fByte(s) \in Byte /\ fByte(Skip(s, 1)) \in Byte
      /\ fWord(s) \in Word /\ addr \in Word
  BY <1>3, Fields, Fetched, IndexRegisters
<1> HIDE DEF addr
<1>5. old \in Byte /\ get_r16_index(s, p, idx) \in Word /\ mread16(s, fWord(s)) \in Word
  BY <1>1, <1>3, <1>4, IndexRegisters, Read8, Read16
<1> HIDE DEF old
<1>6. Keeps(o, [s EXCEPT ![idx] = sum.v, !.flags = sum.f])
  <2>1. sum \in Res16
    BY <1>4, <1>5, WideType
  <2>2. sum.f \in FlagSet /\ sum.v \in Word
    BY <2>1 DEF Res16
  <2> HIDE DEF sum
  <2>3. Keeps(o, [s EXCEPT ![idx] = sum.v])
    BY <2>2, KIndex
  <2> QED BY <2>2, <2>3, KFlags
<1> HIDE DEF sum
<1>7. Keeps(o, [Skip(s, 2) EXCEPT ![idx] = fWord(s)]) /\ Keeps(o, [Skip(s, 2) EXCEPT ![idx] = mread16(s, fWord(s))])
  BY <1>3, <1>4, <1>5, KIndex
<1>8. Keeps(o, mwrite16(Skip(s, 2), fWord(s), s[idx]))
  BY <1>3, <1>4, KWrite16
<1>9. Keeps(o, [s EXCEPT ![idx] = IF q = 1 THEN dec16(@) ELSE inc16(@)])
  <2>1. (IF q = 1 THEN dec16(s[idx]) ELSE inc16(s[idx])) \in Word
    BY <1>4, IncDec
  <2>2. Keeps(o, [s EXCEPT ![idx] = IF q = 1 THEN dec16(s[idx]) ELSE inc16(s[idx])])
    BY <2>1, KIndex
  <2> QED BY <2>2
<1>10. ASSUME NEW res \in Res8 PROVE Keeps(o, InMem(res)) /\ Keeps(o, InReg(res))
  <2>1. res.f \in FlagSet /\ res.v \in Byte
    BY DEF Res8
  <2>2. Keeps(o, [Skip(s, 1) EXCEPT !.flags = res.f]) /\ Keeps(o, [s EXCEPT !.flags = res.f])
    BY <1>3, <2>1, KFlags
  <2> QED BY <1>4, <2>1, <2>2, KWrite8, KSetIndex
<1> HIDE DEF InMem, InReg
<1>11. /\ Keeps(o, InMem(inc8(s.flags, old))) /\ Keeps(o, InReg(inc8(s.flags, old)))
       /\ Keeps(o, InMem(dec8(s.flags, old))) /\ Keeps(o, InReg(dec8(s.flags, old)))
  <2>1. inc8(s.flags, old) \in Res8 /\ dec8(s.flags, old) \in Res8
    BY <1>4, <1>5, CountType
  <2> QED BY <1>10, <2>1
<1>12. Keeps(o, mwrite8(Skip(s, 2), addr, fByte(Skip(s, 1)))) /\ Keeps(o, set_r8_index(Skip(s, 1), y, fByte(s), idx))
  BY <1>3, <1>4, KWrite8, KSetIndex
<1> QED BY <1>2, <1>6, <1>7, <1>8, <1>9, <1>11, <1>12

LEMMA KIndexLoad ==
  ASSUME NEW o, NEW s, Keeps(o, s), NEW y \in 0 .. 7, NEW z \in 0 .. 7, NEW idx \in {"ix", "iy"}
  PROVE  Keeps(o, IndexLoad(s, y, z, idx)) /\ Keeps(o, IndexAlu(s, y, z, idx))
<1> DEFINE addr == get_index_addr(s, idx)
<1>1. Keeps(o, Skip(s, 1)) /\ s \in Machine
  BY KSkip DEF Keeps
<1>2. addr \in Word /\ get_r8(s, z) \in Byte /\ get_r8_index(s, z, idx) \in Byte
  BY <1>1, Registers8, IndexRegisters
<1>3. mread8(s, addr) \in Byte
  BY <1>1, <1>2, Read8
<1>4. /\ Keeps(o, mwrite8(Skip(s, 1), addr, get_r8(s, z))) /\ Keeps(o, set_r8(Skip(s, 1), y, mread8(s, addr)))
      /\ Keeps(o, set_r8_index(s, y, get_r8_index(s, z, idx), idx))
  BY <1>1, <1>2, <1>3, KWrite8, KSet8, KSetIndex
<1>5. Keeps(o, Accumulate(Skip(s, 1), y, mread8(s, addr))) /\ Keeps(o, Accumulate(s, y, get_r8_index(s, z, idx)))
  BY <1>1, <1>2, <1>3, KAccumulate
<1>6. Keeps(o, IndexLoad(s, y, z, idx))
  BY <1>4 DEF IndexLoad
<1> QED BY <1>5, <1>6 DEF IndexAlu

LEMMA KIndexStack ==
  ASSUME NEW o, NEW s, Keeps(o, s), NEW y \in 0 .. 7, NEW z \in 0 .. 7, NEW idx \in {"ix", "iy"}
  PROVE  Keeps(o, IndexStack(s, y, z, idx))
<1>1. s.sp \in Word /\ s[idx] \in Word /\ popped(s) \in Word
  BY Fields, Fetched DEF Keeps
<1>2. Keeps(o, [pop(s) EXCEPT ![idx] = popped(s)])
  <2>1. Keeps(o, pop(s))
    BY KPop
  <2> QED BY <1>1, <2>1, KIndex
<1>3. Keeps(o, Jump(s, s[idx])) /\ Keeps(o, [s EXCEPT !.sp = s[idx]]) /\ Keeps(o, push(s, s[idx]))
  BY <1>1, KJump, KSp, KPush
<1>4. Keeps(o, prefix_cb_index(s, idx))
  BY KPrefixCbIndex
<1>5. Keeps(o, [mwrite16(s, s.sp, s[idx]) EXCEPT ![idx] = popped(s)])
  <2>1. Keeps(o, mwrite16(s, s.sp, s[idx]))
    BY <1>1, KWrite16
  <2> QED BY <1>1, <2>1, KIndex
<1> QED BY <1>2, <1>3, <1>4, <1>5 DEF IndexStack

LEMMA KPrefixIndex ==
  ASSUME NEW o, NEW t, Keeps(o, t), NEW idx \in {"ix", "iy"}
  PROVE  Keeps(o, prefix_dd_fd(t, idx))
<1> DEFINE op == fByte(t)
           x == op \div 64
           y == (op \div 8) % 8
           z == op % 8
           s == Skip(t, 1)
<1>1. op \in Byte
  BY Fetched DEF Keeps
<1>2. x \in 0 .. 3 /\ y \in 0 .. 7 /\ z \in 0 .. 7
  BY <1>1, Decoded
<1>3. Keeps(o, s)
  BY KSkip
<1>4. prefix_dd_fd(t, idx) =
        CASE x = 0 -> IndexArith(s, y, z, idx) [] x = 1 -> IndexLoad(s, y, z, idx)
          [] x = 2 -> IndexAlu(s, y, z, idx)   [] x = 3 -> IndexStack(s, y, z, idx)
  BY DEF prefix_dd_fd
<1> HIDE DEF op, x, y, z, s
<1>5. /\ Keeps(o, IndexArith(s, y, z, idx)) /\ Keeps(o, IndexLoad(s, y, z, idx))
      /\ Keeps(o, IndexAlu(s, y, z, idx)) /\ Keeps(o, IndexStack(s, y, z, idx))
  BY <1>2, <1>3, KIndexArith, KIndexLoad, KIndexStack
<1>6. x = 0 \/ x = 1 \/ x = 2 \/ x = 3
  BY <1>2
<1> QED BY <1>4, <1>5, <1>6

LEMMA KCall == ASSUME NEW o, NEW s, Keeps(o, s), NEW a \in Word PROVE Keeps(o, Call(s, a))
<1>1. s.pc \in Word
  BY Fields DEF Keeps
<1>2. Keeps(o, push(s, s.pc))
  BY <1>1, KPush
<1> QED BY <1>2, KJump DEF Call

LEMMA KReturn == ASSUME NEW o, NEW s, Keeps(o, s) PROVE Keeps(o, Jump(pop(s), popped(s)))
<1>1. popped(s) \in Word /\ Keeps(o, pop(s))
  BY Fetched, KPop DEF Keeps
<1> QED BY <1>1, KJump

LEMMA KPopGroup ==
  ASSUME NEW o, NEW s, Keeps(o, s), NEW p \in 0 .. 3, NEW q \in 0 .. 1
  PROVE  Keeps(o, PopGroup(s, p, q))
<1>1. popped(s) \in Word /\ HL(s) \in Word /\ Keeps(o, pop(s))
  BY Fetched, Pairs, KPop DEF Keeps
<1>2. Keeps(o, set_r16_2(pop(s), p, popped(s)))
  BY <1>1, KSet16
<1>3. Keeps(o, Jump(pop(s), popped(s))) /\ Keeps(o, EXX(s)) /\ Keeps(o, Jump(s, HL(s))) /\ Keeps(o, [s EXCEPT !.sp = HL(s)])
  BY <1>1, KReturn, KExx, KJump, KSp
<1>4. (q = 0 \/ q = 1) /\ (p = 0 \/ p = 1 \/ p = 2 \/ p = 3)
  OBVIOUS
<1> QED BY <1>2, <1>3, <1>4 DEF PopGroup

LEMMA KMiscGroup ==
  ASSUME NEW o, NEW s, Keeps(o, s), NEW y \in 0 .. 7
  PROVE  Keeps(o, MiscGroup(s, y))
<1>1. s \in Machine /\ s.sp \in Word /\ s.regs[REG_A] \in Byte /\ HL(s) \in Word /\ fWord(s) \in Word /\ popped(s) \in Word
  BY Fields, Numbers, Pairs, Fetched DEF Keeps
<1>2. Keeps(o, Skip(s, 1))
  BY KSkip
<1>3. Keeps(o, Jump(s, fWord(s))) /\ Keeps(o, prefix_cb(s)) /\ Keeps(o, exchange(s, 1, 2))
  BY <1>1, KJump, KPrefixCb, KExchange
<1>4. Keeps(o, output_handler(Skip(s, 1), fByte(s), s.regs[REG_A]))
  BY <1>1, <1>2, KOutput
<1>5. Keeps(o, [input_handler(Skip(s, 1), fByte(s)) EXCEPT !.regs[REG_A] = input_value(s, fByte(s))])
  <2>1. Keeps(o, input_handler(Skip(s, 1), fByte(s)))
    BY <1>2, KInput
  <2>2. input_value(s, fByte(s)) \in Byte
    BY KInput
  <2> QED BY <2>1, <2>2, Numbers, KReg
<1>6. Keeps(o, set_hl(mwrite16(s, s.sp, HL(s)), popped(s)))
  <2>1. Keeps(o, mwrite16(s, s.sp, HL(s)))
    BY <1>1, KWrite16
  <2> QED BY <1>1, <2>1, KSet16
<1>7. Keeps(o, [s EXCEPT !.iff1 = FALSE, !.iff2 = FALSE]) /\ Keeps(o, [s EXCEPT !.iff1 = TRUE, !.iff2 = TRUE])
  BY KInterrupts
<1> QED BY <1>3, <1>4, <1>5, <1>6, <1>7 DEF MiscGroup

LEMMA KCallGroup ==
  ASSUME NEW o, NEW s, Keeps(o, s), NEW p \in 0 .. 3, NEW q \in 0 .. 1
  PROVE  Keeps(o, CallGroup(s, p, q))
<1>1. get_r16_2(s, p) \in Word /\ fWord(s) \in Word /\ Keeps(o, Skip(s, 2))
  BY Registers16, Fetched, KSkip DEF Keeps
<1>2. /\ Keeps(o, push(s, get_r16_2(s, p))) /\ Keeps(o, Call(Skip(s, 2), fWord(s)))
      /\ Keeps(o, prefix_dd_fd(s, "ix")) /\ Keeps(o, prefix_ed(s)) /\ Keeps(o, prefix_dd_fd(s, "iy"))
  BY <1>1, KPush, KCall, KPrefixIndex, KPrefixEd
<1>3. (q = 0 \/ q = 1) /\ (p = 0 \/ p = 1 \/ p = 2 \/ p = 3)
  OBVIOUS
<1> QED BY <1>2, <1>3 DEF CallGroup

LEMMA KGroup3 ==
  ASSUME NEW o, NEW s, Keeps(o, s), NEW y \in 0 .. 7, NEW z \in 0 .. 7
  PROVE  Keeps(o, group_x3(s, y, z))
<1> DEFINE p == y \div 2
           q == y % 2
           next == Skip(s, 2)
           nn == fWord(s)
<1>1. p \in 0 .. 3 /\ q \in 0 .. 1 /\ 8 * y \in Word
  BY Selected, WordDef
<1>2. nn \in Word /\ fByte(s) \in Byte
  BY Fetched DEF Keeps
<1>3. Keeps(o, next) /\ Keeps(o, Skip(s, 1))
  BY KSkip
<1>4. group_x3(s, y, z) =
        CASE z = 0 -> IF check_cond(s.flags, y) THEN Jump(pop(s), popped(s)) ELSE s
          [] z = 1 -> PopGroup(s, p, q)
          [] z = 2 -> IF check_cond(s.flags, y) THEN Jump(next, nn) ELSE next
          [] z = 3 -> MiscGroup(s, y)
          [] z = 4 -> IF check_cond(s.flags, y) THEN Call(next, nn) ELSE next
          [] z = 5 -> CallGroup(s, p, q)
          [] z = 6 -> Accumulate(Skip(s, 1), y, fByte(s))
          [] z = 7 -> Call(s, 8 * y)
  BY DEF group_x3
<1> HIDE DEF p, q, next, nn
<1>5. Keeps(o, Jump(pop(s), popped(s))) /\ Keeps(o, Jump(next, nn)) /\ Keeps(o, Call(next, nn)) /\ Keeps(o, Call(s, 8 * y))
  BY <1>1, <1>2, <1>3, KReturn, KJump, KCall
<1>6. /\ Keeps(o, PopGroup(s, p, q)) /\ Keeps(o, MiscGroup(s, y)) /\ Keeps(o, CallGroup(s, p, q))
      /\ Keeps(o, Accumulate(Skip(s, 1), y, fByte(s)))
  BY <1>1, <1>2, <1>3, KPopGroup, KMiscGroup, KCallGroup, KAccumulate
<1> QED BY <1>3, <1>4, <1>5, <1>6

LEMMA KStep == ASSUME NEW o, NEW s, Keeps(o, s) PROVE Keeps(o, step(s))
<1> DEFINE op == fByte(s)
           x == op \div 64
           y == (op \div 8) % 8
           z == op % 8
           t == Skip(s, 1)
           n == [t EXCEPT !.r = (t.r + 1) % 128]
<1>1. op \in Byte
  BY Fetched DEF Keeps
<1>2. x \in 0 .. 3 /\ y \in 0 .. 7 /\ z \in 0 .. 7
  BY <1>1, Decoded
<1>3. step(s) = dispatch(n, op)
  BY DEF step
<1>4. dispatch(n, op) = CASE x = 0 -> group_x0(n, y, z) [] x = 1 -> op_load(n, y, z)
                          [] x = 2 -> op_alu(n, y, z)   [] x = 3 -> group_x3(n, y, z)
  BY DEF dispatch
<1>5. Keeps(o, n)
  <2>1. Keeps(o, t)
    BY KSkip
  <2> HIDE DEF t
  <2>2. t.r \in Byte
    BY <2>1, Fields DEF Keeps
  <2>3. (t.r + 1) % 128 \in Byte
    BY <2>2, ByteDef
  <2> QED BY <2>1, <2>3, KSpecial
<1> HIDE DEF op, x, y, z, t, n
<1>6. Keeps(o, group_x0(n, y, z)) /\ Keeps(o, op_load(n, y, z)) /\ Keeps(o, op_alu(n, y, z)) /\ Keeps(o, group_x3(n, y, z))
  BY <1>2, <1>5, KGroup0, KLoads, KGroup3
<1>7. x = 0 \/ x = 1 \/ x = 2 \/ x = 3
  BY <1>2
<1> QED BY <1>3, <1>4, <1>6, <1>7

LEMMA KInterrupt == ASSUME NEW o, NEW s, Keeps(o, s) PROVE Keeps(o, interrupt(s))
<1>1. Keeps(o, [s EXCEPT !.iff1 = FALSE, !.iff2 = FALSE])
  BY KInterrupts
<1>2. 56 \in Word
  BY WordDef
<1>3. Keeps(o, Call([s EXCEPT !.iff1 = FALSE, !.iff2 = FALSE], 56))
  BY <1>1, <1>2, KCall
<1> QED BY <1>3 DEF interrupt

-----------------------------------------------------------------------------
(* The specification                                                       *)

\* The inductive invariant: TypeOK, with the parts it leaves out, among them the boolean
\* fields and the sectors of the disk, whose bytes a transfer loads into memory.
MachineInv == machine \in Machine

LEMMA InitMachine == Init => MachineInv
<1> SUFFICES ASSUME Init PROVE machine \in Machine
  BY DEF MachineInv
<1>1. PICK rom \in Roms, disk \in Disks :
       machine = [regs |-> [k \in 0 .. 7 |-> 0], shadow_regs |-> [k \in 0 .. 7 |-> 0],
                  flags |-> {}, shadow_flags |-> {}, ix |-> 0, iy |-> 0, pc |-> 0, sp |-> 0,
                  i |-> 0, r |-> 0, im |-> 0, iff1 |-> FALSE, iff2 |-> FALSE, halt |-> FALSE,
                  mem |-> [a \in 0 .. MEM_SIZE - 1 |-> IF a < Len(rom) THEN rom[a + 1] ELSE 0],
                  fdc |-> [status |-> 0, count |-> 0, lba |-> 0, dma |-> 0], disk |-> disk,
                  acia |-> [ctrl |-> 0, status |-> 2, transmit |-> 0, receive |-> 0]]
  BY DEF Init
<1>2. 0 \in Byte /\ 2 \in Byte /\ 0 \in Word /\ {} \in FlagSet
  BY ByteDef, WordDef DEF FlagSet
<1>3. [k \in 0 .. 7 |-> 0] \in Regs /\ [status |-> 0, count |-> 0, lba |-> 0, dma |-> 0] \in Fdc
      /\ [ctrl |-> 0, status |-> 2, transmit |-> 0, receive |-> 0] \in Acia
  BY <1>2 DEF Regs, Fdc, Acia
<1>4. [a \in 0 .. MEM_SIZE - 1 |-> IF a < Len(rom) THEN rom[a + 1] ELSE 0] \in Memory
  <2>1. rom \in Seq(Byte)
    BY BytesAssumption
  <2>2. ASSUME NEW a \in 0 .. MEM_SIZE - 1, a < Len(rom) PROVE rom[a + 1] \in Byte
    <3>1. a \in Int /\ 0 <= a /\ Len(rom) \in Nat
      BY <2>1, MemSizes
    <3>2. a + 1 \in 1 .. Len(rom)
      BY <2>2, <3>1
    <3> QED BY <2>1, <3>2
  <2> QED BY <1>2, <2>2 DEF Memory
<1>5. disk \in {NoDisk} \cup Images
  <2>1. CASE disk # NoDisk
    <3>1. DOMAIN disk \in SUBSET Nat /\ disk \in [DOMAIN disk -> Sector]
      BY <2>1, BytesAssumption DEF Sector
    <3> QED BY <3>1 DEF Images
  <2> QED BY <2>1
<1> QED BY <1>1, <1>2, <1>3, <1>4, <1>5 DEF Machine

LEMMA KNext == ASSUME MachineInv, [Next]_vars PROVE Keeps(machine, machine')
<1>1. Keeps(machine, machine)
  BY DEF MachineInv, Keeps
<1>2. CASE execute
  <2>1. Keeps(machine, IF interrupt_pending THEN interrupt(machine) ELSE machine)
    BY <1>1, KInterrupt
  <2>2. Keeps(machine, step(IF interrupt_pending THEN interrupt(machine) ELSE machine))
    BY <2>1, KStep
  <2> QED BY <1>2, <2>2 DEF execute
<1>3. ASSUME NEW ch \in Keys, KeyTyped(ch) PROVE Keeps(machine, machine')
  <2> DEFINE v == IF old_format /\ ch = 10 THEN 13 ELSE ch
             b == ByteOf[BitSet[machine.acia.status] \cup IF 0 \in BitSet[machine.acia.status] THEN {0, 5} ELSE {0}]
  <2>1. v \in Byte
    <3>1. ch \in Byte /\ 13 \in Byte
      BY BytesAssumption, ByteDef
    <3> QED BY <3>1
  <2>2. machine \in Machine /\ machine.acia \in Acia /\ machine.acia.status \in Byte
    BY DEF MachineInv, Machine, Acia
  <2>3. b \in Byte
    <3>1. BitSet[machine.acia.status] \cup (IF 0 \in BitSet[machine.acia.status] THEN {0, 5} ELSE {0}) \in SUBSET (0 .. 7)
      BY <2>2, BitSets
    <3> QED BY <3>1, ByteOfByte
  <2>4. machine' = Received(machine, v, b)
    BY <1>3, <2>2 DEF KeyTyped, Received, Machine, Acia
  <2> HIDE DEF v, b
  <2> QED BY <1>1, <2>1, <2>3, <2>4, KReceive
<1>4. CASE UNCHANGED vars
  BY <1>1, <1>4 DEF vars
<1> QED BY <1>2, <1>3, <1>4 DEF Next

LEMMA MachineImpliesTypeOK == MachineInv => TypeOK
<1> SUFFICES ASSUME machine \in Machine PROVE TypeOK
  BY DEF MachineInv
<1>1. machine.fdc \in Fdc /\ machine.acia \in Acia /\ machine.mem \in Memory
  BY DEF Machine
<1>2. /\ machine.fdc.lba \in Word /\ machine.fdc.dma \in Word /\ machine.fdc.count \in Byte
      /\ machine.acia.receive \in Byte /\ machine.acia.status \in Byte
  BY <1>1 DEF Fdc, Acia
<1>3. \A a \in DOMAIN machine.mem : machine.mem[a] \in Byte
  BY <1>1 DEF Memory
<1>4. machine.flags \subseteq Flags /\ machine.shadow_flags \subseteq Flags
  BY Fields DEF FlagSet
<1> QED BY <1>2, <1>3, <1>4, Fields DEF TypeOK

\* Every register of the processor, the controller and the serial port, and every byte of
\* memory, holds a value of its width, whatever the ROM, the disk and the keys.
THEOREM Z80TypeCorrect == Spec => []TypeOK
<1>1. MachineInv /\ [Next]_vars => MachineInv'
  BY KNext DEF Keeps, MachineInv
<1> QED BY <1>1, InitMachine, MachineImpliesTypeOK, PTL DEF Spec

\* No instruction, interrupt or floppy transfer changes a byte below rom_size.
THEOREM RomStaysIntact == Spec => RomIntact
<1>1. MachineInv /\ [Next]_vars => MachineInv'
  BY KNext DEF Keeps, MachineInv
<1>2. MachineInv /\ [Next]_vars => [\A a \in 0 .. rom_size - 1 : machine'.mem[a] = machine.mem[a]]_vars
  BY KNext DEF Keeps
<1> QED BY <1>1, <1>2, InitMachine, PTL DEF Spec, RomIntact
=============================================================================
