-------------------------------- MODULE Alu --------------------------------
(***************************************************************************)
(* The arithmetic of the emulated Z80 (bemu80.c): each operation returns a *)
(* record with the result v and the flags f after it.  The flag register   *)
(* is the set of the flags that are 1; FlagByte and ByteFlags convert to   *)
(* and from the byte that PUSH AF and POP AF move.                         *)
(***************************************************************************)
EXTENDS Integers, FiniteSets, FiniteSetsExt

UINT8_MAX == 255
UINT16_MAX == 65535
Byte == 0 .. UINT8_MAX
Word == 0 .. UINT16_MAX

FlagWeight == [C |-> 1, N |-> 2, PV |-> 4, X |-> 8,
               H |-> 16, Y |-> 32, Z |-> 64, S |-> 128]
Flags == DOMAIN FlagWeight

\* The bits of a word and the carry above it.
Weight == <<1, 2, 4, 8, 16, 32, 64, 128, 256, 512, 1024, 2048, 4096, 8192, 16384, 32768, 65536>>
Bit(v, k) == (v \div Weight[k + 1]) % 2

\* The bytes as sets of bits, both ways, as tables.
BitSet == [v \in Byte |-> {k \in 0 .. 7 : Bit(v, k) = 1}]
ByteOf ==
  [B \in SUBSET (0 .. 7) |->
     LET On(k) == IF k \in B THEN Weight[k + 1] ELSE 0
     IN  On(0) + On(1) + On(2) + On(3) + On(4) + On(5) + On(6) + On(7)]

FlagByte(f) ==
  LET On(n) == IF n \in f THEN FlagWeight[n] ELSE 0
  IN  On("C") + On("N") + On("PV") + On("X") + On("H") + On("Y") + On("Z") + On("S")
ByteFlags(v) == {n \in Flags : (v \div FlagWeight[n]) % 2 = 1}

When(cond, flag) == IF cond THEN {flag} ELSE {}
\* Mutant: a flag is never cleared.
setFlag_Sticky(f, mask, value) == IF value THEN f \cup mask ELSE f

setFlag(f, mask, value) == IF value THEN f \cup mask ELSE f \ mask
getFlag(f, flag) == IF flag \in f THEN 1 ELSE 0

YX(r) == When(Bit(r, 5) = 1, "Y") \cup When(Bit(r, 3) = 1, "X")
update_flagsYX(f, r) == (f \ {"Y", "X"}) \cup YX(r)
SignZero(r) == When(Bit(r, 7) = 1, "S") \cup When(r = 0, "Z")
Parity(r) == When(Cardinality(BitSet[r]) % 2 = 0, "PV")

\* (a ^ b ^ r) at bit k: the carry into that bit.
CarryInto(a, b, r, k) == (Bit(a, k) + Bit(b, k) + Bit(r, k)) % 2 = 1
SumOverflow(a, b, r, k) == Bit(a, k) = Bit(b, k) /\ Bit(a, k) # Bit(r, k)
DiffOverflow(a, b, r, k) == Bit(a, k) # Bit(b, k) /\ Bit(a, k) # Bit(r, k)
----------------------------------------------------------------------------
\* What a uint16_t keeps of a number, and what sixteen bits and the carry above them keep.
Low16(v) == v % 65536
Low17(v) == v % 131072

\* Eight bits: every flag is replaced.
Sum8(a, b, c) ==
  LET raw == a + b + c  r == raw % 256
  IN  [v |-> r, f |-> SignZero(r) \cup YX(r) \cup When(CarryInto(a, b, r, 4), "H")
                       \cup When(SumOverflow(a, b, r, 7), "PV") \cup When(Bit(raw, 8) = 1, "C")]

Diff8(a, b, c) ==
  LET raw == Low16(a - b - c)  r == raw % 256
  IN  [v |-> r, f |-> {"N"} \cup SignZero(r) \cup YX(r) \cup When(CarryInto(a, b, r, 4), "H")
                       \cup When(DiffOverflow(a, b, r, 7), "PV") \cup When(Bit(raw, 8) = 1, "C")]

add8(f, a, b) == Sum8(a, b, 0)
\* Mutant: the carry is not added.
adc8_NoCarry(f, a, b) == Sum8(a, b, 0)
adc8(f, a, b) == Sum8(a, b, getFlag(f, "C"))
sub8(f, a, b) == Diff8(a, b, 0)
sbc8(f, a, b) == Diff8(a, b, getFlag(f, "C"))
cp8(f, a, b) == update_flagsYX(Diff8(a, b, 0).f, b)

Logic(r, h) == [v |-> r, f |-> SignZero(r) \cup Parity(r) \cup YX(r) \cup h]
and8(f, a, b) == Logic(ByteOf[BitSet[a] \cap BitSet[b]], {"H"})
or8(f, a, b) == Logic(ByteOf[BitSet[a] \cup BitSet[b]], {})
xor8(f, a, b) == Logic(ByteOf[(BitSet[a] \cup BitSet[b]) \ (BitSet[a] \cap BitSet[b])], {})

\* INC and DEC keep the carry.
Count8(f, a, r, overflow) ==
  [v |-> r, f |-> (f \cap {"C"}) \cup SignZero(r) \cup YX(r)
                   \cup When(Bit(a, 4) # Bit(r, 4), "H") \cup When(overflow, "PV")]
inc8(f, a) == Count8(f, a, (a + 1) % 256, a = 127)
\* Mutant: the result is not cut to a byte.
dec8_Wide(f, a) == [v |-> a - 1, f |-> (f \cap {"C"}) \cup {"N"} \cup When(a = 1, "Z")]
dec8(f, a) == LET res == Count8(f, a, (a - 1) % 256, a = 128) IN [res EXCEPT !.f = @ \cup {"N"}]
----------------------------------------------------------------------------
\* Sixteen bits.  ADD keeps S, Z and P/V; adc16 and sbc16 share one overflow formula.
add16(f, a, b) ==
  LET raw == a + b  r == Low16(raw)
  IN  [v |-> r, f |-> (f \cap {"S", "Z", "PV"}) \cup YX(r \div 256)
                       \cup When(CarryInto(a, b, r, 12), "H") \cup When(Bit(raw, 16) = 1, "C")]

Wide16(a, b, raw) ==
  LET r == Low16(raw)
  IN  [v |-> r, f |-> (SignZero(r \div 256) \ {"Z"}) \cup When(r = 0, "Z") \cup YX(r \div 256)
                       \cup When(CarryInto(a, b, r, 12), "H") \cup When(Bit(raw, 16) = 1, "C")
                       \cup When(DiffOverflow(a, b, r, 15), "PV")]
adc16(f, a, b) == Wide16(a, b, a + b + getFlag(f, "C"))
sbc16(f, a, b) ==
  LET res == Wide16(a, b, Low17(a - b - getFlag(f, "C"))) IN [res EXCEPT !.f = @ \cup {"N"}]
----------------------------------------------------------------------------
\* Rotates and shifts: N and H are cleared and C is the bit that fell out.
Shifted(r, out) == [v |-> r, f |-> SignZero(r) \cup Parity(r) \cup YX(r) \cup When(out = 1, "C")]
rlc8(f, a) == Shifted((2 * a + Bit(a, 7)) % 256, Bit(a, 7))
rl8(f, a) == Shifted((2 * a + getFlag(f, "C")) % 256, Bit(a, 7))
rrc8(f, a) == Shifted(a \div 2 + 128 * Bit(a, 0), Bit(a, 0))
rr8(f, a) == Shifted(a \div 2 + 128 * getFlag(f, "C"), Bit(a, 0))
sla8(f, a) == Shifted((2 * a) % 256, Bit(a, 7))
sll8(f, a) == Shifted((2 * a + 1) % 256, Bit(a, 7))
sra8(f, a) == Shifted(a \div 2 + 128 * Bit(a, 7), Bit(a, 0))
srl8(f, a) == Shifted(a \div 2, Bit(a, 0))

bit8(f, a, k) ==
  LET set == k \in BitSet[a]
  IN  (f \cap {"C"}) \cup {"H"} \cup IF set THEN (SignZero(a) \ {"Z"}) \cup YX(a) ELSE {"PV", "Z"}
res8(a, k) == ByteOf[BitSet[a] \ {k}]
set8(a, k) == ByteOf[BitSet[a] \cup {k}]

\* The condition codes in decoding order.
check_cond(f, cond) ==
  LET flag == <<"Z", "C", "PV", "S">>[cond \div 2 + 1]
  IN  (flag \in f) <=> (cond % 2 = 1)
=============================================================================
