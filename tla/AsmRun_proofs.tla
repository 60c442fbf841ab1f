--------------------------- MODULE AsmRun_proofs ---------------------------
(***************************************************************************)
(* The two passes of the assembler, for sources of every length: a line    *)
(* that the second pass accepts is as long there as in the first, whatever *)
(* its labels have become, so the second pass meets each label where the   *)
(* first one put it.                                                       *)
(***************************************************************************)
EXTENDS AsmRun, TLAPS, NaturalsInduction, WellFoundedInduction, SequenceTheorems

LEMMA Least == ASSUME NEW D \in SUBSET Nat, D # {} PROVE \E x \in D : \A y \in D : x <= y
<1> DEFINE R == OpToRel(<, Nat)
<1>1. \E x \in D : \A y \in D : ~(<<y, x>> \in R)
  BY NatLessThanWellFounded, WFMin
<1>2. \A x, y \in D : <<y, x>> \in R <=> y < x
  BY DEF OpToRel
<1> HIDE DEF R
<1>3. PICK x \in D : \A y \in D : ~(<<y, x>> \in R)
  BY <1>1
<1>4. ASSUME NEW y \in D PROVE x <= y
  <2>1. ~(y < x)
    BY <1>2, <1>3
  <2> QED BY <2>1
<1> QED BY <1>4

LEMMA Minimum == ASSUME NEW S \in SUBSET Nat, S # {} PROVE Min(S) \in S /\ \A x \in S : Min(S) <= x
<1>1. \E x \in S : \A y \in S : x <= y
  BY Least
<1> QED BY <1>1, Zenon DEF Min
----------------------------------------------------------------------------
\* The addresses that are not negative as an int.
Low == 0 .. 32767

LEMMA InLow == ASSUME NEW v \in Nat, v < 32768 PROVE v \in Low
<1>1. PICK n \in Nat : n = 32767
  OBVIOUS
<1>2. Low = 0 .. n
  BY <1>1 DEF Low
<1>3. v < n + 1
  BY <1>1
<1>4. v \in 0 .. n
  BY <1>3, SMTT(60)
<1> QED BY <1>2, <1>4

LEMMA LowWord == ASSUME NEW v \in Low PROVE Uint16(v) = v /\ Int16(v) = v /\ v \in Nat
<1>1. v \in Nat /\ v < 32768 /\ v < 65536
  BY SMTT(60) DEF Low
<1>2. Uint16(v) = v
  BY <1>1, SMTT(60) DEF Uint16
<1>3. Int16(v) = v
  BY <1>1, <1>2, SMTT(60) DEF Int16
<1> QED BY <1>1, <1>2, <1>3

Args == [s : STRING, n : Int]
SourceLines == [op : STRING, a : Args, b : Args]
Labels == [id : Int, address : Low]

\* What the rules ask of an argument; c is a with its label replaced.
Alike(a, c) ==
  /\ reg8(c) = reg8(a) /\ reg16(c) = reg16(a) /\ index_reg(c) = index_reg(a)
  /\ jpcond(c) = jpcond(a) /\ jrcond(c) = jrcond(a)
  /\ index_addr(c) <=> index_addr(a)
  /\ mem_addr(c) >= 0 <=> mem_addr(a) >= 0
  /\ strtol(c) \in 0 .. 56 => strtol(a) \in 0 .. 56
  /\ \A t \in {NoText, "A", "HL", "SP", "AF", "AF'", "DE", "(HL)", "(BC)", "(DE)", "(SP)"} : c.s = t <=> a.s = t

LEMMA AlikeItself == ASSUME NEW a PROVE Alike(a, a)
BY DEF Alike

LEMMA AlikeLabel ==
  ASSUME NEW a, NEW c,
         \/ a.s = "lab" /\ c.s = "num"
         \/ a.s = "(lab)" /\ c.s = "(num)" /\ c.n \in Low
  PROVE  Alike(a, c)
<1>1. reg8(c) = -1 /\ reg8(a) = -1 /\ reg16(c) = -1 /\ reg16(a) = -1
  BY DEF reg8, reg16, Lookup, Reg8Table
<1>2. index_reg(c) = -1 /\ index_reg(a) = -1 /\ jpcond(c) = -1 /\ jpcond(a) = -1 /\ jrcond(c) = -1 /\ jrcond(a) = -1
  BY DEF index_reg, jpcond, jrcond, Lookup
<1>3. ~index_addr(c) /\ ~index_addr(a)
  BY DEF index_addr
<1>4. strtol(a) = 0
  BY DEF strtol
<1>5. mem_addr(c) >= 0 <=> mem_addr(a) >= 0
  <2>1. CASE a.s = "lab" /\ c.s = "num"
    BY <2>1 DEF mem_addr, Parenthesised
  <2>2. CASE a.s = "(lab)" /\ c.s = "(num)" /\ c.n \in Low
    <3>1. mem_addr(c) = c.n
      BY <2>2, LowWord DEF mem_addr
    <3>2. mem_addr(a) = 0 /\ c.n \in Nat
      BY <2>2, LowWord DEF mem_addr, Parenthesised
    <3> QED BY <3>1, <3>2
  <2> QED BY <2>1, <2>2
<1>6. \A t \in {NoText, "A", "HL", "SP", "AF", "AF'", "DE", "(HL)", "(BC)", "(DE)", "(SP)"} : c.s # t /\ a.s # t
  <2>1. c.s # NoText /\ a.s # NoText
    BY Zenon DEF NoText
  <2> QED BY <2>1
<1> QED BY <1>1, <1>2, <1>3, <1>4, <1>5, <1>6 DEF Alike

LEMMA LabelLow ==
  ASSUME NEW labels \in Seq(Labels), NEW id, get_label_addr(labels, id) # -1
  PROVE  get_label_addr(labels, id) \in Low
<1> DEFINE at == {k \in DOMAIN labels : labels[k].id = id}
<1>1. at # {} /\ get_label_addr(labels, id) = Int16(labels[Min(at)].address)
  BY DEF get_label_addr
<1>2. at \in SUBSET Nat
  OBVIOUS
<1>3. Min(at) \in DOMAIN labels
  BY <1>1, <1>2, Minimum
<1> HIDE DEF at
<1>4. labels[Min(at)] \in Labels
  BY <1>3
<1>5. labels[Min(at)].address \in Low
  BY <1>4 DEF Labels
<1> QED BY <1>1, <1>5, LowWord

\* Replacing labels, whose addresses are below 8000h, changes nothing that the rules ask.
LEMMA ResolvedAlike ==
  ASSUME NEW labels \in Seq(Labels), NEW a \in Args
  PROVE  Alike(a, Resolved(labels, a))
<1> DEFINE c == Resolved(labels, a)
           adr == get_label_addr(labels, a.n)
<1>1. CASE a.s \in {"lab", "(lab)"} /\ adr # -1
  <2>1. adr \in Low /\ adr \in Int
    BY <1>1, LabelLow, LowWord
  <2>2. c = [s |-> IF a.s = "lab" THEN "num" ELSE "(num)", n |-> adr]
    BY <1>1 DEF Resolved
  <2> HIDE DEF adr, c
  <2>3. c.n = adr /\ c.s = IF a.s = "lab" THEN "num" ELSE "(num)"
    BY <2>2
  <2>4. Alike(a, c)
    BY <1>1, <2>1, <2>3, AlikeLabel
  <2> QED BY <2>4 DEF c
<1>2. CASE ~(a.s \in {"lab", "(lab)"} /\ adr # -1)
  <2>1. c = a
    BY <1>2 DEF Resolved
  <2> QED BY <2>1, AlikeItself
<1> QED BY <1>1, <1>2
----------------------------------------------------------------------------
\* Two rules that apply together and emit equally many bytes, and lists of such rules.
Like(r, t) == (r.cond <=> t.cond) /\ Len(r.bytes) = Len(t.bytes) /\ Len(r.bytes) \in 0 .. 4
IsList(rs, n) == n \in Nat /\ rs = [k \in 1 .. n |-> rs[k]]
Matches(rs, ts) == \E n : IsList(rs, n) /\ IsList(ts, n) /\ \A k \in 1 .. n : Like(rs[k], ts[k])

LEMMA Lengths ==
  /\ Len(<<>>) = 0
  /\ \A x : Len(<<x>>) = 1
  /\ \A x, y : Len(<<x, y>>) = 2
  /\ \A x, y, z : Len(<<x, y, z>>) = 3
  /\ \A x, y, z, w : Len(<<x, y, z, w>>) = 4
  /\ \A x, v : Len(<<x>> \o AsWord(v)) = 3
  /\ \A x, y, v : Len(<<x, y>> \o AsWord(v)) = 4
<1>1. ASSUME NEW x, NEW v PROVE Len(<<x>> \o AsWord(v)) = 3
  <2> DEFINE p == v % 256
             q == (v \div 256) % 256
  <2>1. AsWord(v) = <<p, q>>
    BY DEF AsWord
  <2> HIDE DEF p, q
  <2>2. <<x>> \in Seq({x, p, q}) /\ <<p, q>> \in Seq({x, p, q}) /\ Len(<<x>>) = 1 /\ Len(<<p, q>>) = 2
    OBVIOUS
  <2>3. Len(<<x>> \o <<p, q>>) = 1 + 2
    BY <2>2, ConcatProperties
  <2> QED BY <2>1, <2>3
<1>2. ASSUME NEW x, NEW y, NEW v PROVE Len(<<x, y>> \o AsWord(v)) = 4
  <2> DEFINE p == v % 256
             q == (v \div 256) % 256
  <2>1. AsWord(v) = <<p, q>>
    BY DEF AsWord
  <2> HIDE DEF p, q
  <2>2. <<x, y>> \in Seq({x, y, p, q}) /\ <<p, q>> \in Seq({x, y, p, q}) /\ Len(<<x, y>>) = 2 /\ Len(<<p, q>>) = 2
    OBVIOUS
  <2>3. Len(<<x, y>> \o <<p, q>>) = 2 + 2
    BY <2>2, ConcatProperties
  <2> QED BY <2>1, <2>3
<1> QED BY <1>1, <1>2

Joins(j, rs, n, ru, m) ==
  /\ IsList(j, n + m) /\ n \in Nat /\ m \in Nat
  /\ \A k \in 1 .. n + m : j[k] = IF k <= n THEN rs[k] ELSE ru[k - n]

LEMMA Joined ==
  ASSUME NEW n, NEW m, NEW rs, NEW ru, IsList(rs, n), IsList(ru, m)
  PROVE  Joins(rs \o ru, rs, n, ru, m)
<1> DEFINE S == {rs[k] : k \in 1 .. n} \cup {ru[k] : k \in 1 .. m}
<1>1. rs \in Seq(S) /\ Len(rs) = n /\ n \in Nat
  <2>1. n \in Nat /\ rs \in [1 .. n -> S]
    BY DEF IsList
  <2> HIDE DEF S
  <2> QED BY <2>1
<1>2. ru \in Seq(S) /\ Len(ru) = m /\ m \in Nat
  <2>1. m \in Nat /\ ru \in [1 .. m -> S]
    BY DEF IsList
  <2> HIDE DEF S
  <2> QED BY <2>1
<1> HIDE DEF S
<1> DEFINE j == rs \o ru
<1>3. /\ j \in Seq(S) /\ Len(j) = Len(rs) + Len(ru)
      /\ \A k \in 1 .. Len(rs) + Len(ru) : j[k] = IF k <= Len(rs) THEN rs[k] ELSE ru[k - Len(rs)]
  BY <1>1, <1>2, ConcatProperties, Zenon
<1> HIDE DEF j
<1>4. j = [k \in 1 .. n + m |-> j[k]] /\ n + m \in Nat
  BY <1>1, <1>2, <1>3
<1>5. IsList(j, n + m)
  BY <1>4 DEF IsList
<1>6. \A k \in 1 .. n + m : j[k] = IF k <= n THEN rs[k] ELSE ru[k - n]
  BY <1>1, <1>2, <1>3
<1> QED BY <1>1, <1>2, <1>5, <1>6 DEF j, Joins

LEMMA JoinedMatch ==
  ASSUME NEW rs, NEW ts, NEW ru, NEW tu, Matches(rs, ts), Matches(ru, tu)
  PROVE  Matches(rs \o ru, ts \o tu)
<1>1. PICK n : IsList(rs, n) /\ IsList(ts, n) /\ \A k \in 1 .. n : Like(rs[k], ts[k])
  BY DEF Matches
<1>2. PICK m : IsList(ru, m) /\ IsList(tu, m) /\ \A k \in 1 .. m : Like(ru[k], tu[k])
  BY DEF Matches
<1> DEFINE R == rs \o ru
           Q == ts \o tu
<1>3. Joins(R, rs, n, ru, m) /\ Joins(Q, ts, n, tu, m)
  BY <1>1, <1>2, Joined
<1> HIDE DEF R, Q
<1>5. ASSUME NEW k \in 1 .. n + m PROVE Like(R[k], Q[k])
  <2>1. CASE k <= n
    <3>1. R[k] = rs[k] /\ Q[k] = ts[k] /\ k \in 1 .. n
      BY <1>3, <2>1 DEF Joins
    <3> QED BY <1>1, <3>1
  <2>2. CASE ~(k <= n)
    <3>1. R[k] = ru[k - n] /\ Q[k] = tu[k - n] /\ k - n \in 1 .. m
      BY <1>3, <2>2 DEF Joins
    <3> QED BY <1>2, <3>1
  <2> QED BY <2>1, <2>2
<1>6. Matches(R, Q)
  BY <1>3, <1>5 DEF Matches, Joins
<1> QED BY <1>6 DEF R, Q

LEMMA FewLists ==
  /\ IsList(<<>>, 0)
  /\ \A x : IsList(<<x>>, 1)
  /\ \A x, y : IsList(<<x, y>>, 2)
  /\ \A x, y, z : IsList(<<x, y, z>>, 3)
  /\ \A x, y, z, w : IsList(<<x, y, z, w>>, 4)
BY DEF IsList

LEMMA FewMatch ==
  ASSUME NEW rs, NEW ts
  PROVE  /\ rs = <<>> /\ ts = <<>> => Matches(rs, ts)
         /\ IsList(rs, 1) /\ IsList(ts, 1) /\ Like(rs[1], ts[1]) => Matches(rs, ts)
         /\ IsList(rs, 2) /\ IsList(ts, 2) /\ Like(rs[1], ts[1]) /\ Like(rs[2], ts[2]) => Matches(rs, ts)
         /\ IsList(rs, 3) /\ IsList(ts, 3) /\ Like(rs[1], ts[1]) /\ Like(rs[2], ts[2]) /\ Like(rs[3], ts[3])
              => Matches(rs, ts)
         /\ IsList(rs, 4) /\ IsList(ts, 4) /\ Like(rs[1], ts[1]) /\ Like(rs[2], ts[2]) /\ Like(rs[3], ts[3])
              /\ Like(rs[4], ts[4]) => Matches(rs, ts)
<1> DEFINE Both(k) == Like(rs[k], ts[k])
<1>1. ASSUME rs = <<>>, ts = <<>> PROVE Matches(rs, ts)
  <2>1. IsList(rs, 0) /\ IsList(ts, 0) /\ \A k \in 1 .. 0 : Both(k)
    BY <1>1, FewLists
  <2> QED BY <2>1 DEF Matches
<1> HIDE DEF Both
<1>2. /\ Both(1) => \A k \in 1 .. 1 : Both(k)
      /\ Both(1) /\ Both(2) => \A k \in 1 .. 2 : Both(k)
      /\ Both(1) /\ Both(2) /\ Both(3) => \A k \in 1 .. 3 : Both(k)
      /\ Both(1) /\ Both(2) /\ Both(3) /\ Both(4) => \A k \in 1 .. 4 : Both(k)
  OBVIOUS
<1>3. \A n : IsList(rs, n) /\ IsList(ts, n) /\ (\A k \in 1 .. n : Both(k)) => Matches(rs, ts)
  BY DEF Matches, Both
<1> QED BY <1>1, <1>2, <1>3, Zenon DEF Both

LEMMA Nineteen ==
  ASSUME NEW r1, NEW r2, NEW r3, NEW r4, NEW r5, NEW r6, NEW r7, NEW r8, NEW r9, NEW r10, NEW r11, NEW r12, NEW r13, NEW r14, NEW r15, NEW r16, NEW r17, NEW r18, NEW r19
  PROVE  IsList(<<r1, r2, r3, r4, r5, r6, r7, r8, r9, r10, r11, r12, r13, r14, r15, r16, r17, r18, r19>>, 19)
BY DEF IsList

LEMMA LDMatches ==
  ASSUME NEW a, NEW b, NEW c, NEW d, Alike(a, c), Alike(b, d)
  PROVE  Matches(LD(a, b), LD(c, d))
<1> DEFINE Both(k) == Like(LD(a, b)[k], LD(c, d)[k])
           LoadA(x, y) == Emit(x.s = "A" /\ mem_addr(y) >= 0, <<58>> \o AsWord(mem_addr(y)))
           LoadHL(x, y) == Emit(x.s = "HL" /\ mem_addr(y) >= 0, <<42>> \o AsWord(mem_addr(y)))
           StoreA(x, y) == Emit(y.s = "A" /\ mem_addr(x) >= 0, <<50>> \o AsWord(mem_addr(x)))
           StoreHL(x, y) == Emit(y.s = "HL" /\ mem_addr(x) >= 0, <<34>> \o AsWord(mem_addr(x)))
           StoreIndex(x, y) == Emit(index_reg(y) # -1 /\ mem_addr(x) >= 0, <<index_reg(y), 34>> \o AsWord(mem_addr(x)))
           Load16(x, y) == Emit(reg16(x) # -1, <<1 + 16 * reg16(x)>> \o AsWord(strtol(y)))
           LoadIndex(x, y) == Emit(index_reg(x) # -1, <<index_reg(x), 33>> \o AsWord(strtol(y)))
<1>1. /\ reg8(c) = reg8(a) /\ reg8(d) = reg8(b) /\ index_reg(c) = index_reg(a) /\ index_reg(d) = index_reg(b)
      /\ reg16(c) = reg16(a)
      /\ index_addr(c) <=> index_addr(a)
      /\ index_addr(d) <=> index_addr(b)
      /\ mem_addr(c) >= 0 <=> mem_addr(a) >= 0
      /\ mem_addr(d) >= 0 <=> mem_addr(b) >= 0
  BY DEF Alike
<1>2. /\ \A t \in {"A", "HL", "SP", "(BC)", "(DE)"} : c.s = t <=> a.s = t
      /\ \A t \in {"A", "HL", "(BC)", "(DE)"} : d.s = t <=> b.s = t
  BY DEF Alike
<1>3. Both(1)
  BY <1>1, <1>2, Lengths DEF LD, Like, Emit, Fail
<1>4. Both(2)
  BY <1>1, <1>2, Lengths DEF LD, Like, Emit, Fail
<1>5. Both(3)
  BY <1>1, <1>2, Lengths DEF LD, Like, Emit, Fail
<1>6. Both(4)
  BY <1>1, <1>2, Lengths DEF LD, Like, Emit, Fail
<1>7. Both(5)
  BY <1>1, <1>2, Lengths DEF LD, Like, Emit, Fail
<1>8. Both(6)
  BY <1>1, <1>2, Lengths DEF LD, Like, Emit, Fail
<1>9. Both(7)
  BY <1>1, <1>2, Lengths DEF LD, Like, Emit, Fail
<1>10. Both(8)
  <2>1. LD(a, b)[8] = LoadA(a, b) /\ LD(c, d)[8] = LoadA(c, d)
    BY DEF LD
  <2>2. Like(LoadA(a, b), LoadA(c, d))
    BY <1>1, <1>2, Lengths DEF Like, Emit
  <2> QED BY <2>1, <2>2
<1>11. Both(9)
  <2>1. LD(a, b)[9] = LoadHL(a, b) /\ LD(c, d)[9] = LoadHL(c, d)
    BY DEF LD
  <2>2. Like(LoadHL(a, b), LoadHL(c, d))
    BY <1>1, <1>2, Lengths DEF Like, Emit
  <2> QED BY <2>1, <2>2
<1>12. Both(10)
  <2>1. LD(a, b)[10] = StoreA(a, b) /\ LD(c, d)[10] = StoreA(c, d)
    BY DEF LD
  <2>2. Like(StoreA(a, b), StoreA(c, d))
    BY <1>1, <1>2, Lengths DEF Like, Emit
  <2> QED BY <2>1, <2>2
<1>13. Both(11)
  <2>1. LD(a, b)[11] = StoreHL(a, b) /\ LD(c, d)[11] = StoreHL(c, d)
    BY DEF LD
  <2>2. Like(StoreHL(a, b), StoreHL(c, d))
    BY <1>1, <1>2, Lengths DEF Like, Emit
  <2> QED BY <2>1, <2>2
<1>14. Both(12)
  <2>1. LD(a, b)[12] = StoreIndex(a, b) /\ LD(c, d)[12] = StoreIndex(c, d)
    BY DEF LD
  <2>2. Like(StoreIndex(a, b), StoreIndex(c, d))
    BY <1>1, <1>2, Lengths DEF Like, Emit
  <2> QED BY <2>1, <2>2
<1>15. Both(13)
  BY <1>1, <1>2, Lengths DEF LD, Like, Emit, Fail
<1>16. Both(14)
  BY <1>1, <1>2, Lengths DEF LD, Like, Emit, Fail
<1>17. Both(15)
  BY <1>1, <1>2, Lengths DEF LD, Like, Emit, Fail
<1>18. Both(16)
  BY <1>1, <1>2, Lengths DEF LD, Like, Emit, Fail
<1>19. Both(17)
  BY <1>1, <1>2, Lengths DEF LD, Like, Emit, Fail
<1>20. Both(18)
  <2>1. LD(a, b)[18] = Load16(a, b) /\ LD(c, d)[18] = Load16(c, d)
    BY DEF LD
  <2>2. Like(Load16(a, b), Load16(c, d))
    BY <1>1, <1>2, Lengths DEF Like, Emit
  <2> QED BY <2>1, <2>2
<1>21. Both(19)
  <2>1. LD(a, b)[19] = LoadIndex(a, b) /\ LD(c, d)[19] = LoadIndex(c, d)
    BY DEF LD
  <2>2. Like(LoadIndex(a, b), LoadIndex(c, d))
    BY <1>1, <1>2, Lengths DEF Like, Emit
  <2> QED BY <2>1, <2>2
<1> HIDE DEF Both
<1>22. \A k \in 1 .. 19 : Both(k)
  BY <1>3, <1>4, <1>5, <1>6, <1>7, <1>8, <1>9, <1>10, <1>11, <1>12, <1>13, <1>14, <1>15, <1>16, <1>17, <1>18, <1>19, <1>20, <1>21
<1>23. IsList(LD(a, b), 19) /\ IsList(LD(c, d), 19)
  BY Nineteen DEF LD
<1> QED BY <1>22, <1>23 DEF Matches, Both

\* The lists of the other operations whose rules do not depend on the pass.
LEMMA ListsMatchFor ==
  ASSUME NEW a, NEW b, NEW c, NEW d, Alike(a, c), Alike(b, d), NEW x, NEW y, NEW z
  PROVE  /\ Matches(Count(a, x, y, z), Count(c, x, y, z)) /\ Matches(Stack(a, x, y), Stack(c, x, y))
         /\ Matches(Arith(a, x), Arith(c, x)) /\ Matches(ADD(a, b), ADD(c, d))
         /\ Matches(OnA(a, b, x), OnA(c, d, x)) /\ Matches(Absolute(a, b, x, y), Absolute(c, d, x, y))
<1>1. /\ reg8(c) = reg8(a) /\ reg8(d) = reg8(b) /\ index_reg(c) = index_reg(a)
      /\ reg16(c) = reg16(a) /\ reg16(d) = reg16(b) /\ jpcond(c) = jpcond(a)
      /\ c.s = "A" <=> a.s = "A"
      /\ c.s = "HL" <=> a.s = "HL"
  BY DEF Alike
<1>2. /\ c.s = NoText <=> a.s = NoText
      /\ d.s = NoText <=> b.s = NoText
  BY DEF Alike
<1>3. Matches(Count(a, x, y, z), Count(c, x, y, z))
  <2> DEFINE R == Count(a, x, y, z)
             Q == Count(c, x, y, z)
  <2>1. Like(R[1], Q[1]) /\ Like(R[2], Q[2]) /\ Like(R[3], Q[3])
    BY <1>1, Lengths DEF Count, Like, Emit
  <2>2. IsList(R, 3) /\ IsList(Q, 3)
    BY FewLists DEF Count
  <2> QED BY <2>1, <2>2, FewMatch
<1>4. Matches(Stack(a, x, y), Stack(c, x, y))
  <2> DEFINE R == Stack(a, x, y)
             Q == Stack(c, x, y)
  <2>1. Like(R[1], Q[1]) /\ Like(R[2], Q[2])
    BY <1>1, Lengths DEF Stack, Like, Emit
  <2>2. IsList(R, 2) /\ IsList(Q, 2)
    BY FewLists DEF Stack
  <2> QED BY <2>1, <2>2, FewMatch
<1>5. ASSUME NEW u, NEW v, reg8(v) = reg8(u) PROVE Matches(Arith(u, x), Arith(v, x))
  <2> DEFINE R == Arith(u, x)
             Q == Arith(v, x)
  <2>1. Like(R[1], Q[1]) /\ Like(R[2], Q[2])
    BY <1>5, Lengths DEF Arith, Like, Emit
  <2>2. IsList(R, 2) /\ IsList(Q, 2)
    BY FewLists DEF Arith
  <2> QED BY <2>1, <2>2, FewMatch
<1>6. Matches(ADD(a, b), ADD(c, d))
  <2> DEFINE R == ADD(a, b)
             Q == ADD(c, d)
  <2>1. Like(R[1], Q[1]) /\ Like(R[2], Q[2]) /\ Like(R[3], Q[3]) /\ Like(R[4], Q[4])
    BY <1>1, Lengths DEF ADD, Like, Emit
  <2>2. IsList(R, 4) /\ IsList(Q, 4)
    BY FewLists DEF ADD
  <2> QED BY <2>1, <2>2, FewMatch
<1>7. Matches(OnA(a, b, x), OnA(c, d, x))
  <2> DEFINE R == <<Fail(a.s # "A", <<>>)>>
             Q == <<Fail(c.s # "A", <<>>)>>
  <2>1. Like(R[1], Q[1])
    BY <1>1, Lengths DEF Like, Fail
  <2>2. IsList(R, 1) /\ IsList(Q, 1)
    BY FewLists
  <2>3. Matches(R, Q)
    BY <2>1, <2>2, FewMatch
  <2>4. OnA(a, b, x) = R \o Arith(b, x) /\ OnA(c, d, x) = Q \o Arith(d, x)
    BY DEF OnA
  <2> HIDE DEF R, Q
  <2> QED BY <1>1, <1>5, <2>3, <2>4, JoinedMatch
<1>8. Matches(Absolute(a, b, x, y), Absolute(c, d, x, y))
  <2> DEFINE Wrong(u, v) == Fail(v.s # NoText /\ jpcond(u) = -1, <<>>)
             Cond(u, v) == Emit(v.s # NoText, <<x + 8 * jpcond(u)>> \o AsWord(strtol(v)))
             Always(u, v) == Emit(u.s # NoText, <<y>> \o AsWord(strtol(u)))
             R(u, v) == Absolute(u, v, x, y)
  <2>1. Like(Wrong(a, b), Wrong(c, d))
    BY <1>1, <1>2, Lengths DEF Like, Fail
  <2>2. Like(Cond(a, b), Cond(c, d)) /\ Like(Always(a, b), Always(c, d))
    BY <1>1, <1>2, Lengths DEF Like, Emit
  <2>3. \A u, v : R(u, v) = <<Wrong(u, v), Cond(u, v), Always(u, v)>>
    BY DEF Absolute
  <2> HIDE DEF Wrong, Cond, Always, R
  <2>4. \A u, v : IsList(R(u, v), 3) /\ R(u, v)[1] = Wrong(u, v) /\ R(u, v)[2] = Cond(u, v) /\ R(u, v)[3] = Always(u, v)
    BY <2>3, FewLists
  <2>5. Matches(R(a, b), R(c, d))
    BY <2>1, <2>2, <2>4, FewMatch
  <2> QED BY <2>5 DEF R
<1> QED BY <1>1, <1>3, <1>4, <1>5, <1>6, <1>7, <1>8

LEMMA ListsMatch ==
  ASSUME NEW a, NEW b, NEW c, NEW d, Alike(a, c), Alike(b, d)
  PROVE  /\ \A x, y, z : Matches(Count(a, x, y, z), Count(c, x, y, z))
         /\ \A x, y : Matches(Stack(a, x, y), Stack(c, x, y)) /\ Matches(Absolute(a, b, x, y), Absolute(c, d, x, y))
         /\ \A x : Matches(Arith(a, x), Arith(c, x)) /\ Matches(OnA(a, b, x), OnA(c, d, x))
         /\ Matches(ADD(a, b), ADD(c, d))
BY ListsMatchFor

LEMMA ShortListsMatch ==
  ASSUME NEW a, NEW b, NEW c, NEW d, Alike(a, c), Alike(b, d), NEW p, NEW q, NEW pc, NEW pd
  PROVE  \A op \in {"JP", "RET", "IN", "OUT", "EX"} : Matches(Rules(p, pc, op, a, b), Rules(q, pd, op, c, d))
<1>1. /\ jpcond(c) = jpcond(a)
      /\ c.s = "A" <=> a.s = "A"
      /\ d.s = "A" <=> b.s = "A"
      /\ c.s = "(HL)" <=> a.s = "(HL)"
  BY DEF Alike
<1>2. /\ c.s = NoText <=> a.s = NoText
      /\ d.s = NoText <=> b.s = NoText
  BY DEF Alike
<1>3. /\ \A t \in {"AF", "DE", "(SP)"} : c.s = t <=> a.s = t
      /\ \A t \in {"AF'", "HL"} : d.s = t <=> b.s = t
  BY DEF Alike
<1>4. Matches(Rules(p, pc, "JP", a, b), Rules(q, pd, "JP", c, d))
  <2> DEFINE R == <<Emit(a.s = "(HL)", <<233>>)>>
             Q == <<Emit(c.s = "(HL)", <<233>>)>>
  <2>1. Like(R[1], Q[1])
    BY <1>1, Lengths DEF Like, Emit
  <2>2. IsList(R, 1) /\ IsList(Q, 1)
    BY FewLists
  <2>3. Matches(R, Q)
    BY <2>1, <2>2, FewMatch
  <2>4. Rules(p, pc, "JP", a, b) = R \o Absolute(a, b, 194, 195) /\ Rules(q, pd, "JP", c, d) = Q \o Absolute(c, d, 194, 195)
    BY DEF Rules
  <2> HIDE DEF R, Q
  <2>5. Matches(Absolute(a, b, 194, 195), Absolute(c, d, 194, 195))
    BY ListsMatch, ZenonT(60)
  <2>6. Matches(R \o Absolute(a, b, 194, 195), Q \o Absolute(c, d, 194, 195))
    BY <2>3, <2>5, JoinedMatch, Zenon
  <2> QED BY <2>4, <2>6
<1>5. Matches(Rules(p, pc, "RET", a, b), Rules(q, pd, "RET", c, d))
  <2> DEFINE R == << Fail(a.s # NoText /\ jpcond(a) = -1, <<>>),
                     Emit(a.s # NoText, <<192 + 8 * jpcond(a)>>), Emit(TRUE, <<201>>) >>
             Q == << Fail(c.s # NoText /\ jpcond(c) = -1, <<>>),
                     Emit(c.s # NoText, <<192 + 8 * jpcond(c)>>), Emit(TRUE, <<201>>) >>
  <2>1. Like(R[1], Q[1]) /\ Like(R[2], Q[2]) /\ Like(R[3], Q[3])
    BY <1>1, <1>2, Lengths DEF Like, Emit, Fail
  <2>2. IsList(R, 3) /\ IsList(Q, 3)
    BY FewLists
  <2>3. Rules(p, pc, "RET", a, b) = R /\ Rules(q, pd, "RET", c, d) = Q
    BY DEF Rules
  <2> HIDE DEF R, Q
  <2> QED BY <2>1, <2>2, <2>3, FewMatch
<1>6. Matches(Rules(p, pc, "IN", a, b), Rules(q, pd, "IN", c, d))
  <2> DEFINE R == << Emit(a.s = "A" /\ b.s # NoText, <<219, AsByte(mem_addr(b))>>) >>
             Q == << Emit(c.s = "A" /\ d.s # NoText, <<219, AsByte(mem_addr(d))>>) >>
  <2>1. Like(R[1], Q[1])
    BY <1>1, <1>2, Lengths DEF Like, Emit
  <2>2. IsList(R, 1) /\ IsList(Q, 1)
    BY FewLists
  <2>3. Rules(p, pc, "IN", a, b) = R /\ Rules(q, pd, "IN", c, d) = Q
    BY DEF Rules
  <2> HIDE DEF R, Q
  <2> QED BY <2>1, <2>2, <2>3, FewMatch
<1>7. Matches(Rules(p, pc, "OUT", a, b), Rules(q, pd, "OUT", c, d))
  <2> DEFINE R == << Emit(b.s = "A" /\ a.s # NoText, <<211, AsByte(mem_addr(a))>>) >>
             Q == << Emit(d.s = "A" /\ c.s # NoText, <<211, AsByte(mem_addr(c))>>) >>
  <2>1. Like(R[1], Q[1])
    BY <1>1, <1>2, Lengths DEF Like, Emit
  <2>2. IsList(R, 1) /\ IsList(Q, 1)
    BY FewLists
  <2>3. Rules(p, pc, "OUT", a, b) = R /\ Rules(q, pd, "OUT", c, d) = Q
    BY DEF Rules
  <2> HIDE DEF R, Q
  <2> QED BY <2>1, <2>2, <2>3, FewMatch
<1>8. Matches(Rules(p, pc, "EX", a, b), Rules(q, pd, "EX", c, d))
  <2> DEFINE R == << Emit(a.s = "AF" /\ b.s = "AF'", <<8>>), Emit(a.s = "DE" /\ b.s = "HL", <<235>>),
                     Emit(a.s = "(SP)" /\ b.s = "HL", <<227>>) >>
             Q == << Emit(c.s = "AF" /\ d.s = "AF'", <<8>>), Emit(c.s = "DE" /\ d.s = "HL", <<235>>),
                     Emit(c.s = "(SP)" /\ d.s = "HL", <<227>>) >>
  <2>1. Like(R[1], Q[1]) /\ Like(R[2], Q[2]) /\ Like(R[3], Q[3])
    BY <1>3, Lengths DEF Like, Emit
  <2>2. IsList(R, 3) /\ IsList(Q, 3)
    BY FewLists
  <2>3. Rules(p, pc, "EX", a, b) = R /\ Rules(q, pd, "EX", c, d) = Q
    BY DEF Rules
  <2> HIDE DEF R, Q
  <2> QED BY <2>1, <2>2, <2>3, FewMatch
<1> QED BY <1>4, <1>5, <1>6, <1>7, <1>8

Operations == {"LD", "INC", "DEC", "ADD", "ADC", "SBC", "SUB", "AND", "XOR", "OR", "CP", "PUSH", "POP", "RST",
               "JP", "JR", "DJNZ", "CALL", "RET", "IN", "OUT", "EX"}

\* Except for the relative jumps and RST, the rules of a line are alike in both passes.
LEMMA RulesMatch ==
  ASSUME NEW a, NEW b, NEW c, NEW d, Alike(a, c), Alike(b, d), NEW p, NEW q, NEW pc, NEW pd,
         NEW op \in STRING \ {"RST", "JR", "DJNZ"}
  PROVE  Matches(Rules(p, pc, op, a, b), Rules(q, pd, op, c, d))
<1>0. /\ \A x, y, z : Matches(Count(a, x, y, z), Count(c, x, y, z))
      /\ \A x, y : Matches(Stack(a, x, y), Stack(c, x, y)) /\ Matches(Absolute(a, b, x, y), Absolute(c, d, x, y))
      /\ \A x : Matches(Arith(a, x), Arith(c, x)) /\ Matches(OnA(a, b, x), OnA(c, d, x))
      /\ Matches(ADD(a, b), ADD(c, d))
  BY ListsMatch
<1>1. CASE op = "LD"
  <2>1. Rules(p, pc, op, a, b) = LD(a, b) /\ Rules(q, pd, op, c, d) = LD(c, d)
    BY <1>1 DEF Rules
  <2> QED BY <2>1, LDMatches
<1>2. CASE op = "INC"
  <2>1. Rules(p, pc, op, a, b) = Count(a, 4, 3, 35) /\ Rules(q, pd, op, c, d) = Count(c, 4, 3, 35)
    BY <1>2 DEF Rules
  <2>2. Matches(Count(a, 4, 3, 35), Count(c, 4, 3, 35))
    BY <1>0, Zenon
  <2> QED BY <2>1, <2>2
<1>3. CASE op = "DEC"
  <2>1. Rules(p, pc, op, a, b) = Count(a, 5, 11, 43) /\ Rules(q, pd, op, c, d) = Count(c, 5, 11, 43)
    BY <1>3 DEF Rules
  <2>2. Matches(Count(a, 5, 11, 43), Count(c, 5, 11, 43))
    BY <1>0, Zenon
  <2> QED BY <2>1, <2>2
<1>4. CASE op = "PUSH"
  <2>1. Rules(p, pc, op, a, b) = Stack(a, 197, 229) /\ Rules(q, pd, op, c, d) = Stack(c, 197, 229)
    BY <1>4 DEF Rules
  <2>2. Matches(Stack(a, 197, 229), Stack(c, 197, 229))
    BY <1>0, Zenon
  <2> QED BY <2>1, <2>2
<1>5. CASE op = "POP"
  <2>1. Rules(p, pc, op, a, b) = Stack(a, 193, 225) /\ Rules(q, pd, op, c, d) = Stack(c, 193, 225)
    BY <1>5 DEF Rules
  <2>2. Matches(Stack(a, 193, 225), Stack(c, 193, 225))
    BY <1>0, Zenon
  <2> QED BY <2>1, <2>2
<1>6. CASE op = "SUB"
  <2>1. Rules(p, pc, op, a, b) = Arith(a, 144) /\ Rules(q, pd, op, c, d) = Arith(c, 144)
    BY <1>6 DEF Rules
  <2>2. Matches(Arith(a, 144), Arith(c, 144))
    BY <1>0, Zenon
  <2> QED BY <2>1, <2>2
<1>7. CASE op = "AND"
  <2>1. Rules(p, pc, op, a, b) = Arith(a, 160) /\ Rules(q, pd, op, c, d) = Arith(c, 160)
    BY <1>7 DEF Rules
  <2>2. Matches(Arith(a, 160), Arith(c, 160))
    BY <1>0, Zenon
  <2> QED BY <2>1, <2>2
<1>8. CASE op = "XOR"
  <2>1. Rules(p, pc, op, a, b) = Arith(a, 168) /\ Rules(q, pd, op, c, d) = Arith(c, 168)
    BY <1>8 DEF Rules
  <2>2. Matches(Arith(a, 168), Arith(c, 168))
    BY <1>0, Zenon
  <2> QED BY <2>1, <2>2
<1>9. CASE op = "OR"
  <2>1. Rules(p, pc, op, a, b) = Arith(a, 176) /\ Rules(q, pd, op, c, d) = Arith(c, 176)
    BY <1>9 DEF Rules
  <2>2. Matches(Arith(a, 176), Arith(c, 176))
    BY <1>0, Zenon
  <2> QED BY <2>1, <2>2
<1>10. CASE op = "CP"
  <2>1. Rules(p, pc, op, a, b) = Arith(a, 184) /\ Rules(q, pd, op, c, d) = Arith(c, 184)
    BY <1>10 DEF Rules
  <2>2. Matches(Arith(a, 184), Arith(c, 184))
    BY <1>0, Zenon
  <2> QED BY <2>1, <2>2
<1>11. CASE op = "ADD"
  <2>1. Rules(p, pc, op, a, b) = ADD(a, b) /\ Rules(q, pd, op, c, d) = ADD(c, d)
    BY <1>11 DEF Rules
  <2>2. Matches(ADD(a, b), ADD(c, d))
    BY <1>0, Zenon
  <2> QED BY <2>1, <2>2
<1>12. CASE op = "ADC"
  <2>1. Rules(p, pc, op, a, b) = OnA(a, b, 136) /\ Rules(q, pd, op, c, d) = OnA(c, d, 136)
    BY <1>12 DEF Rules
  <2>2. Matches(OnA(a, b, 136), OnA(c, d, 136))
    BY <1>0, Zenon
  <2> QED BY <2>1, <2>2
<1>13. CASE op = "SBC"
  <2>1. Rules(p, pc, op, a, b) = OnA(a, b, 152) /\ Rules(q, pd, op, c, d) = OnA(c, d, 152)
    BY <1>13 DEF Rules
  <2>2. Matches(OnA(a, b, 152), OnA(c, d, 152))
    BY <1>0, Zenon
  <2> QED BY <2>1, <2>2
<1>14. CASE op = "CALL"
  <2>1. Rules(p, pc, op, a, b) = Absolute(a, b, 196, 205) /\ Rules(q, pd, op, c, d) = Absolute(c, d, 196, 205)
    BY <1>14 DEF Rules
  <2>2. Matches(Absolute(a, b, 196, 205), Absolute(c, d, 196, 205))
    BY <1>0, Zenon
  <2> QED BY <2>1, <2>2
<1>15. CASE op \in {"JP", "RET", "IN", "OUT", "EX"}
  BY <1>15, ShortListsMatch
<1>16. CASE op \notin Operations
  <2> DEFINE R == IF op \in DOMAIN Plain THEN << Emit(TRUE, <<Plain[op]>>) >> ELSE <<>>
  <2>1. Rules(p, pc, op, a, b) = R /\ Rules(q, pd, op, c, d) = R
    BY <1>16 DEF Rules, Operations
  <2>2. CASE op \in DOMAIN Plain
    <3>1. R = << Emit(TRUE, <<Plain[op]>>) >>
      BY <2>2
    <3> HIDE DEF R
    <3>2. IsList(R, 1)
      BY <3>1, FewLists
    <3>3. Like(R[1], R[1])
      BY <3>1, Lengths DEF Like, Emit
    <3> QED BY <2>1, <3>2, <3>3, FewMatch
  <2>3. CASE op \notin DOMAIN Plain
    <3>1. R = <<>>
      BY <2>3
    <3> HIDE DEF R
    <3> QED BY <2>1, <3>1, FewMatch
  <2> QED BY <2>2, <2>3
<1> QED BY <1>1, <1>2, <1>3, <1>4, <1>5, <1>6, <1>7, <1>8, <1>9, <1>10, <1>11, <1>12, <1>13, <1>14, <1>15, <1>16 DEF Operations
----------------------------------------------------------------------------
\* The choice that Codegen makes, and the length of a line in the first pass.
Applying(rs) == {k \in DOMAIN rs : rs[k].cond}
Pick(rs) == rs[Min(Applying(rs))]
Chosen(rs) == Pick(rs \o <<NoRule>>)
Size(line) == Len(Codegen(0, 0, <<>>, line).bytes)

LEMMA NoRuleFacts == NoRule.cond /\ ~NoRule.ok /\ Len(NoRule.bytes) = 0 /\ Like(NoRule, NoRule)
<1>1. NoRule.cond /\ ~NoRule.ok /\ NoRule.bytes = <<>>
  BY DEF NoRule, Fail
<1> QED BY <1>1, Lengths DEF Like

LEMMA Choice ==
  ASSUME NEW rs, NEW n, IsList(rs, n)
  PROVE  LET R == rs \o <<NoRule>>
             S == Applying(R)
         IN  /\ IsList(R, n + 1) /\ DOMAIN R = 1 .. n + 1 /\ n \in Nat
             /\ \A k \in 1 .. n : R[k] = rs[k]
             /\ R[n + 1] = NoRule
             /\ Min(S) \in S /\ S \in SUBSET (1 .. n + 1) /\ \A k \in S : Min(S) <= k
<1> DEFINE R == rs \o <<NoRule>>
           S == Applying(R)
<1>1. Joins(R, rs, n, <<NoRule>>, 1)
  <2>1. IsList(<<NoRule>>, 1)
    BY FewLists
  <2> QED BY <2>1, Joined
<1>2. <<NoRule>>[1] = NoRule
  OBVIOUS
<1> HIDE DEF R
<1>3. n \in Nat /\ IsList(R, n + 1) /\ DOMAIN R = 1 .. n + 1
  BY <1>1 DEF Joins, IsList
<1>4. \A k \in 1 .. n : R[k] = rs[k]
  BY <1>1, <1>3 DEF Joins
<1>5. R[n + 1] = NoRule
  <2>1. n + 1 \in 1 .. n + 1 /\ ~(n + 1 <= n) /\ (n + 1) - n = 1
    BY <1>3
  <2>2. R[n + 1] = <<NoRule>>[(n + 1) - n]
    BY <1>1, <2>1 DEF Joins
  <2> QED BY <1>2, <2>1, <2>2
<1>6. n + 1 \in S
  <2>1. n + 1 \in DOMAIN R
    BY <1>3
  <2> QED BY <1>5, <2>1, NoRuleFacts, Zenon DEF Applying
<1>7. S \in SUBSET (1 .. n + 1)
  BY <1>3 DEF Applying
<1>8. S \in SUBSET Nat /\ S # {}
  BY <1>6, <1>7
<1> HIDE DEF S
<1>9. Min(S) \in S /\ \A k \in S : Min(S) <= k
  BY <1>8, Minimum
<1> QED BY <1>3, <1>4, <1>5, <1>7, <1>9 DEF R, S

LEMMA SameChoice ==
  ASSUME NEW rs, NEW ts, Matches(rs, ts)
  PROVE  Len(Chosen(rs).bytes) = Len(Chosen(ts).bytes) /\ Len(Chosen(rs).bytes) \in 0 .. 4
<1> DEFINE R == rs \o <<NoRule>>
           Q == ts \o <<NoRule>>
<1>1. PICK n : IsList(rs, n) /\ IsList(ts, n) /\ \A k \in 1 .. n : Like(rs[k], ts[k])
  BY DEF Matches
<1>2. /\ DOMAIN R = 1 .. n + 1 /\ n \in Nat /\ R[n + 1] = NoRule /\ \A k \in 1 .. n : R[k] = rs[k]
  BY <1>1, Choice
<1>3. DOMAIN Q = 1 .. n + 1 /\ Q[n + 1] = NoRule /\ \A k \in 1 .. n : Q[k] = ts[k]
  BY <1>1, Choice
<1>4. Min(Applying(R)) \in 1 .. n + 1
  BY <1>1, Choice
<1>5. Chosen(rs) = R[Min(Applying(R))] /\ Chosen(ts) = Q[Min(Applying(Q))]
  BY DEF Chosen, Pick
<1> HIDE DEF R, Q
<1>6. ASSUME NEW k \in 1 .. n + 1 PROVE Like(R[k], Q[k])
  <2>1. CASE k = n + 1
    BY <1>2, <1>3, <2>1, NoRuleFacts
  <2>2. CASE k # n + 1
    <3>1. k \in 1 .. n
      BY <1>2, <2>2
    <3> QED BY <1>1, <1>2, <1>3, <3>1
  <2> QED BY <2>1, <2>2
<1>7. Applying(R) = Applying(Q)
  BY <1>2, <1>3, <1>6, Zenon DEF Applying, Like
<1> QED BY <1>4, <1>5, <1>6, <1>7 DEF Like

\* A rule is chosen only when it applies, and the first one whenever it does.
LEMMA ChosenApplies ==
  ASSUME NEW rs, NEW n, IsList(rs, n)
  PROVE  /\ Chosen(rs).ok => \E k \in 1 .. n : Chosen(rs) = rs[k] /\ rs[k].cond
         /\ n > 0 /\ rs[1].cond => Chosen(rs) = rs[1]
<1> DEFINE R == rs \o <<NoRule>>
           m == Min(Applying(R))
<1>1. /\ n \in Nat /\ R[n + 1] = NoRule /\ m \in Applying(R)
      /\ DOMAIN R = 1 .. n + 1 /\ Applying(R) \in SUBSET (1 .. n + 1)
  BY Choice
<1>2. \A k \in 1 .. n : R[k] = rs[k]
  BY Choice
<1>3. \A k \in Applying(R) : m <= k
  BY Choice
<1>4. Chosen(rs) = R[m]
  BY DEF Chosen, Pick
<1> HIDE DEF R, m
<1>5. m \in 1 .. n + 1 /\ R[m].cond
  <2>1. R[m].cond
    BY <1>1, Zenon DEF Applying
  <2> QED BY <1>1, <2>1
<1>6. ASSUME Chosen(rs).ok PROVE \E k \in 1 .. n : Chosen(rs) = rs[k] /\ rs[k].cond
  <2>1. m # n + 1
    <3>1. m = n + 1 => Chosen(rs) = NoRule
      BY <1>1, <1>4
    <3> QED BY <1>6, <3>1, NoRuleFacts
  <2>2. m \in 1 .. n
    BY <1>1, <1>5, <2>1
  <2>3. Chosen(rs) = rs[m] /\ rs[m].cond
    BY <1>2, <1>4, <1>5, <2>2
  <2> QED BY <2>2, <2>3
<1>7. ASSUME n > 0, rs[1].cond PROVE Chosen(rs) = rs[1]
  <2>1. 1 \in 1 .. n /\ 1 \in 1 .. n + 1
    BY <1>1, <1>7
  <2>2. R[1] = rs[1]
    BY <1>2, <2>1
  <2>3. 1 \in Applying(R)
    BY <1>1, <1>7, <2>1, <2>2, Zenon DEF Applying
  <2>4. m = 1
    <3>1. m <= 1
      BY <1>3, <2>3
    <3> QED BY <1>1, <1>5, <3>1
  <2> QED BY <1>4, <2>2, <2>4
<1> QED BY <1>6, <1>7

\* A relative jump that is accepted takes two bytes, and the first pass always accepts it.
LEMMA RelativeJump ==
  ASSUME NEW p, NEW pc, NEW op, NEW a
  PROVE  /\ Chosen(emit_rel(p, pc, op, a)).ok => Len(Chosen(emit_rel(p, pc, op, a)).bytes) = 2
         /\ p = 0 => Len(Chosen(emit_rel(p, pc, op, a)).bytes) = 2
<1> DEFINE num == strtol(a)
           away == Int16(num - (pc + 2))
           value == IF num \in -128 .. 255 THEN num ELSE away
           far == num \notin -128 .. 255 /\ away \notin -128 .. 127
           rs == emit_rel(p, pc, op, a)
<1>1. rs = << Emit(p = 0, <<op, 0>>), Fail(far, <<op>>), Emit(TRUE, <<op, AsByte(value)>>) >>
  BY Zenon DEF emit_rel
<1> HIDE DEF rs, far, value
<1>2. IsList(rs, 3)
  BY <1>1, FewLists
<1>3. rs[1] = Emit(p = 0, <<op, 0>>) /\ rs[2] = Fail(far, <<op>>) /\ rs[3] = Emit(TRUE, <<op, AsByte(value)>>)
  BY <1>1
<1>4. /\ Len(rs[1].bytes) = 2 /\ ~rs[2].ok /\ Len(rs[3].bytes) = 2
      /\ p = 0 => rs[1].cond
  <2>1. rs[1].bytes = <<op, 0>> /\ rs[3].bytes = <<op, AsByte(value)>>
    BY <1>3 DEF Emit
  <2>2. ~Fail(far, <<op>>).ok /\ (Emit(p = 0, <<op, 0>>).cond <=> p = 0)
    BY DEF Emit, Fail
  <2>3. ~rs[2].ok /\ (p = 0 => rs[1].cond)
    BY <1>3, <2>2
  <2> QED BY <2>1, <2>2, <2>3, Lengths
<1>5. ASSUME Chosen(rs).ok PROVE Len(Chosen(rs).bytes) = 2
  <2>1. PICK k \in 1 .. 3 : Chosen(rs) = rs[k]
    BY <1>2, <1>5, ChosenApplies
  <2>2. k # 2
    BY <1>4, <1>5, <2>1
  <2>3. k = 1 \/ k = 3
    BY <2>2
  <2> QED BY <1>4, <2>1, <2>3
<1>6. ASSUME p = 0 PROVE Len(Chosen(rs).bytes) = 2
  <2>1. Chosen(rs) = rs[1]
    BY <1>2, <1>4, <1>6, ChosenApplies
  <2> QED BY <1>4, <2>1
<1> QED BY <1>5, <1>6 DEF rs

LEMMA NothingChosen == ~Chosen(<<>>).ok
<1>1. IsList(<<>>, 0)
  BY FewLists
<1>2. Chosen(<<>>).ok => \E k \in 1 .. 0 : Chosen(<<>>) = <<>>[k] /\ <<>>[k].cond
  BY <1>1, ChosenApplies
<1> QED BY <1>2

\* The lengths of a line's code in the first pass and in one that accepts it.
SameLength(r, t) == r.ok => Len(r.bytes) = Len(t.bytes) /\ Len(t.bytes) \in 0 .. 4

LEMMA RestartLength ==
  ASSUME NEW a, NEW b, NEW c, NEW d, Alike(a, c), NEW p, NEW pc
  PROVE  SameLength(Chosen(Rules(p, pc, "RST", c, d)), Chosen(Rules(0, 0, "RST", a, b)))
<1> DEFINE R == Rules(p, pc, "RST", c, d)
           Q == Rules(0, 0, "RST", a, b)
           one == strtol(c) \in 0 .. 56
           two == strtol(a) \in 0 .. 56
<1>1. R = << Emit(one, <<199 + strtol(c)>>) >> /\ Q = << Emit(two, <<199 + strtol(a)>>) >>
  BY DEF Rules
<1>2. one => two
  BY DEF Alike
<1> HIDE DEF R, Q, one, two
<1>3. IsList(R, 1) /\ IsList(Q, 1)
  BY <1>1, FewLists
<1>4. R[1] = Emit(one, <<199 + strtol(c)>>) /\ Q[1] = Emit(two, <<199 + strtol(a)>>)
  BY <1>1
<1>5. /\ Len(R[1].bytes) = 1 /\ Len(Q[1].bytes) = 1
      /\ R[1].cond => one
      /\ two => Q[1].cond
  BY <1>4, Lengths DEF Emit
<1>6. ASSUME Chosen(R).ok PROVE Len(Chosen(R).bytes) = 1 /\ Len(Chosen(Q).bytes) = 1
  <2>1. PICK k \in 1 .. 1 : Chosen(R) = R[k] /\ R[k].cond
    BY <1>3, <1>6, ChosenApplies
  <2>2. k = 1
    OBVIOUS
  <2>3. Chosen(R) = R[1] /\ Q[1].cond
    BY <1>2, <1>5, <2>1, <2>2
  <2>4. Chosen(Q) = Q[1]
    BY <1>3, <2>3, ChosenApplies
  <2> QED BY <1>5, <2>3, <2>4
<1>7. SameLength(Chosen(R), Chosen(Q))
  BY <1>6 DEF SameLength
<1> QED BY <1>7 DEF R, Q

LEMMA JumpLength ==
  ASSUME NEW a, NEW b, NEW c, NEW d, Alike(a, c), Alike(b, d), NEW p, NEW pc
  PROVE  /\ SameLength(Chosen(Rules(p, pc, "DJNZ", c, d)), Chosen(Rules(0, 0, "DJNZ", a, b)))
         /\ SameLength(Chosen(Rules(p, pc, "JR", c, d)), Chosen(Rules(0, 0, "JR", a, b)))
<1>1. ASSUME NEW x, NEW y, NEW u, NEW v
      PROVE  SameLength(Chosen(emit_rel(p, pc, x, u)), Chosen(emit_rel(0, 0, y, v)))
  <2>1. Chosen(emit_rel(p, pc, x, u)).ok => Len(Chosen(emit_rel(p, pc, x, u)).bytes) = 2
    BY RelativeJump
  <2>2. Len(Chosen(emit_rel(0, 0, y, v)).bytes) = 2
    BY RelativeJump
  <2> QED BY <2>1, <2>2 DEF SameLength
<1>2. \A r : SameLength(Chosen(<<>>), r)
  BY NothingChosen DEF SameLength
<1>3. Rules(p, pc, "DJNZ", c, d) = emit_rel(p, pc, 16, c) /\ Rules(0, 0, "DJNZ", a, b) = emit_rel(0, 0, 16, a)
  BY DEF Rules
<1>4. Rules(p, pc, "JR", c, d) = JR(p, pc, c, d) /\ Rules(0, 0, "JR", a, b) = JR(0, 0, a, b)
  BY DEF Rules
<1>5. /\ jrcond(c) = jrcond(a)
      /\ c.s = NoText <=> a.s = NoText
      /\ d.s = NoText <=> b.s = NoText
  BY DEF Alike
<1>6. \/ JR(p, pc, c, d) = <<>>
      \/ \E x, u, v : JR(p, pc, c, d) = emit_rel(p, pc, x, u) /\ JR(0, 0, a, b) = emit_rel(0, 0, x, v)
  BY <1>5, Zenon DEF JR
<1>7. SameLength(Chosen(JR(p, pc, c, d)), Chosen(JR(0, 0, a, b)))
  BY <1>1, <1>2, <1>6
<1> QED BY <1>1, <1>3, <1>4, <1>7

\* A line that a pass accepts is as long there as in the first pass.
LEMMA LengthKept ==
  ASSUME NEW pass \in {0, 1}, NEW pc, NEW labels \in Seq(Labels), NEW line \in SourceLines,
         Codegen(pass, pc, labels, line).ok
  PROVE  Len(Codegen(pass, pc, labels, line).bytes) = Size(line) /\ Size(line) \in 0 .. 4
<1> DEFINE a == line.a
           b == line.b
           c == IF pass = 1 THEN Resolved(labels, line.a) ELSE line.a
           d == IF pass = 1 THEN Resolved(labels, line.b) ELSE line.b
           R == Rules(pass, pc, line.op, c, d)
           Q == Rules(0, 0, line.op, a, b)
<1>1. a \in Args /\ b \in Args /\ line.op \in STRING
  BY DEF SourceLines
<1>2. Alike(a, c) /\ Alike(b, d)
  BY <1>1, ResolvedAlike, AlikeItself, SMTT(60)
<1>3. Codegen(pass, pc, labels, line) = Chosen(R)
  BY DEF Codegen, Chosen, Pick, Applying
<1>4. Size(line) = Len(Chosen(Q).bytes)
  <2>1. Codegen(0, 0, <<>>, line) = Chosen(Rules(0, 0, line.op, IF 0 = 1 THEN Resolved(<<>>, line.a) ELSE line.a,
                                                                IF 0 = 1 THEN Resolved(<<>>, line.b) ELSE line.b))
    BY Zenon DEF Codegen, Chosen, Pick, Applying
  <2>2. 0 # 1
    OBVIOUS
  <2> QED BY <2>1, <2>2, Zenon DEF Size
<1> HIDE DEF a, b, c, d
<1>5. SameLength(Chosen(R), Chosen(Q))
  <2>1. CASE line.op = "RST"
    BY <1>2, <2>1, RestartLength
  <2>2. CASE line.op \in {"JR", "DJNZ"}
    BY <1>2, <2>2, JumpLength
  <2>3. CASE line.op \notin {"RST", "JR", "DJNZ"}
    <3>1. Matches(Q, R)
      BY <1>1, <1>2, <2>3, RulesMatch
    <3> HIDE DEF Q, R
    <3> QED BY <3>1, SameChoice DEF SameLength
  <2> QED BY <2>1, <2>2, <2>3
<1> HIDE DEF Q, R
<1> QED BY <1>3, <1>4, <1>5 DEF SameLength
----------------------------------------------------------------------------
\* The address of each line by the lengths of the lines before it in the first pass.
Width(line) == IF line.op = "label" THEN 0 ELSE Size(line)
Placed(g, src, org, n) == [k \in 1 .. n + 1 |-> IF k = 1 THEN org ELSE g[k - 1] + Width(src[k - 1])]
Place(src, org) == CHOOSE g : g = Placed(g, src, org, Len(src))

LEMMA PlacesExist == ASSUME NEW src, NEW org PROVE \A n \in Nat : \E g : g = Placed(g, src, org, n)
<1> DEFINE D == {n \in Nat : ~\E g : g = Placed(g, src, org, n)}
<1> SUFFICES ASSUME D # {} PROVE FALSE
  OBVIOUS
<1>1. PICK n \in D : \A k \in D : n <= k
  BY Least
<1>2. n \in Nat /\ ~\E g : g = Placed(g, src, org, n)
  BY <1>1
<1>3. CASE n = 0
  <2> DEFINE g == [k \in 1 .. 1 |-> org]
  <2>1. g = Placed(g, src, org, n)
    BY <1>3 DEF Placed
  <2> QED BY <1>2, <2>1
<1>4. CASE n # 0
  <2>1. n - 1 \in Nat /\ (n - 1) + 1 = n
    BY <1>2, <1>4
  <2>2. PICK g : g = Placed(g, src, org, n - 1)
    BY <1>1, <1>4, <2>1
  <2>3. \A k \in 1 .. n : g[k] = IF k = 1 THEN org ELSE g[k - 1] + Width(src[k - 1])
    BY <2>1, <2>2 DEF Placed
  <2> DEFINE h == [k \in 1 .. n + 1 |-> IF k = n + 1 THEN g[n] + Width(src[n]) ELSE g[k]]
  <2>4. ASSUME NEW k \in 1 .. n + 1
        PROVE  h[k] = IF k = 1 THEN org ELSE h[k - 1] + Width(src[k - 1])
    <3>1. k # 1 => h[k - 1] = g[k - 1]
      BY <1>2
    <3>2. CASE k = n + 1
      <4>1. h[k] = g[n] + Width(src[n]) /\ k - 1 = n /\ k # 1
        BY <1>2, <1>4, <3>2
      <4> QED BY <3>1, <4>1
    <3>3. CASE k # n + 1
      <4>1. h[k] = g[k] /\ k \in 1 .. n
        BY <1>2, <3>3
      <4> QED BY <2>3, <3>1, <4>1
    <3> QED BY <3>2, <3>3
  <2>5. h = [k \in 1 .. n + 1 |-> h[k]]
    OBVIOUS
  <2> HIDE DEF h
  <2>6. h = Placed(h, src, org, n)
    BY <2>4, <2>5 DEF Placed
  <2> QED BY <1>2, <2>6
<1> QED BY <1>3, <1>4

LEMMA PlaceFacts ==
  ASSUME NEW src, Len(src) \in Nat, NEW org
  PROVE  /\ Place(src, org)[1] = org
         /\ \A k \in 1 .. Len(src) : Place(src, org)[k + 1] = Place(src, org)[k] + Width(src[k])
<1> DEFINE at == Place(src, org)
           n == Len(src)
<1>1. \E g : g = Placed(g, src, org, n)
  BY PlacesExist
<1>2. at = Placed(at, src, org, n)
  BY <1>1, Zenon DEF Place
<1>3. n \in Nat
  OBVIOUS
<1> HIDE DEF at, n
<1>4. \A k \in 1 .. n + 1 : at[k] = IF k = 1 THEN org ELSE at[k - 1] + Width(src[k - 1])
  BY <1>2 DEF Placed
<1>5. at[1] = org
  BY <1>3, <1>4
<1>6. \A k \in 1 .. n : at[k + 1] = at[k] + Width(src[k])
  BY <1>3, <1>4
<1> QED BY <1>5, <1>6 DEF at, n
----------------------------------------------------------------------------
\* The first entry of a label's name, and the first line that defines it.
FirstEntry(labels, k) == \A j \in 1 .. k - 1 : labels[j].id # labels[k].id
FirstLine(src, j) == \A i \in 1 .. j - 1 : src[i].op = "label" => src[i].a.n # src[j].a.n

IsAsm(s) ==
  s = [src |-> s.src, org |-> s.org, pass |-> s.pass, pc |-> s.pc, line |-> s.line, head |-> s.head,
       labels |-> s.labels, out |-> s.out, failed |-> s.failed, rewound |-> s.rewound, phase |-> s.phase]
AsmTyped(s) ==
  /\ CodeEndsLow
  /\ IsAsm(s) /\ s.src \in Sources /\ s.org \in Orgs /\ s.pass \in {0, 1} /\ s.head = NoHead
  /\ s.line \in 1 .. Len(s.src) + 1 /\ s.labels \in Seq(Labels)
InLines(s) == s.phase = "lines" /\ ~s.failed
\* A pass that has met no error is where the first pass puts the line.
OnPlace(s) ==
  InLines(s) => s.pc = Place(s.src, s.org)[s.line] /\ s.pc \in Nat /\ s.pc <= s.org + 4 * (s.line - 1)
\* The first pass has recorded the labels it has passed.
Recorded(s) ==
  s.phase = "lines" /\ s.pass = 0 =>
    \A j \in 1 .. s.line - 1 : s.src[j].op = "label" => \E k \in 1 .. Len(s.labels) : s.labels[k].id = s.src[j].a.n
\* The entry that is found for a name holds the place of the line that defines it first.
LabelsPlaced(s) ==
  \A k \in 1 .. Len(s.labels), j \in 1 .. Len(s.src) :
    s.src[j].op = "label" /\ s.labels[k].id = s.src[j].a.n /\ FirstEntry(s.labels, k) /\ FirstLine(s.src, j)
      => s.labels[k].address = Place(s.src, s.org)[j]
Agreed(s) == AsmTyped(s) /\ OnPlace(s) /\ Recorded(s) /\ LabelsPlaced(s)
\* Passes that begin elsewhere place the labels anywhere.
AsmInv(s) == IsAsm(s) /\ (s.rewound => Agreed(s))

LEMMA SourceFacts ==
  ASSUME CodeEndsLow, NEW src \in Sources, NEW org \in Orgs
  PROVE  /\ src \in Seq(SourceLines) /\ Len(src) \in Nat /\ org \in Nat
         /\ \A j \in 1 .. Len(src) : src[j] \in SourceLines /\ src[j].a.n \in Int
         /\ \A v \in Nat : v <= org + 4 * Len(src) => v \in Low
<1>1. src \in Seq(SourceLines)
  BY SourceAssumption DEF SourceLines, Args
<1>2. org \in Nat /\ org + 4 * Len(src) < 32768
  BY SourceAssumption, SMTT(60) DEF CodeEndsLow
<1>3. Len(src) \in Nat
  BY <1>1
<1>4. \A j \in 1 .. Len(src) : src[j] \in SourceLines
  BY <1>1
<1>5. \A j \in 1 .. Len(src) : src[j].a.n \in Int
  BY <1>4 DEF SourceLines, Args
<1>6. \A v \in Nat : v <= org + 4 * Len(src) => v \in Low
  <2> DEFINE end == org + 4 * Len(src)
  <2>1. end \in Nat /\ end < 32768
    BY <1>2, <1>3
  <2> HIDE DEF end
  <2>2. ASSUME NEW v \in Nat, v <= end PROVE v \in Low
    <3>1. v < 32768
      BY <2>1, <2>2
    <3> QED BY <3>1, InLow
  <2> QED BY <2>2 DEF end
<1> QED BY <1>1, <1>2, <1>3, <1>4, <1>5, <1>6

LEMMA AsmBegins == CodeEndsLow /\ RunInit => AsmInv(asm)
<1> SUFFICES ASSUME CodeEndsLow, RunInit PROVE AsmInv(asm)
  OBVIOUS
<1>1. PICK src \in Sources, org \in Orgs : \E at \in Beginnings(src) :
        asm = [src |-> src, org |-> org, pass |-> 0, pc |-> org, line |-> at.line, head |-> at.head,
               labels |-> <<>>, out |-> <<>>, failed |-> FALSE, rewound |-> at = FirstByte, phase |-> "lines"]
  BY DEF RunInit, AsmInit
<1>2. PICK at :
        asm = [src |-> src, org |-> org, pass |-> 0, pc |-> org, line |-> at.line, head |-> at.head,
               labels |-> <<>>, out |-> <<>>, failed |-> FALSE, rewound |-> at = FirstByte, phase |-> "lines"]
  BY <1>1
<1>3. IsAsm(asm) /\ (asm.rewound <=> at = FirstByte)
  BY <1>2 DEF IsAsm
<1>4. ASSUME at = FirstByte PROVE Agreed(asm)
  <2>1. /\ asm.src = src /\ asm.org = org /\ asm.pass = 0 /\ asm.pc = org /\ asm.line = 1 /\ asm.head = NoHead
        /\ asm.labels = <<>> /\ asm.failed = FALSE /\ asm.phase = "lines"
    BY <1>2, <1>4 DEF FirstByte
  <2>2. Len(src) \in Nat /\ org \in Nat
    BY SourceFacts
  <2>3. AsmTyped(asm)
    BY <1>3, <2>1, <2>2 DEF AsmTyped
  <2>4. OnPlace(asm)
    <3>1. Place(src, org)[1] = org
      BY <2>2, PlaceFacts
    <3> QED BY <2>1, <2>2, <3>1 DEF OnPlace
  <2>5. Recorded(asm) /\ LabelsPlaced(asm)
    BY <2>1, Lengths DEF Recorded, LabelsPlaced
  <2> QED BY <2>3, <2>4, <2>5 DEF Agreed
<1> QED BY <1>3, <1>4 DEF AsmInv

\* No step makes a pass that did not begin at the first byte one that did.
LEMMA StaysAstray ==
  ASSUME IsAsm(asm), AsmNext \/ StartProgram PROVE IsAsm(asm') /\ (asm'.rewound => asm.rewound)
<1>1. CASE LabelLine
  BY <1>1 DEF LabelLine, IsAsm
<1>2. CASE CodeLine
  BY <1>2 DEF CodeLine, IsAsm
<1>3. CASE SecondPass
  BY <1>3 DEF SecondPass, IsAsm
<1>4. CASE Finish \/ StartProgram
  BY <1>4 DEF Finish, StartProgram, IsAsm
<1> QED BY <1>1, <1>2, <1>3, <1>4 DEF AsmNext

LEMMA LabelLineKeeps == Agreed(asm) /\ LabelLine => Agreed(asm')
<1> SUFFICES ASSUME Agreed(asm), LabelLine PROVE Agreed(asm')
  OBVIOUS
<1> DEFINE s == asm
           t == asm'
           L == s.line
           n == Len(s.labels)
           at == Place(s.src, s.org)
<1>0. Current = s.src[s.line]
  BY DEF Current, Agreed, AsmTyped
<1>1. AsmTyped(s) /\ OnPlace(s) /\ Recorded(s) /\ LabelsPlaced(s)
  BY DEF Agreed
<1>2. InLines(s) /\ L <= Len(s.src) /\ s.src[L].op = "label"
  BY <1>0 DEF LabelLine, InPass, InLines
<1>3. /\ Len(s.src) \in Nat /\ s.org \in Nat
      /\ \A j \in 1 .. Len(s.src) : s.src[j].a.n \in Int
      /\ \A v \in Nat : v <= s.org + 4 * Len(s.src) => v \in Low
  BY <1>1, SourceFacts DEF AsmTyped
<1>4. L \in 1 .. Len(s.src) /\ n \in Nat /\ s.labels \in Seq(Labels) /\ s.src[L].a.n \in Int
  BY <1>1, <1>2, <1>3 DEF AsmTyped
<1>5. s.pc = at[L] /\ s.pc \in Nat /\ s.pc <= s.org + 4 * (L - 1)
  BY <1>1, <1>2 DEF OnPlace
<1>6. s.pc \in Low
  BY <1>3, <1>4, <1>5, SMTT(60)
<1>7. at[L + 1] = at[L] + 0
  BY <1>2, <1>3, <1>4, PlaceFacts DEF Width
<1>8. CASE s.pass = 0 /\ n >= MAX_LABELS
  <2>1. t = [s EXCEPT !.failed = TRUE]
    BY <1>8 DEF LabelLine
  <2>2. /\ t.src = s.src /\ t.org = s.org /\ t.pass = s.pass /\ t.line = s.line /\ t.labels = s.labels
        /\ t.head = s.head
        /\ t.phase = s.phase /\ t.failed = TRUE /\ IsAsm(t)
    BY <1>1, <2>1 DEF AsmTyped, IsAsm
  <2> HIDE DEF t
  <2>3. AsmTyped(t) /\ Recorded(t) /\ LabelsPlaced(t)
    BY <1>1, <2>2 DEF AsmTyped, Recorded, LabelsPlaced
  <2>4. OnPlace(t)
    BY <2>2 DEF OnPlace, InLines
  <2> QED BY <2>3, <2>4 DEF Agreed, t
<1>9. CASE ~(s.pass = 0 /\ n >= MAX_LABELS)
  <2> DEFINE new == [id |-> s.src[L].a.n, address |-> s.pc]
  <2>1. t = [s EXCEPT !.line = @ + 1, !.head = NoHead, !.labels = IF s.pass = 0 THEN Append(@, new) ELSE @]
    BY <1>0, <1>9, Zenon DEF LabelLine
  <2>2. /\ t.src = s.src /\ t.org = s.org /\ t.pass = s.pass /\ t.line = L + 1 /\ t.pc = s.pc /\ t.head = NoHead
        /\ t.phase = s.phase /\ t.failed = s.failed /\ IsAsm(t)
        /\ t.labels = IF s.pass = 0 THEN Append(s.labels, new) ELSE s.labels
    BY <1>1, <2>1 DEF AsmTyped, IsAsm
  <2>3. new \in Labels /\ new.id = s.src[L].a.n /\ new.address = s.pc
    BY <1>4, <1>6 DEF Labels
  <2> HIDE DEF t, new
  <2>4. t.labels \in Seq(Labels)
    BY <1>4, <2>2, <2>3
  <2>5. AsmTyped(t)
    BY <1>1, <1>3, <1>4, <2>2, <2>4 DEF AsmTyped
  <2>6. OnPlace(t)
    <3>1. s.pc = at[L + 1] /\ s.pc <= s.org + 4 * ((L + 1) - 1)
      <4> DEFINE q == s.pc
                 m == s.org
                 l == L
      <4>1. q \in Nat /\ m \in Nat /\ l \in Nat /\ q <= m + 4 * (l - 1)
        BY <1>3, <1>4, <1>5
      <4>2. q + 0 = at[L + 1]
        BY <1>5, <1>7
      <4> HIDE DEF q, m, l
      <4>3. q = q + 0 /\ q <= m + 4 * ((l + 1) - 1)
        BY <4>1
      <4> QED BY <4>2, <4>3 DEF q, m, l
    <3> QED BY <1>5, <2>2, <3>1 DEF OnPlace
  <2>7. CASE s.pass # 0
    <3>1. t.labels = s.labels
      BY <2>2, <2>7
    <3>2. Recorded(t) /\ LabelsPlaced(t)
      BY <1>1, <2>2, <2>7, <3>1 DEF Recorded, LabelsPlaced
    <3> QED BY <2>5, <2>6, <3>2 DEF Agreed, t
  <2>8. CASE s.pass = 0
    <3>1. /\ Len(t.labels) = n + 1 /\ t.labels[n + 1] = new
          /\ \A k \in 1 .. n : t.labels[k] = s.labels[k]
      BY <1>4, <2>2, <2>3, <2>8
    <3>2. \A j \in 1 .. L - 1 : s.src[j].op = "label" => \E k \in 1 .. n : s.labels[k].id = s.src[j].a.n
      BY <1>1, <1>2, <2>8 DEF Recorded, InLines
    <3> HIDE DEF n
    <3>3. ASSUME NEW j \in 1 .. L, s.src[j].op = "label"
          PROVE  \E k \in 1 .. n + 1 : t.labels[k].id = s.src[j].a.n
      <4>1. CASE j = L
        <5>1. n + 1 \in 1 .. n + 1
          BY <1>4
        <5> QED BY <2>3, <3>1, <4>1, <5>1
      <4>2. CASE j # L
        <5>1. j \in 1 .. L - 1
          BY <1>4, <4>2
        <5>2. PICK k \in 1 .. n : s.labels[k].id = s.src[j].a.n
          BY <3>2, <3>3, <5>1
        <5>3. k \in 1 .. n + 1 /\ t.labels[k].id = s.src[j].a.n
          BY <1>4, <3>1, <5>2
        <5> QED BY <5>3
      <4> QED BY <4>1, <4>2
    <3>4. Recorded(t)
      <4>1. (L + 1) - 1 = L
        BY <1>4
      <4> QED BY <2>2, <3>1, <3>3, <4>1 DEF Recorded
    <3>5. ASSUME NEW k \in 1 .. n + 1, NEW j \in 1 .. Len(s.src), s.src[j].op = "label",
                 t.labels[k].id = s.src[j].a.n, FirstEntry(t.labels, k), FirstLine(s.src, j)
          PROVE  t.labels[k].address = at[j]
      <4>1. CASE k # n + 1
        <5>1. k \in 1 .. n /\ t.labels[k] = s.labels[k]
          BY <1>4, <3>1, <4>1
        <5>2. \A i \in 1 .. k - 1 : i \in 1 .. n
          BY <1>4, <5>1
        <5>3. FirstEntry(s.labels, k)
          BY <3>1, <3>5, <5>1, <5>2 DEF FirstEntry
        <5>4. s.labels[k].address = at[j]
          BY <1>1, <3>5, <5>1, <5>3 DEF LabelsPlaced, n
        <5> QED BY <5>1, <5>4
      <4>2. CASE k = n + 1
        <5>1. t.labels[k] = new
          BY <3>1, <4>2
        <5>2. ~(L < j)
          <6>1. L < j => L \in 1 .. j - 1
            BY <1>3, <1>4
          <6> QED BY <1>2, <2>3, <3>5, <5>1, <6>1 DEF FirstLine
        <5>3. ~(j < L)
          <6> SUFFICES ASSUME j < L PROVE FALSE
            OBVIOUS
          <6>1. j \in 1 .. L - 1
            BY <1>3, <1>4
          <6>2. PICK i \in 1 .. n : s.labels[i].id = s.src[j].a.n
            BY <3>2, <3>5, <6>1
          <6>3. i \in 1 .. k - 1 /\ t.labels[i] = s.labels[i]
            BY <1>4, <3>1, <4>2
          <6> QED BY <3>5, <6>2, <6>3 DEF FirstEntry
        <5>4. j = L
          BY <1>3, <1>4, <5>2, <5>3
        <5> QED BY <1>5, <2>3, <5>1, <5>4
      <4> QED BY <4>1, <4>2
    <3>6. LabelsPlaced(t)
      BY <2>2, <3>1, <3>5 DEF LabelsPlaced
    <3> QED BY <2>5, <2>6, <3>4, <3>6 DEF Agreed, t
  <2> QED BY <2>7, <2>8
<1> QED BY <1>8, <1>9

LEMMA CodeLineKeeps == Agreed(asm) /\ CodeLine => Agreed(asm')
<1> SUFFICES ASSUME Agreed(asm), CodeLine PROVE Agreed(asm')
  OBVIOUS
<1> DEFINE s == asm
           t == asm'
           L == s.line
           at == Place(s.src, s.org)
           rule == Codegen(s.pass, s.pc, s.labels, s.src[L])
           pc == Uint16(s.pc + Len(rule.bytes))
           out == IF s.pass = 1 THEN s.out \o rule.bytes ELSE s.out
<1>0. Current = s.src[s.line]
  BY DEF Current, Agreed, AsmTyped
<1>1. AsmTyped(s) /\ OnPlace(s) /\ Recorded(s) /\ LabelsPlaced(s)
  BY DEF Agreed
<1>2. InLines(s) /\ L <= Len(s.src) /\ s.src[L].op # "label"
  BY <1>0 DEF CodeLine, InPass, InLines
<1>3. /\ Len(s.src) \in Nat /\ s.org \in Nat
      /\ \A j \in 1 .. Len(s.src) : s.src[j] \in SourceLines
      /\ \A v \in Nat : v <= s.org + 4 * Len(s.src) => v \in Low
  BY <1>1, SourceFacts DEF AsmTyped
<1>4. L \in 1 .. Len(s.src) /\ s.labels \in Seq(Labels) /\ s.src[L] \in SourceLines /\ s.pass \in {0, 1}
  BY <1>1, <1>2, <1>3 DEF AsmTyped
<1>5. s.pc = at[L] /\ s.pc \in Nat /\ s.pc <= s.org + 4 * (L - 1)
  BY <1>1, <1>2 DEF OnPlace
<1>6. at[L + 1] = at[L] + Size(s.src[L])
  BY <1>2, <1>3, <1>4, PlaceFacts DEF Width
<1>7. t = [s EXCEPT !.pc = pc, !.out = out, !.line = IF rule.ok THEN L + 1 ELSE L, !.head = NoHead, !.failed = ~rule.ok]
  BY <1>0, Zenon DEF CodeLine
<1>8. rule.ok => Len(rule.bytes) = Size(s.src[L]) /\ Size(s.src[L]) \in 0 .. 4
  BY <1>4, LengthKept
<1> HIDE DEF rule, out, pc
<1>9. /\ t.src = s.src /\ t.org = s.org /\ t.pass = s.pass /\ t.labels = s.labels /\ t.phase = s.phase /\ t.head = NoHead
      /\ t.pc = pc /\ t.line = (IF rule.ok THEN L + 1 ELSE L) /\ t.failed = ~rule.ok /\ IsAsm(t)
  BY <1>1, <1>7 DEF AsmTyped, IsAsm
<1> HIDE DEF t
<1>10. CASE ~rule.ok
  <2>1. t.line = L /\ ~InLines(t)
    BY <1>9, <1>10 DEF InLines
  <2>2. AsmTyped(t) /\ OnPlace(t) /\ Recorded(t) /\ LabelsPlaced(t)
    BY <1>1, <1>9, <2>1 DEF AsmTyped, OnPlace, Recorded, LabelsPlaced
  <2> QED BY <2>2 DEF Agreed, t
<1>11. CASE rule.ok
  <2>1. t.line = L + 1
    BY <1>9, <1>11
  <2>2. /\ s.pc + Len(rule.bytes) \in Nat /\ s.pc + Len(rule.bytes) = at[L + 1]
        /\ s.pc + Len(rule.bytes) <= s.org + 4 * ((L + 1) - 1)
    <3> DEFINE z == Len(rule.bytes)
               q == s.pc
               m == s.org
               l == L
    <3>1. z = Size(s.src[L]) /\ z \in 0 .. 4
      BY <1>8, <1>11
    <3>2. q \in Nat /\ m \in Nat /\ l \in Nat /\ q <= m + 4 * (l - 1)
      BY <1>3, <1>4, <1>5
    <3>3. q + z = at[L + 1]
      BY <1>5, <1>6, <3>1
    <3> HIDE DEF z, q, m, l
    <3>4. q + z \in Nat /\ q + z <= m + 4 * ((l + 1) - 1)
      BY <3>1, <3>2
    <3> QED BY <3>3, <3>4 DEF z, q, m, l
  <2>3. s.pc + Len(rule.bytes) \in Low
    BY <1>3, <1>4, <2>2, SMTT(60)
  <2>4. pc = s.pc + Len(rule.bytes)
    BY <2>3, LowWord DEF pc
  <2>5. OnPlace(t)
    <3>1. t.pc = s.pc + Len(rule.bytes) /\ t.src = s.src /\ t.org = s.org
      BY <1>9, <2>4
    <3>2. t.pc = at[L + 1] /\ t.pc \in Nat /\ t.pc <= s.org + 4 * ((L + 1) - 1)
      BY <2>2, <3>1
    <3> QED BY <2>1, <3>1, <3>2 DEF OnPlace
  <2>6. AsmTyped(t) /\ LabelsPlaced(t)
    <3>1. t.line \in 1 .. Len(s.src) + 1
      BY <1>3, <1>4, <2>1
    <3>2. AsmTyped(t)
      BY <1>1, <1>9, <3>1 DEF AsmTyped
    <3>3. LabelsPlaced(t)
      BY <1>1, <1>9 DEF LabelsPlaced
    <3> QED BY <3>2, <3>3
  <2>7. Recorded(t)
    <3>1. \A j \in 1 .. (L + 1) - 1 : j = L \/ j \in 1 .. L - 1
      BY <1>3, <1>4
    <3> QED BY <1>1, <1>2, <1>9, <2>1, <3>1 DEF Recorded
  <2> QED BY <2>5, <2>6, <2>7 DEF Agreed, t
<1> QED BY <1>10, <1>11

LEMMA SecondPassKeeps == Agreed(asm) /\ SecondPass /\ asm'.rewound => Agreed(asm')
<1> SUFFICES ASSUME Agreed(asm), SecondPass, asm'.rewound PROVE Agreed(asm')
  OBVIOUS
<1> DEFINE s == asm
           t == asm'
<1>1. AsmTyped(s) /\ LabelsPlaced(s)
  BY DEF Agreed
<1>2. Len(s.src) \in Nat /\ s.org \in Nat /\ Place(s.src, s.org)[1] = s.org
  BY <1>1, SourceFacts, PlaceFacts DEF AsmTyped
<1>3. PICK at : t = [s EXCEPT !.pass = 1, !.pc = s.org, !.line = at.line, !.head = at.head, !.failed = FALSE,
                              !.rewound = s.rewound /\ at = FirstByte]
  BY DEF SecondPass
<1>4. at = FirstByte
  BY <1>1, <1>3 DEF AsmTyped, IsAsm
<1>5. /\ t.src = s.src /\ t.org = s.org /\ t.pass = 1 /\ t.labels = s.labels
      /\ t.pc = s.org /\ t.line = 1 /\ t.head = NoHead /\ IsAsm(t)
  BY <1>1, <1>3, <1>4 DEF AsmTyped, IsAsm, FirstByte
<1> HIDE DEF t
<1>6. AsmTyped(t) /\ LabelsPlaced(t)
  BY <1>1, <1>2, <1>5 DEF AsmTyped, LabelsPlaced
<1>7. OnPlace(t) /\ Recorded(t)
  BY <1>2, <1>5 DEF OnPlace, Recorded
<1> QED BY <1>6, <1>7 DEF Agreed, t

LEMMA FinishKeeps == Agreed(asm) /\ Finish => Agreed(asm')
<1> SUFFICES ASSUME Agreed(asm), Finish PROVE Agreed(asm')
  OBVIOUS
<1> DEFINE s == asm
           t == asm'
<1>1. AsmTyped(s) /\ LabelsPlaced(s)
  BY DEF Agreed
<1>2. t = [s EXCEPT !.phase = "assembled"]
  BY DEF Finish
<1>3. /\ t.src = s.src /\ t.org = s.org /\ t.pass = s.pass /\ t.labels = s.labels
      /\ t.line = s.line /\ t.head = s.head /\ t.phase = "assembled" /\ IsAsm(t)
  BY <1>1, <1>2 DEF AsmTyped, IsAsm
<1> HIDE DEF t
<1>4. AsmTyped(t) /\ LabelsPlaced(t)
  BY <1>1, <1>3 DEF AsmTyped, LabelsPlaced
<1>5. OnPlace(t) /\ Recorded(t)
  BY <1>3 DEF OnPlace, Recorded, InLines
<1> QED BY <1>4, <1>5 DEF Agreed, t

LEMMA StartKeeps == Agreed(asm) /\ StartProgram => Agreed(asm')
<1> SUFFICES ASSUME Agreed(asm), StartProgram PROVE Agreed(asm')
  OBVIOUS
<1> DEFINE s == asm
           t == asm'
<1>1. AsmTyped(s) /\ LabelsPlaced(s)
  BY DEF Agreed
<1>2. t = [s EXCEPT !.phase = "running"]
  BY DEF StartProgram
<1>3. /\ t.src = s.src /\ t.org = s.org /\ t.pass = s.pass /\ t.labels = s.labels
      /\ t.line = s.line /\ t.head = s.head /\ t.phase = "running" /\ IsAsm(t)
  BY <1>1, <1>2 DEF AsmTyped, IsAsm
<1> HIDE DEF t
<1>4. AsmTyped(t) /\ LabelsPlaced(t)
  BY <1>1, <1>3 DEF AsmTyped, LabelsPlaced
<1>5. OnPlace(t) /\ Recorded(t)
  BY <1>3 DEF OnPlace, Recorded, InLines
<1> QED BY <1>4, <1>5 DEF Agreed, t

LEMMA AsmStep == AsmInv(asm) /\ [RunNext]_<<vars, asm>> => AsmInv(asm')
<1> SUFFICES ASSUME AsmInv(asm), [RunNext]_<<vars, asm>> PROVE AsmInv(asm')
  OBVIOUS
<1>1. CASE Assemble
  <2>1. IsAsm(asm) /\ IsAsm(asm') /\ (asm'.rewound => asm.rewound)
    BY <1>1, StaysAstray DEF Assemble, AsmInv
  <2>2. ASSUME asm'.rewound PROVE Agreed(asm')
    <3>1. Agreed(asm)
      BY <2>1, <2>2 DEF AsmInv
    <3> QED BY <1>1, <2>2, <3>1, LabelLineKeeps, CodeLineKeeps, SecondPassKeeps, FinishKeeps DEF Assemble, AsmNext
  <2> QED BY <2>1, <2>2 DEF AsmInv
<1>2. CASE StartProgram
  <2>1. IsAsm(asm) /\ IsAsm(asm') /\ (asm'.rewound => asm.rewound)
    BY <1>2, StaysAstray DEF AsmInv
  <2> QED BY <1>2, <2>1, StartKeeps DEF AsmInv
<1>3. CASE Run
  <2>1. asm' = asm
    BY <1>3 DEF Run
  <2> QED BY <2>1
<1>4. CASE UNCHANGED <<vars, asm>>
  <2>1. asm' = asm
    BY <1>4
  <2> QED BY <2>1
<1> QED BY <1>1, <1>2, <1>3, <1>4 DEF RunNext

LEMMA InvAgrees == AsmInv(asm) => PassesAgree
<1> SUFFICES ASSUME Agreed(asm), InPass, asm.src[asm.line].op = "label",
                    NEW k \in DOMAIN asm.labels, asm.labels[k].id = asm.src[asm.line].a.n,
                    \A j \in 1 .. k - 1 : asm.labels[j].id # asm.labels[k].id,
                    \A j \in 1 .. asm.line - 1 : asm.src[j].op = "label" => asm.src[j].a.n # asm.labels[k].id
             PROVE  asm.labels[k].address = asm.pc
  BY DEF PassesAgree, AsmInv
<1>1. AsmTyped(asm) /\ OnPlace(asm) /\ LabelsPlaced(asm) /\ InLines(asm) /\ asm.line <= Len(asm.src)
  BY DEF Agreed, InPass, InLines
<1>2. asm.line \in 1 .. Len(asm.src) /\ k \in 1 .. Len(asm.labels)
  <2>1. Len(asm.src) \in Nat
    BY <1>1, SourceFacts DEF AsmTyped
  <2> QED BY <1>1, <2>1 DEF AsmTyped
<1>3. FirstEntry(asm.labels, k) /\ FirstLine(asm.src, asm.line)
  BY DEF FirstEntry, FirstLine
<1>4. asm.labels[k].address = Place(asm.src, asm.org)[asm.line]
  BY <1>1, <1>2, <1>3 DEF LabelsPlaced
<1> QED BY <1>1, <1>4 DEF OnPlace

(* For sources of every length, with any operands, whose code ends below   *)
(* 8000h: when the lseek of main rewinds both passes, the second meets     *)
(* every label at the address the first gave it.                           *)
THEOREM PassesStayAgreed == CodeEndsLow => (RunSpec => []PassesAgree)
<1> SUFFICES ASSUME CodeEndsLow PROVE RunSpec => []PassesAgree
  OBVIOUS
<1>1. RunInit => AsmInv(asm)
  BY AsmBegins
<1>2. AsmInv(asm) /\ [RunNext]_<<vars, asm>> => AsmInv(asm)'
  BY AsmStep
<1>3. AsmInv(asm) => PassesAgree
  BY InvAgrees
<1> QED BY <1>1, <1>2, <1>3, PTL DEF RunSpec
----------------------------------------------------------------------------
\* The rule at place k is chosen when no earlier one applies.
LEMMA FirstChosen ==
  ASSUME NEW rs, NEW n, IsList(rs, n), NEW k \in 1 .. n, rs[k].cond, \A j \in 1 .. k - 1 : ~rs[j].cond
  PROVE  Chosen(rs) = rs[k]
<1> DEFINE R == rs \o <<NoRule>>
           m == Min(Applying(R))
<1>1. n \in Nat /\ DOMAIN R = 1 .. n + 1 /\ m \in Applying(R) /\ Applying(R) \in SUBSET (1 .. n + 1)
  BY Choice
<1>2. \A j \in 1 .. n : R[j] = rs[j]
  BY Choice
<1>3. \A j \in Applying(R) : m <= j
  BY Choice
<1>4. Chosen(rs) = R[m]
  BY DEF Chosen, Pick
<1> HIDE DEF R, m
<1>5. k \in Nat /\ k <= n /\ k \in 1 .. n + 1
  BY <1>1
<1>6. k \in Applying(R)
  BY <1>1, <1>2, <1>5 DEF Applying
<1>7. m \in 1 .. n + 1 /\ m <= k /\ R[m].cond
  BY <1>1, <1>3, <1>6 DEF Applying
<1>8. m \in 1 .. n /\ ~(m \in 1 .. k - 1)
  BY <1>1, <1>2, <1>5, <1>7
<1>9. m = k
  BY <1>5, <1>7, <1>8
<1> QED BY <1>2, <1>4, <1>8, <1>9

\* Which rule of LD loads A from an argument in parentheses.
LEMMA LoadChoice ==
  ASSUME NEW a, NEW b, a.s = "A", b.s \in {"(lab)", "(num)"}, reg8(a) = 7, reg8(b) = -1, index_reg(b) = -1,
         mem_addr(a) = -1, ~index_addr(a), ~index_addr(b)
  PROVE  Chosen(LD(a, b)).ok /\ Len(Chosen(LD(a, b)).bytes) = IF mem_addr(b) >= 0 THEN 3 ELSE 2
<1> DEFINE LoadA == Emit(a.s = "A" /\ mem_addr(b) >= 0, <<58>> \o AsWord(mem_addr(b)))
           LoadHL == Emit(a.s = "HL" /\ mem_addr(b) >= 0, <<42>> \o AsWord(mem_addr(b)))
           StoreA == Emit(b.s = "A" /\ mem_addr(a) >= 0, <<50>> \o AsWord(mem_addr(a)))
           StoreHL == Emit(b.s = "HL" /\ mem_addr(a) >= 0, <<34>> \o AsWord(mem_addr(a)))
           StoreIndex == Emit(index_reg(b) # -1 /\ mem_addr(a) >= 0, <<index_reg(b), 34>> \o AsWord(mem_addr(a)))
           BothHL == Fail(reg8(a) = 6 /\ reg8(b) = 6, <<>>)
           LoadN == Emit(reg8(a) # -1, <<6 + 8 * reg8(a), AsByte(strtol(b))>>)
<1>0. IsList(LD(a, b), 19)
  BY Nineteen DEF LD
<1>1. ~LD(a, b)[1].cond
  BY DEF LD, Emit, Fail
<1>2. ~LD(a, b)[2].cond
  BY DEF LD, Emit, Fail
<1>3. ~LD(a, b)[3].cond
  BY DEF LD, Emit, Fail
<1>4. ~LD(a, b)[4].cond
  BY DEF LD, Emit, Fail
<1>5. ~LD(a, b)[5].cond
  BY DEF LD, Emit, Fail
<1>6. ~LD(a, b)[6].cond
  BY DEF LD, Emit, Fail
<1>7. ~LD(a, b)[7].cond
  BY DEF LD, Emit, Fail
<1>8. LD(a, b)[8] = LoadA /\ LoadA.ok /\ Len(LoadA.bytes) = 3 /\ (LoadA.cond <=> mem_addr(b) >= 0)
  <2>1. LD(a, b)[8] = LoadA
    BY DEF LD
  <2>2. LoadA.ok /\ Len(LoadA.bytes) = 3 /\ (LoadA.cond <=> mem_addr(b) >= 0)
    BY Lengths DEF Emit
  <2> QED BY <2>1, <2>2
<1>9. ~LD(a, b)[9].cond
  <2>1. LD(a, b)[9] = LoadHL
    BY DEF LD
  <2>2. ~LoadHL.cond
    BY DEF Emit
  <2> QED BY <2>1, <2>2
<1>10. ~LD(a, b)[10].cond
  <2>1. LD(a, b)[10] = StoreA
    BY DEF LD
  <2>2. ~StoreA.cond
    BY DEF Emit
  <2> QED BY <2>1, <2>2
<1>11. ~LD(a, b)[11].cond
  <2>1. LD(a, b)[11] = StoreHL
    BY DEF LD
  <2>2. ~StoreHL.cond
    BY DEF Emit
  <2> QED BY <2>1, <2>2
<1>12. ~LD(a, b)[12].cond
  <2>1. LD(a, b)[12] = StoreIndex
    BY DEF LD
  <2>2. ~StoreIndex.cond
    BY DEF Emit
  <2> QED BY <2>1, <2>2
<1>13. ~LD(a, b)[13].cond
  BY DEF LD, Emit, Fail
<1>14. ~LD(a, b)[14].cond
  <2>1. LD(a, b)[14] = BothHL
    BY DEF LD
  <2>2. ~(reg8(a) = 6)
    OBVIOUS
  <2>3. ~BothHL.cond
    BY <2>2, Zenon DEF Fail
  <2> HIDE DEF BothHL
  <2> QED BY <2>1, <2>3
<1>15. ~LD(a, b)[15].cond
  BY DEF LD, Emit, Fail
<1>16. LD(a, b)[16] = LoadN /\ LoadN.ok /\ Len(LoadN.bytes) = 2 /\ LoadN.cond
  <2>1. LD(a, b)[16] = LoadN
    BY DEF LD
  <2>2. LoadN.ok /\ LoadN.bytes = <<6 + 8 * reg8(a), AsByte(strtol(b))>> /\ LoadN.cond
    <3>1. reg8(a) # -1
      OBVIOUS
    <3> QED BY <3>1, Zenon DEF Emit
  <2>3. Len(<<6 + 8 * reg8(a), AsByte(strtol(b))>>) = 2
    BY Lengths, Zenon
  <2> HIDE DEF LoadN
  <2> QED BY <2>1, <2>2, <2>3
<1> DEFINE R == LD(a, b)
<1> HIDE DEF R, LoadA, LoadN
<1>17. IsList(R, 19) /\ R[8] = LoadA /\ R[16] = LoadN
  BY <1>0, <1>8, <1>16 DEF R
<1>18. \A j \in 1 .. 7 : ~R[j].cond
  BY <1>1, <1>2, <1>3, <1>4, <1>5, <1>6, <1>7 DEF R
<1>19. \A j \in 9 .. 15 : ~R[j].cond
  BY <1>9, <1>10, <1>11, <1>12, <1>13, <1>14, <1>15 DEF R
<1>20. CASE mem_addr(b) >= 0
  <2>1. Chosen(R) = R[8]
    <3>1. R[8].cond /\ 8 \in 1 .. 19 /\ \A j \in 1 .. 8 - 1 : ~R[j].cond
      BY <1>8, <1>17, <1>18, <1>20
    <3> QED BY <1>17, <3>1, FirstChosen
  <2> QED BY <1>8, <1>17, <1>20, <2>1 DEF R
<1>21. CASE ~(mem_addr(b) >= 0)
  <2>1. Chosen(R) = R[16]
    <3>1. ~R[8].cond /\ \A j \in 1 .. 16 - 1 : j \in 1 .. 7 \/ j = 8 \/ j \in 9 .. 15
      BY <1>8, <1>17, <1>21
    <3>2. R[16].cond /\ 16 \in 1 .. 19 /\ \A j \in 1 .. 16 - 1 : ~R[j].cond
      BY <1>16, <1>17, <1>18, <1>19, <3>1
    <3> QED BY <1>17, <3>2, FirstChosen
  <2> QED BY <1>16, <1>17, <1>21, <2>1 DEF R
<1> QED BY <1>20, <1>21

LEMMA LoadGenerated ==
  ASSUME NEW pass, NEW pc, NEW labels, NEW line, line.op = "LD"
  PROVE  Codegen(pass, pc, labels, line) =
           Chosen(LD(IF pass = 1 THEN Resolved(labels, line.a) ELSE line.a,
                     IF pass = 1 THEN Resolved(labels, line.b) ELSE line.b))
<1> DEFINE c == IF pass = 1 THEN Resolved(labels, line.a) ELSE line.a
           d == IF pass = 1 THEN Resolved(labels, line.b) ELSE line.b
<1>1. Codegen(pass, pc, labels, line) = Chosen(Rules(pass, pc, line.op, c, d))
  BY DEF Codegen, Chosen, Pick, Applying
<1> HIDE DEF c, d
<1>2. Rules(pass, pc, line.op, c, d) = LD(c, d)
  BY DEF Rules
<1> QED BY <1>1, <1>2, Zenon DEF c, d

LEMMA OnlyLabel ==
  ASSUME NEW labels, NEW id, NEW v, DOMAIN labels = {1}, labels[1].id = id, labels[1].address = v
  PROVE  get_label_addr(labels, id) = Int16(v)
<1> DEFINE at == {k \in DOMAIN labels : labels[k].id = id}
<1>1. at = {1}
  OBVIOUS
<1>2. get_label_addr(labels, id) = IF at = {} THEN -1 ELSE Int16(labels[Min(at)].address)
  BY DEF get_label_addr
<1> HIDE DEF at
<1>3. Min(at) = 1
  BY <1>1, Minimum
<1> QED BY <1>1, <1>2, <1>3

\* The addresses that are negative as an int, without FFFFh, which reads as "no label".
High == 32768 .. 65534
\* Both passes accept the line, which is three bytes in the first and two in the second.
Shortened(pc, labels, line) ==
  /\ Codegen(0, pc, <<>>, line).ok /\ Len(Codegen(0, pc, <<>>, line).bytes) = 3
  /\ Codegen(1, pc, labels, line).ok /\ Len(Codegen(1, pc, labels, line).bytes) = 2
\* The line loads A from a label, whose address is negative.
LoadsNegative(labels, line) ==
  /\ line.op = "LD" /\ line.a.s = "A" /\ line.b.s = "(lab)"
  /\ Resolved(labels, line.a) = line.a /\ Resolved(labels, line.b).s = "(num)"
  /\ mem_addr(Resolved(labels, line.b)) \in Int /\ mem_addr(Resolved(labels, line.b)) < 0
\* The line loads A from the only label of the table, which lies at v.
LoadsFrom(v, labels, line) ==
  /\ line.op = "LD" /\ line.a.s = "A" /\ line.b.s = "(lab)"
  /\ DOMAIN labels = {1} /\ labels[1].id = line.b.n /\ labels[1].address = v

LEMMA LoadLengths ==
  ASSUME NEW labels, NEW line, NEW pc, LoadsNegative(labels, line) PROVE Shortened(pc, labels, line)
<1> DEFINE a == line.a
           b == line.b
           d == Resolved(labels, line.b)
<1>0. Resolved(labels, a) = a /\ a.s = "A" /\ b.s = "(lab)" /\ d.s = "(num)" /\ ~(mem_addr(d) >= 0)
  BY DEF LoadsNegative
<1>3. Codegen(0, pc, <<>>, line) = Chosen(LD(a, b))
  <2>1. 0 # 1
    OBVIOUS
  <2> QED BY <2>1, LoadGenerated DEF LoadsNegative
<1>4. Codegen(1, pc, labels, line) = Chosen(LD(a, d))
  BY LoadGenerated DEF LoadsNegative
<1> HIDE DEF a, b, d
<1>1. reg8(a) = 7 /\ reg8(b) = -1 /\ reg8(d) = -1 /\ index_reg(b) = -1 /\ index_reg(d) = -1
  BY <1>0 DEF reg8, Lookup, Reg8Table, index_reg
<1>2. mem_addr(a) = -1 /\ mem_addr(b) = 0 /\ ~index_addr(a) /\ ~index_addr(b) /\ ~index_addr(d)
  BY <1>0 DEF mem_addr, index_addr, Parenthesised
<1>5. Chosen(LD(a, b)).ok /\ Len(Chosen(LD(a, b)).bytes) = 3
  <2>1. mem_addr(b) >= 0
    BY <1>2
  <2> QED BY <1>0, <1>1, <1>2, <2>1, LoadChoice
<1>6. Chosen(LD(a, d)).ok /\ Len(Chosen(LD(a, d)).bytes) = 2
  BY <1>0, <1>1, <1>2, LoadChoice
<1> QED BY <1>3, <1>4, <1>5, <1>6 DEF Shortened

LEMMA HighLoad ==
  ASSUME NEW v \in High, NEW labels, NEW line, NEW pc, LoadsFrom(v, labels, line)
  PROVE  Shortened(pc, labels, line)
<1> DEFINE w == v - 65536
<1>1. Int16(v) = w /\ Int16(w) = w /\ w < -1 /\ w \in Int
  <2>1. v \in Int /\ 32768 <= v /\ v < 65535
    BY SMTT(60) DEF High
  <2>2. v % 65536 = v
    BY <2>1, SMTT(60)
  <2>3. w \in Int /\ w % 65536 = v /\ w < -1
    BY <2>1, SMTT(60)
  <2> QED BY <2>1, <2>2, <2>3 DEF Int16, Uint16
<1> HIDE DEF w
<1>2. get_label_addr(labels, line.b.n) = w
  BY <1>1, OnlyLabel DEF LoadsFrom
<1>3. Resolved(labels, line.a) = line.a /\ Resolved(labels, line.b) = [s |-> "(num)", n |-> w]
  BY <1>1, <1>2 DEF Resolved, LoadsFrom
<1>4. Resolved(labels, line.b).s = "(num)" /\ mem_addr(Resolved(labels, line.b)) = w
  BY <1>1, <1>3 DEF mem_addr
<1>5. mem_addr(Resolved(labels, line.b)) \in Int /\ mem_addr(Resolved(labels, line.b)) < 0
  BY <1>1, <1>4
<1>6. LoadsNegative(labels, line)
  BY <1>3, <1>4, <1>5 DEF LoadsNegative, LoadsFrom
<1> QED BY <1>6, LoadLengths

(* The reason for CodeEndsLow: LD A,(label) is three bytes in the first    *)
(* pass and two in the second when the label lies at 8000h or above,       *)
(* because its address is then negative as an int and the rule of          *)
(* line_codegen for an absolute address is passed over for the one for a   *)
(* number.  Both passes accept the line.                                   *)
THEOREM HighLabelsShorten ==
  ASSUME NEW v \in High, NEW id \in Int, NEW pc
  PROVE  LET line == [op |-> "LD", a |-> [s |-> "A", n |-> 0], b |-> [s |-> "(lab)", n |-> id]]
             labels == <<[id |-> id, address |-> v]>>
             first == Codegen(0, pc, <<>>, line)
             second == Codegen(1, pc, labels, line)
         IN  first.ok /\ Len(first.bytes) = 3 /\ second.ok /\ Len(second.bytes) = 2
<1> DEFINE line == [op |-> "LD", a |-> [s |-> "A", n |-> 0], b |-> [s |-> "(lab)", n |-> id]]
           labels == <<[id |-> id, address |-> v]>>
<1>1. LoadsFrom(v, labels, line)
  BY DEF LoadsFrom
<1> HIDE DEF line, labels
<1>2. Shortened(pc, labels, line)
  BY <1>1, HighLoad
<1> QED BY <1>2 DEF line, labels, Shortened
=============================================================================
